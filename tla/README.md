# A verification project for Tiny RF Simulator

TLA+ models of the parts of the simulator that are hard to get right and hard
to test, TLC runs that check them on small instances, and TLAPS proofs of what
matters most for every size.  The models are translated from the C++ under
`src/`; `PROJECT.json` maps every definition to the lines it stands for.

The program is a desktop editor and simulator of RF circuits.  A frame loop on
the UI thread draws the panels, applies the user's edits and updates the
signal flow.  Beside it an optional *agent server* listens on a local socket,
so that an AI agent can read and edit the circuit through an *MCP bridge*, a
process of its own.  Most of the code is arithmetic, drawing and formatting;
the parts modelled here are those with state, order and concurrency.

To check a run: `tlc -config MCFlows.cfg MCFlows`.  To check proofs:
`tlapm ShellProofs.tla`.

## 1. Inventory

| Component | State | Operations | What it talks to |
| --- | --- | --- | --- |
| Agent server (`agent/api/src/agent_server.cpp`) | inbox, outbox, active call, sessions, status, flags; one mutex, and `pump_mutex`, `lifecycle_mutex` | `start`, `stop`, `submit`, `pump`; the listener thread | sockets, the frame loop, the Agent window |
| MCP bridge (`agent/mcp/src/mcp_bridge.cpp`) | event queue, call queue, cancellation tokens, done flags | the reader, session and caller threads; `runBridge` returns | standard input and output, the agent server |
| MCP session (`mcp_session.cpp`) | protocol era, client's name | one line after the other | the bridge |
| GUI link and endpoint file (`gui_link.cpp`, `agent_endpoint.cpp`, `agent_socket.cpp`) | the endpoint file and its owner, a socket, a greeting | find, dial, greet, call, close | bridge and simulators |
| Node graph (`node_graph/`) | nodes, pins, links, probes, subcircuits, the node-to-subcircuit cache | add and remove nodes and links, cycle check, group, expand, dissolve, probes, restore | the circuit runtime, the widgets |
| Circuit runtime (`app/src/circuit_runtime.cpp`, rewiring) | components, engines, input pointers | create, remove, connect, disconnect, rewire, reset, update | the node graph, the engines |
| Editor commands (`app/src/editor_commands.cpp`) | revision, clean revision, layout undo | every edit of the circuit, replacement of a placed part, layout | the runtime, the canvas, the instruments |
| Project replacement (`app/src/app.cpp`) | project name and path, views, instruments | New, Open, Save, revert to a checkpoint, restart of the tutorial | all of the above |
| Project file and its write (`app/src/project_serializer.cpp`) | the JSON of a project, a temporary file, copies in `rf_data/` | `toJson`, `fromJson`, `save` | the file system |
| Views and instruments | PFB views, the Network Analyzer's points, the power meter's source | sync, select, clear | pins and engines of the circuit |
| Signal flow (`common/component_engine_base.h`, `spectrum.h`, the engines) | spectra and their generations, dirty flags, what each engine saw of its inputs, the PFB's channels | `update` of every engine in topological order | the circuit runtime, the analyzer |
| Spectrum analyzer (`spectrum_analyzer/`) | render cache, held traces by address, trace mode, bandwidths | draw, prune, reset | the outputs of the engines |
| Network analyzer, receiver measurement (`network_analyzer/`, `app/src/receiver_*`) | cached trace, stimulus, a measurement over many frames, a form | update, edit, judge; the agent's two tools | clones of the circuit |
| Agent tools, checkpoints (`agent/api/src/tool_*.cpp`, `app/src/app_agent_host.cpp`) | checkpoint list, pending checkpoint, activity list, epoch, latches | edit calls, checkpoints, revert, save, load | the agent server, the project |
| Test flow (`test_flow/`, `test_flow_widget.cpp`, `tool_test_flow.cpp`) | a run over many frames, its boundary, the panel's draft, files and result | start, advance, cancel, restore; open, author, save, export | the circuit, the agent server |
| Component library (`app/src/component_library.cpp`) | entries on disk and in memory | author, create, scan | the file system, other simulators |
| Extensions, trust, external tools (`app/src/extension_*.cpp`, `external_tool_runner.cpp`) | found folders, the trust file, a prompt | discover, grant, run | the project's directory, child processes |
| Application shell (`app/src/app.cpp`) | open dialogs, pending action, tutorial, named layouts | menus, keyboard, dialogs, start, close | everything the user reaches |
| Git status (`app/src/git_status.cpp`) | queries in flight, the last answer | poll, update, fit into the menu bar | child processes |
| Panels, Touchstone, numerics, agent catalogue | drawing, tables, texts | | |

What is hard in each, and what makes it correct, is listed under `hazards` in
`PROJECT.json`, at the line where it bites.  The main ones:

* **Concurrency.**  The agent server has three threads around one mutex, and a
  call is held in a local variable of the pump, outside every queue, while
  `stop()` empties them.  A call must be answered once, by the right
  connection, whatever is closed, replaced, stopped or restarted.
* **Crashes and time-outs.**  A simulator that crashes leaves its endpoint file
  behind and frees a port that another takes; a call that timed out may still
  run.  A save is eight calls of the operating system, each of which may fail
  or be the last.
* **Bounded queues.**  Server and bridge count items and bytes by hand on many
  paths; the bridge posts its last events without looking at the result.
* **Stale references.**  Inputs are raw pointers into other engines; pins and
  nodes are numbered afresh by every project, while views, instrument points,
  layout undo and checkpoints hold numbers from before.
* **Caches.**  An engine recomputes when an address or a generation differs from
  what it saw, the PFB when one of six conditions holds; the spectrum analyzer
  finds its held traces by the address of a spectrum that a new part may lie at;
  the network analyzer compares a signature of the path.
* **Partial failure.**  A replaced part detaches and reattaches its links one by
  one; a damaged record of a file is skipped while later records refer to it
  by position; a sweep that cannot be taken back leaves its values behind.
* **Cleanliness.**  The project reads as saved when two revision numbers agree;
  each of some thirty edits must advance it by itself.
* **Work over many frames.**  Flows, measurements and dialogs keep what they
  read of a project while the user replaces it.
* **Liveness.**  `stop()` and `runBridge` join threads that wait for each other.

## 2. The modules

| Module | Models | Mirrors |
| --- | --- | --- |
| `AgentServer` | the agent server | `agent_server.cpp`, whole |
| `McpBridge` | the threads and queues of the bridge process | `runBridge` and its helpers |
| `McpSession` | operators: one line of a client, the session after it | `mcp_session.cpp` |
| `AgentLink` | a call from the bridge to one of several simulators (uses `McpSession`) | `gui_link.cpp`, `agent_endpoint.cpp`, `agent_socket.cpp`, the greeting in `agent_server.cpp` |
| `CallService` | abstract: what bridge and simulators promise about a call | refined by `AgentLink` |
| `NodeGraph` | operators on one graph: links, acyclicity, probes, subcircuits | `node_graph_engine.cpp` |
| `Circuit` | operators on one circuit: components around a graph, links with policy, wiring, replacement | `circuit_runtime.cpp`, `rewire.cpp`, `editor_commands.cpp` |
| `ProjectFile` | what a file keeps of a circuit and what comes back of a damaged one | `project_serializer.cpp` |
| `CircuitEditor` | one action per command of the editor, on the three above | `editor_commands.cpp`, `app.cpp`, `graph_editor_actions.cpp` |
| `Engines` | operators: what each engine computes from its inputs, and when | the `update()` of thirteen engines, `component_engine_base.h`, `spectrum.h` |
| `SignalFlow` | frames: edits, the update in topological order, the analyzer's drawing | `circuit_runtime.cpp`, `rewire.cpp`, `spectrum_analyzer_engine.cpp`, `app.cpp` |
| `MeasurementChain` | operators: the path between two points, its clones | `measurement_chain_runner.cpp` |
| `Instruments` | network analyzer, receiver measurement and form, the agent's two tools (uses `MeasurementChain`) | `network_analyzer_engine.cpp`, `receiver_*.cpp`, `app.cpp` |
| `FlowRun` | operators: rows of a flow, checks, the boundary that restores | `flow_runner.cpp`, `flow_params.cpp`, `flow_boundary.cpp` |
| `AgentWork` | agent calls, checkpoints, flows of panel and agent among the user's edits (uses `FlowRun`) | `agent_api.cpp`, `tool_*.cpp`, `app_agent_host.cpp`, `app.cpp` |
| `FlowPanel` | the Test Flow panel: draft, form, files, result (uses `FlowRun`) | `test_flow_widget.cpp`, `flow_author.cpp` |
| `ProjectSave` | a save call by call, crash and restart, several simulators | `project_serializer.cpp` |
| `LibraryFiles` | the library's files: authoring with backup and rollback, creation by link, scan | `app.cpp`, `component_library.cpp`, `tool_library_create.cpp` |
| `Extensions` | operators: discovery, the trust file, a tool's outcome | `extension_*.cpp`, `external_tool_runner.cpp` |
| `Shell` | the application frame: menus, dialogs, project, trust, layouts, tutorial (uses `Extensions`) | `app.cpp` |
| `GitStatus` | overlapping queries, the last answer, the header's fit | `git_status.cpp` |
| `AgentServerProofs`, `AgentLinkProofs`, `McpBridgeProofs`, `CircuitEditorProofs`, `AgentWorkProofs`, `InstrumentsProofs`, `ProjectSaveProofs`, `ShellProofs` | theorems | |
| `MC...` | values of the constants for TLC | |

Several `MC` modules hold more than one instance of a module, or two modules
that share nothing.  A variable `part` says which is explored; it is chosen by
the initial state and never changes.  Such a module EXTENDS one of its parts and
names the others by `INSTANCE ... WITH`, with every bound a constant, and its
proofs EXTEND it: what they show of `MCSpec` is shown for every value of the
constants, of which the `.cfg` is one.  The assumptions of an instance are
stated by an `ASSUME` of the `MC` module (`PanelInstance`, `LibraryInstance`,
`GitInstance`, `LinkInstance`, `WiringInstance`).

### How the modules correspond to the code

**`AgentServer`.**  A step is one critical section of the server's mutex with
the local work next to it, so every interleaving that the locks allow is
explored.  Each thread has a program counter: `lpc` is the listener's turn
(accept, read, handle, newcomer, flush, check, exit), `ppc` the pump's
(`PumpBegin`, `PumpTakeActive`, `PumpLookInbox`, `PumpResume`, `PumpTakeNext`,
`PumpRun`, `PumpLeave`, `PumpNotify`), `spc` that of `start()` and `stop()`.
`held` is the local variable in which the pump carries a call outside both
queues.  `pump_mutex` is in the guards: a pump and the draining half of a stop
exclude each other.  A call is a value with a size; a result is its kind; a
connection is the peer it leads to.  `admitted`, `caller`, `answers`, `order`
and `dialogAge` are history and guard nothing but who may make a call.
The tools are outside: an advance of a task either finishes, defers or throws.
The surroundings are actions of their own: a dialog opens and closes
(`ToggleDialog`), the clock ticks (`Tick`), the listener fails (`ListenerFail`).

**`McpBridge`.**  One program counter and the hands (`frame`, `event`, `task`,
`done`) of each of the three threads of `runBridge`; the event queue with its
three counters, the call queue, the tokens (`tracked`, `cancelled`).  A line is
a call, a cancellation, another line that the session answers, or an oversized
one.  The simulator may answer a call with any size in `ResultBytes`.

**`McpSession`, `AgentLink`.**  A line is how far it is well formed, whether it
wants an answer, the era of the protocol and the name it introduces.  The
caller thread has a program counter over find, dial, greet (both directions),
send and wait; of a simulator the model keeps what the other end sees.  A
server instance is a simulator and the number of its start, which is also its
token: the code's tokens are random and fresh.  Each wait may time out at any
moment.  A port that was freed may be taken by another simulator or by another
program (`Foreign`), which answers noise or a token of its own.

**`NodeGraph`, `Circuit`, `ProjectFile`** are operators on records, because the
code they model is a library that runs to its end on one thread: what one
public function does to one object is one operator.  Loops over a vector are
folds in the order of the ids, which is the order of the vectors, since ids only
grow.  `CircuitEditor` is the state machine: one action per command, which
does everything the command does, its rewiring, its boundary pins, the views it
syncs, the revision it advances.  An engine is named by the epoch of the
circuit and its node (`<<epoch, node>>`), so that an engine of a project that is
gone differs from one with the same ids.  `who`, `meant` and `baseline` are
history.  Positions are members of a small set, relative to the canvas.

**`Engines`, `SignalFlow`.**  A spectrum is its grid, its tones and noise, its
sample rate and domain, and its generation.  A tone is the *path* it took: the
settings it went through, in order.  Since powers and phases are functions of
the paths, equal paths mean equal numbers, and a stale output shows as a path
through a setting, an engine or an input that is no longer there.  `Engines` has
one operator per engine; what most share (`Carried`) and where they differ (the
sample rate set before or after the return for a one-bin grid, own noise, what
is blocked) is stated once.  An engine is a record with its flag, what it saw
of each input (address and generation) and its outputs.

`SignalFlow` is a frame after the other.  `BeginUpdate`, `UpdateEngine` in any
order that `topologicalOrder` may give (its queue starts in the order of a hash
map), `EndUpdate`, which hands the probes to the analyzer; then the panels draw
and edit, in any order.  An address is a place and a port; a removed engine
frees its place and a new one may take it, which the allocator decides.
Every engine gets a new identity (`SpectrumIdentity`).  Edits mark
nothing but the engine whose setter ran; a link alone sets no flag.

**`MeasurementChain`, `Instruments`.**  A measured signal is the term that says
which component with which settings made it of which signals; what is read of it
at a frequency is a constant function (`Reading`), so a proof about the
instruments holds for any arithmetic.  A frame of `Instruments` is: update the
one engine, let the user edit, update the other, judge both.  A measurement
advances by at most `MaxRuns` runs per update, as the budget of the code does.

**`FlowRun`, `AgentWork`, `FlowPanel`.**  A circuit maps component ids to
settings.  A step of a flow is one row; the budget of a pump may end after any
row, and only there do the user's actions interleave.  `AgentWork` has one
action per call and per way in which the application replaces the project
under it.

**`ProjectSave`, `LibraryFiles`.**  One action per call of the operating system;
each may fail, and the program may end between any two.  A circuit is the RF
data it refers to; a copy's name is its contents, as the code names copies by a
hash.

**`Extensions`, `Shell`, `GitStatus`.**  A step of `Shell` is one frame in which
the user does one thing or none; a dialog takes the mouse from everything behind
it but not the keyboard.  A child process is one step.  `did` says what a frame
did, for the action properties.  In `GitStatus` texts are their lengths.

Decisions a reader should know of:

* A drag marks the project at the release of the mouse and if the node moved by
  more than a pixel; `DragNode` is that release.
* Two things that a file keeps change without marking the project, and
  `CleanMeansUnchanged` names both: a refused component consumes a component id,
  and a click on the channel grid of a PFB picks its active channel
  (`ClickChannel`).  The second contradicts `editor_commands.h:44`; the run
  `clean_click` shows it.  What else a component is set to (`SetParams`) marks it.
  Outside the property are the window flags, the names of subcircuits and the
  values that a flow of tests sets while it runs, which `AgentWork` has.
* `RevertCheckpoint` leaves the layout's undo in place, as the code does.  That
  it cannot be applied follows from the advancing revision; `UndoIsSafe` says so.
* The branch that reports a failed revert after the reset (`app.cpp:943`)
  cannot be reached with a snapshot that was captured by `toJson`: a
  snapshot restores without a refused section.  It is not an action.
* `RefuseSwap` contains the way back that the code calls unreachable
  (`Reattach`); `SwapsAttachEveryLink` shows that it is, for any circuit.
* `OutputsFollowInputs` leaves out what the code keeps on purpose: the grid of an
  output whose input has none, and the sample rate and domain of an output with a
  grid of one bin.
* Labels, part numbers and `renameGroup` are left out: they change texts that
  nothing here reads.  A component's parameters are one value, in `AgentWork`,
  `FlowRun` and `Instruments`; in `CircuitEditor` they are a setting and, of a
  PFB, the active channel.  A part that replaces another comes with any
  parameters, which stands for those of the library.
* The selection that the application hands to imnodes is at most one node
  (`SelectNode`), the one that the inspector shows and that can be replaced.
  Whether the window of a PFB's view is open is left out (`app.cpp:430-436`).
* `network_analyzer_sweep` names both points, which are outputs that are there,
  and moves them: `AgentSweep` does so between any two frames of a measurement.
* `load()` of the trust file empties the memory before it looks at the file
  (`Loads`): when the file is there and cannot be examined, opened or parsed,
  nothing is trusted.  A failed write is followed by such a reading, and the same
  fault may fail both.

## 3. The runs

Bounds cut the exploration and never a step: a bound is a conjunct of a guard
that stops ids, revisions, epochs, starts or calls from growing.

| Run | Asks | Bounds, and why they are enough |
| --- | --- | --- |
| `agent_server` | Does a reply reach another connection, is a call lost, doubled, or told Busy too early; do queue, order and status line hold? | *sessions*: two clients with one call each, two starts, a failing listener, a dialog query that throws.  Two clients suffice for every pair of "the session of the call" and "the session now"; a second start reuses the state a stop left.  *pump*: two local calls and a client's call of size 2, room for two calls and two bytes: both limits bite.  A timeout of one tick tells "just parked", "at the limit" and "past it" apart.  Interchangeable calls and clients come in one order. |
| `agent_live` | Does `stop()` return, is every call answered? | One client's call, one local call, dialogs, a failing listener, a restart. |
| `mcp_calls` | The bridge's accounting, answers, cancellations and end; does a call run once at most, on the simulator that was found? | *bridge*: three calls of two sizes (`Few`) and two other lines through a queue of four entries, three of which are reserved: every refusal and every wait occurs.  *tracking*: seven calls so small that only the entries count (`Many`), as many as may be tracked by the sum that the comment works out, 2 * 4 - 1.  *link*: two simulators of different releases, two calls, one task, a queue of one, two starts, two ports, one name: a port changes hands, an endpoint goes stale, a call times out and another follows. |
| `editor_circuit` | Is the circuit sound after any edits; does a clean project equal its file; does a damaged file give back the rest; does anything outlive the circuit it refers to; what goes over to a part's successor? | One editor under five sets of bounds, each an instance of `CircuitEditor` whose step is a step of the one that is extended.  *graph*: four nodes, three links, a group, four revisions, with an ADC and a PFB for the link policy.  *swap*: four nodes, two links, a probe, a group, two positions and a selection: a link on either side of the replaced part, and a position that is not where the next part would be put.  *files*: three nodes, a link, a group, two settings, three revisions, one replacement of the project, one damaged record.  *meter*: two nodes, a link, a probe, a group, a point and the power meter, a file and a checkpoint.  *layout*: two nodes at two positions, one of them a PFB with two channels, its view, a layout's undo, a point, a probe, a group and a checkpoint; one replacement, after which every id is handed out again. |
| `signal_frames` | Does an engine skip work that was due, is one frame enough, is a held or cached trace taken for another spectrum? | Six circuits that between them have every kind of engine in the middle of a chain, two edits each; a generator and an attenuator with three, as many as it takes to remove a part, make one at its place and link it.  Grids of three bins, two bandwidths, a holding mode and one that does not. |
| `instruments` | Do the clones measure the live circuit; are trace and verdict of now; does a measurement end? | *panels*: a generator and an amplifier, three projects, three edits, two runs per update: change, change back and change again.  *wiring*: every wiring of a splitter, two filters, a 2:1 switch and a generator, and every pair of points. |
| `flows` | Does a sweep leave anything behind, are rows of one sweep, can every edit call be reverted, does the panel show what it runs? | *work*: flows of panel and agent over two components, four edit calls, one kept checkpoint, two calls, one replacement: a call, a flow under way and a replacement between its rows.  *panel*: conditions with eleven tags at most, two at a time. |
| `files` | Is a project file whole and its data found; does the library keep its entries? | *project*: one simulator, two projects in one directory, two data contents.  *authoring*: one simulator (`Alone`), two parts, two backups.  *library*: two simulators, one backup (`OneBackup`). |
| `shell` | Is unsaved work asked about, do only trusted tools run, does the menu bar catch up? | *shell*: two directories, six extension folders that between them have every outcome of discovery, two layouts, two tutorial steps.  *git*: two directories, two queries, three changes, headers of every width up to 50. |
| `work_saves` | A *violation* run: "Saving them would persist that state, so the save is refused" | As `flows`. |
| `analyzer_reuses` | A *violation* run: "The engine reuses its last result" | As `instruments`. |
| `clean_click` | A *violation* run: edits that do not go through a command "call markModified()" | A PFB that is placed and saved, and a click on its grid. |

Deadlock is checked in every run but two.  In `mcp_calls` a bridge that is stuck
must show as `BridgeReturns` or `CallsAreServed` failing, not as a deadlock, and
the parts stop when their calls are used up; in `instruments` nothing is left to
do when the edits are used up and the panels are closed.

Seven more configurations, `MC...cfg` files that no run names, each check a single
property that the code does not have;
each quotes a sentence of the documentation and is listed in section 5.

### Fairness

* `AgentServer.Fairness`: the listener's loop is bounded by its read, accept and
  write timeouts, so it takes its next step; the frame loop pumps every frame
  while the application runs; a thread in `stop()` is a running thread.  Each is
  weak fairness.  `StopReturns` needs no more.
* `LiveSpec` of `AgentServer` adds that the clock advances (weak) and that a task
  that is advanced again and again comes to a result (strong fairness of the
  finishing step: a deferred task is disabled between pumps).  No other assumption
  gives an answer to a call behind a deferred one: the pump ends there.
* `McpBridge.Fairness`: three running threads, where a call of the simulator
  returns by its deadline.  No fairness is put on the input.
* `AgentLink`: weak fairness of `LinkStep`, the caller thread, whose every wait has
  a deadline.  None on the simulators: a call is answered even if they are dead.
* `Instruments.Fairness`: while a panel is open frames follow one another, not each
  of them has an edit, and an agent repeats its call while it is told
  `in_progress`.
* `GitStatus`: frames are drawn and time passes; each query's process ends or is
  killed at its limit.

## 4. The proofs

Each theorem holds for every value of the constants that satisfies the named
assumptions of the modules; TLC evaluates every assumption in a passing run.

**`McpBridgeProofs`** (any calls, any limits):

* `TypesKept`, `DoneEventsAlwaysFit`: the events that a thread is done always find
  room.  A line is posted only below `MaxItems - 3` entries and a result only
  below `MaxItems - 2`, and there is one done event per thread.
* `CancelledCallsStaySilent`: an action property, from the typing alone and the
  order of the checks in the session thread.
* `CallsAreAnsweredOnce`: the invariant is
  `Inv == TypeInv /\ HandsInv /\ PlacesInv /\ OpenInv`.  "At most one reply" is not
  inductive: one must know that a call that is still somewhere has no reply
  (`OpenInv`), that it is in one place only (`PlacesInv`: the reader's hands, an
  event, the call queue, the caller's hands), and what each thread's hands hold
  at each program counter (`HandsInv`).
* `TheQueuesAreSound`: all of `QueuesAreSound`.  `BridgeInv` adds to `Inv` and
  `RoomInv`
  - `CountInv`: the four counters are the sums over the two queues, within the
    limits that were checked when each entry came (a sum is a recursive function;
    that an entry at either end adds or takes its own size is proved by induction);
  - `FormInv`: only a line and a result carry a call, and the call of a result is
    pending;
  - `CallInv`: a call is tracked if and only if it is in a place, and one that was
    read and is in none was answered or cancelled.  Every step either lets none
    leave (`NoneLeaves`) or lets one leave with its token (`Leaves`);
  - `EndInv`: the event that a thread is done is the last of its thread's events,
    so that nothing is left in the queue when the session thread ends, and then
    `EveryCallAnswered` holds.
  `TrackingCovers` is counted on top of these: when a line would still be taken
  there are `MaxItems - 4` events, `MaxItems` queued calls and one call each in the
  hands of the session and the caller thread at most, and each tracked call is in
  one of these places.  So `2 * MaxItems - 1` tokens suffice, which is what
  `LimitsAssumption` asks for; the code has 128 for 64 entries.
* `CallsReachThem`: the run's `CallsReachTheirSimulator`.  The link of `MCMcpCalls`
  and the one `AgentLinkProofs` is instantiated with (`LP`) are the same
  definitions on the same constants and variables (`SameSimulator`,
  `SameBridge`), so its theorems hold of the run's.

The assumptions are `LimitsAssumption` and `SizesAssumption`: the queue has at
least its three reserved entries, the reservation in bytes fits the total and
the tokens suffice, as the constants in `mcp_bridge.cpp` do, and the bytes of a
call are naturals; and `LinkInstance` for the link.

**`AgentServerProofs`** (any calls, connections, limits,
starts and faults).  The invariant is built in layers, each inductive together
with those before it:

* `ServerInv`: the types and the bytes of the queue; the control, that is what the
  places of the pump and of `stop()` say of the shared state (`ControlInv`); the
  numbers of the sessions and their peers; the status line; who made each call;
  and the routes, that is whose reply each call on its way will become.
  `RepliesAlwaysReachTheirCaller` follows from the routes.
* `AgeInv`: a parked call is no older than the dialog, from which
  `BusyIsOnlyAfterTimeout`.
* `OrderInv`: each call on its way has a turn, and turns grow from the settled over
  the replied, the current and the queued to the one being read, for the local
  calls and those of a client each.  `ServerIsAlwaysSound` follows with the types,
  the account and the status.
* `PlacesInv` (with `ConnInv`, a connection is admitted once): in how many places a
  call is, by counting occurrences; what was lost with its client stays lost.
  `CallsAreNeverLost` follows.

`Keeping` and `SizeOf` are recursive functions over the length of a queue.  What
they compute is proved by induction over the naturals with a *set* of naturals
that holds 0 and is closed under successor, since theorems with an operator
parameter cannot be used.

**`AgentLinkProofs`** (any simulators, ports, starts, calls and names).  The
hypothesis is `Assumed`, that is `LinkAssumption` and `NamesAssumption`, which
`MCMcpCalls` has TLC evaluate for its instance: the ports are positive, a time-out
in place of a message is no message, and the names are told from their absence.
The number of the next start is one more than the largest so far; that a largest
one exists (`MaxIsIn`) follows from the well-foundedness of the naturals.
The invariant `LinkAndCalls` has three layers:

* `TypeInv`;
* `LinkInv`: while the bridge greets, the connection was dialed for the endpoint
  that was read, and an answer with a token is the peer's own; once it has
  greeted, the peer is the server that wrote that endpoint, of the same release,
  and knows the client; nothing is under way unless a call is waited for;
* `CallsInv`: the calls made are 1..n and are taken in that order under their
  maker's name; none makes two connections; a call is untouched until it is sent
  and then in one place; nothing final was said of a call that a simulator still
  holds; an entry of the present connection is the call that is waited for.

`CallsAlwaysReachTheirSimulator`, `ClientIsAlwaysTheCaller` and
`LastStartedIsAlwaysFound` are the three parts of the run's invariant
`CallsReachTheirSimulator`.  `CallsAreServedSafely` is the refinement
`Assumed /\ Spec => Service!Spec`: each step of `AgentLink` is a step of
`CallService` or a stutter.  Its fairness (every call is answered) is checked by
TLC, as part of `CallsAreServed`.

**`CircuitEditorProofs`** (any component types and ports, any positions and
instruments, any bounds).  The longest of the proofs, bottom up:

* *The graph.*  A link that `canAddLink` allows closes no cycle
  (`AddLinkKeepsAcyclic`) and gives no input a second link, and removing a link
  closes none.  The argument for the first: the nodes the walk visits from the new
  link's target are the least set closed under the links; a set of nodes that fed
  itself through the new link would, cut down to what is reachable, contain the
  source, which the check excludes.
* *The circuit* (`CircuitOK`): the graph is sound (ids below their counters, pins of
  one node, links from outputs to inputs, no cycle, single inputs), subcircuits
  have members and boundary pins of their own, probes are pins, engines belong to
  their nodes, and each input is wired to what it is linked to.  Each operator of
  `NodeGraph` and `Circuit` keeps it, with one lemma per operator.
* *The file*: what is captured of a sound circuit is a sound file, and what is
  restored of one, with any record damaged, is a sound circuit (`FileOK`).  The loops
  are folds over the sequence of the records; each is proved by induction over its
  length, with the position of a record as the only thing later ones know.
* *The editor* (`EditorInv`): `AroundOK` says of the circuit, positions, instruments
  and views that they are of one another; `CountersOK` that the clean revision and
  the undo's are not ahead of the present one; `UndoOK` and `FilesOK` what is
  remembered; and `CleanMeansUnchanged` itself.  Neither half is inductive alone: a
  project is clean because every command that changes it advances the revision,
  and the undo is safe because an advanced revision makes it stale.  `ParamsInv`
  types the parameters: every component has some, and so has every record of the
  file and of the checkpoint.  `Content` is what the revision answers for: all that
  a file keeps but for the counter of the ids and the picked channels.
  `CircuitIsAlwaysSound`, `UndoIsAlwaysSafe`, `PanelsAreAlwaysSound` and
  `CleanIsAlwaysUnchanged` follow.
* `SwapsKeepThePicture`, an action property, over parts, ids, positions, selection,
  links, probes, subcircuits and points: the links attached so far, with the old
  ones that are still to be attached, are at each step the picture of before under
  the map of the pins; no step refuses one, because it is allowed before the
  others as well.  The position is carried by `PlacedAsWas` and the selection by
  `SwapPart` itself, and the rest of the nodes keep theirs (`BesideBut`).  That components are told apart by `who` (`WhoOK`) is what makes
  "the same component" well defined.

The assumptions are `PortsAssumption`, `ProbesAssumption`, `NoIdAssumption`,
`InstrumentsAssumption`, `SeedAssumption` (the two types the tutorial starts with),
`PositionsAssumption`, `BoundsAssumption` and `ParamsAssumption`.  `OpeningRestoresTheRest` and
`RevertingRestoresAll` compare a file with what comes back of it up to a renaming
of the ids; they stay with TLC.

**`AgentWorkProofs`** (any components, flows, edit calls, bounds):

* `NextIsNext`: the step of the odometer.  Row numbers are the mixed-radix numbers of
  the values chosen, and the rows before the next row are those before this one,
  and this one.
* `WorkInvariant`: of a session under way, `RowsSoFar` says that its rows are those
  before its next one, in order, each once; `StillCurrent` that as long as the
  circuit is `Unchanged` for the runner, what it would put back is what was set last,
  but for what a click or a run that could not restore has left; and
  `SweptMeansLatched` that values left behind latch their runner.  `NoTrace` and
  `SoundRows` follow, and `EditsAreReverted` by what a call has done up to each of
  its operations.
* `ThePanelIsSound`: the tags of a draft and of a loaded flow are distinct and below
  the next tag (`FlowOK`), so the form's tag finds the condition it was opened on, at
  the index it remembers (`FormOK`), after any removal.

Assumptions: `WorkAssumption`, `SettingsAssumption`, `PanelInstance`.

**`InstrumentsProofs`** (any circuit, readings, sweeps, requirements,
projects and wirings):

* `TraceIsAlwaysOfTheCircuit`: the analyzer's result is that of the key it was
  cached under, and the stimulus is that of the sweep unless it is marked dirty
  (`TraceInv`).  Neither alone survives a step: the key is compared without looking
  at the stimulus.
* `VerdictIsAlwaysSound`: each value read of a measurement is the truth or missing,
  and a missing value neither passes nor fails; the form's fields are those of its
  snapshot until the user edits them (`VerdictInv`, `FormOk`, `ReadIsTrue`).
* `TheClonesAreTheCircuit`: the functions of `MeasurementChain` are recursive over
  the circuit, and each is followed by its own induction over `Nat`: what `Reached`
  collects is entered by an edge and not avoided (`ReachedIs`), the order is sorted
  and has every component between the points (`OrderIsSorted`, `OrderCovers`), and a
  chain that is found has edges that lead forward in it, so that it can be prepared
  (`ChainIs`, `ChainIsPrepared`). Then, by induction on the place i: from round i - 1
  of the live circuit on, the live component at place i gives what its clone gave
  (`ClonesFollow`, `ChainIsLive`); the edges that a round has not yet reached come
  later in the order. `WiringInv` only says that the wiring is typed: the property
  holds of every wiring and every pair of points.

Assumptions: `InstrumentsAssumption`, `WiringInstance`.

**`ProjectSaveProofs`** (any projects and data).  `SaveTypes` holds for any number of
simulators.  `SavedProjectsAreWhole`, `SavesKeepTheirPromises` and
`SavesAlwaysSound` hold under `OneSimulator`: with two the rename of one may install
what the other has not yet written (section 5), so the hypothesis cannot be
dropped.  The invariant follows the one save that may be under way: what it has
packaged is in `rf_data/`, what it made there nobody refers to yet, and from the
moment it opened the temporary file that file is its own and refers to the
circuit (`SaveInv`, `DataInv`, `CleanInv`).

`TheLibraryIsSound` holds for any number of simulators: the invariant `EntryInv` is
about the entry that is being authored, step by step: which of the two files
already has the new version, which backup holds the old one, and what the
definition on disk means meanwhile.  A first version of it was not inductive: of a
replaced entry one must also know that the data the form read is still that of
the file the definition names.  Assumption: `LibraryInstance`.

**`ShellProofs`** (any directories, extensions, layouts).  Every step is a frame that
leaves a typed project whose extensions are its own and that gave up unsaved work
only knowingly (`FrameStep`): one lemma per handler shows it, and `NothingIsLost`,
`ExtensionsFollowTheProject` follow.  The trust (`TrustInv`): what the
file says was granted and not taken back by a revocation that was written, and
while the program runs the memory is what the file says or empty;
`TrustAlwaysFailsClosed` and `OnlyTrustedToolsRun` follow.
`TheShellIsSound` adds the ids that installed extensions reserve and the git status:
an answer counts only for the generation of the directory it was asked about
(`GitInv`), where the queries that are kept are a recursive selection that is
followed by induction; and the header's fit is arithmetic over the widths.

### What the proofs changed in the models

* An operation of an edit call was a `CASE` whose arms overlapped: `AgentWork` left
  open which one applied.  The arms are now disjoint, in the order of the code.
* `Manifests`, `LibraryAssumption`, `PanelAssumption` and `LimitsAssumption` say what
  the runs had by luck of their constants: that a manifest that cannot be read has
  no id, that values are told from their absence, that a written flow has tags
  below the first new one, that tokens suffice.
* `QueuesAreAccounted` is stated with one sum (`Total`) instead of folds over filters.

### Only model-checked

* `OpeningRestoresTheRest`, `RevertingRestoresAll`: action properties about a whole
  file and the circuit that is restored of it, up to a renaming of its ids.  What is
  proved is that the circuit is sound and, for a revert, that it is typed.
* `FramesAreCurrent`, `AnalyzerIsCurrent`: the engines of `Engines` compute one
  another's inputs along the circuit, with a case for every kind of engine and
  what it keeps of the frame before.
* All liveness (`StopReturns`, `CallsAreAnswered`, `BridgeReturns`, the answers in
  `CallsAreServed`, `SweepsEnd`, `StatusCatchesUp`): the prover has no `ENABLED`.

## 5. Findings

Shown by a run of `PROJECT.json`:

* **`clean_click`.**  `editor_commands.h:44` says "Edits that do not go through a
  command here — widget parameter edits, node moves, instrument state — call
  markModified()."  A click on a cell of the PFB's channel grid calls
  `setActiveChannel()` (`pfb_channelizer_widget.cpp:209`), which is written to the
  file (`pfb_channelizer_engine.cpp:359`), and nothing marks the project: it is
  closed or replaced without a question, and the pick is lost.

* **`work_saves`.**  `agent/api/src/tool_project.cpp:84` says "A failed test-flow
  restore can leave swept values in the circuit. Saving them would persist that
  state, so the save is refused until the user reloads the project."  The save is
  refused on the latch of the agent's own runs only.  A failed restore of the
  panel's run (`test_flow_widget.cpp:207`) latches the panel and does not mark the
  project, so `project_save` writes the swept values.
* **`analyzer_reuses`.**  `openwiki/domains/measurement-chains.md:72` says "The engine
  reuses its last result while the path signature and sweep settings are
  unchanged."  `rebuildStimulus()` fills the result with NaN when the sweep was
  marked as changed (`network_analyzer_engine.cpp:97`).  When it is changed and set
  back before the next update, `computeMeasurement()` finds the key it has cached
  and returns: the panel shows "no data" until something changes.

Shown by a further configuration, each a violation:

* **`MCCircuitEditorRejected.cfg`** (`MCCircuitEditor`, `RejectedChangesNothing`).
  `editor_commands.h:39` says "A rejected command changes nothing, including the
  revision".  A component that is created and then refused for its parameters is
  removed through `removeNodeAt`, which rebuilds the boundary pins of all groups
  (`node_graph_engine.cpp:88`), expanded ones included, whose pins
  `setGroupCollapsed` had cleared.  It also consumes ids.
* **`MCSignalFlowHolds.cfg`** (`MCSignalFlow`, `HoldsAreOnTheirGrid`).
  `CHANGELOG.md:54` says "Each visible trace holds its own power per bin on its own
  grid".  A hold starts over when the identity or the number of bins differs
  (`spectrum_analyzer_engine.cpp:278`, `:608`).  Another active channel of a PFB has
  as many bins at other frequencies: the maxima of the old channel are drawn over
  the new one.
* **`MCSignalFlowRatio.cfg`** (`MCSignalFlow`, `SnrIsOfTheInput`).
  `openwiki/domains/rf-components.md:195` says that the PFB's ratio compares the
  strongest tone with the noise of "the current input noise grid".  The outputs are
  cleared when the input becomes unusable; the channels the ratio is computed from
  are not (`pfb_channelizer_engine.cpp:138`).
* **`MCShellClose.cfg`** (`MCShell`, `CloseAsksFirst`).  `CHANGELOG.md:623` says
  "Unsaved-changes dialog with Save/Discard/Cancel on close or new/open".  The main
  loop ends when the window is closed (`core/src/core.cpp:87`), and nothing asks.
* **`MCMcpCallsBusy.cfg`** (`MCMcpCalls`, `BusyIsTold`).
  `openwiki/operations/agent-connection.md:113` says that an agent is told `BUSY` with
  "another agent is connected".  The bridge reports every refusal of the greeting
  but another version as a simulator that is not reachable
  (`agent/mcp/src/gui_link.cpp:131`).
* **`MCShellTrust.cfg`** (`MCShell`, `MemoryDescribesTheFile`).
  `extension_trust_store.cpp:139` says, where a failed write is followed by a reading,
  "Memory must describe the file".  When the reading fails as well, memory is empty
  and the file keeps its approvals.  It fails closed (`TrustFailsClosed`): nothing
  is trusted that was not granted.  But the next grant writes the memory and so
  removes the other approvals, and after a revocation that could not be written the
  approval is back at the next start; the user was told that the revocation failed.
* **`MCFilesRace.cfg`** (`MCFiles`, `ProjectsAreWhole` with two simulators).
  `project_serializer.cpp:1078` says that the temporary file is created exclusively
  and renamed over the target only after it is complete.  A second simulator takes
  the temporary file of a save under way for a stale one, removes it and makes its
  own (`:1090`), which the first one's rename then installs half written.

Noticed while modelling, beside the properties: Save As into another directory adopts the path
without a rescan of the extensions (`app.cpp:869`), the exception that
`ToolsAreOfTheProject` names; `receiver_measure` calls for different points, made
in turn, restart each other's measurement.

## 6. What is not modelled, and what could follow

Arithmetic of the engines, drawing, wording, formats and parsing of values are
left out for good: they are data.  So are Touchstone tables, the catalogue of the
agent's tools and vendored code.  Partly modelled, with what is missing under
`components` in `PROJECT.json`: labels and hidden traces of the analyzer, window
flags in the project file, the validation of library definitions, the contents of
layouts and of the session state.

Theorems that could follow, most important first:

1. `SignalFlow`: `FramesAreCurrent`, along the topological order of one update, from
   one lemma per engine that says when its outputs may be kept.
2. `CircuitEditor`: `OpeningRestoresTheRest`, from the lemmas on the restoring loops,
   with the map from records to nodes as a refinement of ids.
