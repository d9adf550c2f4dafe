----------------------------- MODULE AgentWork -----------------------------
(***************************************************************************)
(* What an agent's calls do to the project while the user works on it:     *)
(* the calls of agent/api (agent_api.cpp, tool_test_flow.cpp,              *)
(* tool_circuit_edit.cpp, tool_project.cpp), the checkpoints and the       *)
(* activity calls of app/src/app_agent_host.cpp, the Test Flow panel's run   *)
(* (app/src/test_flow_widget.cpp), and the ways app/src/app.cpp replaces   *)
(* the project under them.                                                 *)
(*                                                                         *)
(* All of it runs on the frame loop's thread.  A call runs when the server *)
(* pumps, one at a time; every call but a test flow is over within one     *)
(* pump, a test flow gives the frame back between rows, and there the user *)
(* edits, saves, opens another project.  A step of a flow is one row: the  *)
(* budget of a pump may end after any row, and nothing else runs between   *)
(* the rows of one pump.                                                   *)
(***************************************************************************)
EXTENDS FlowRun

CONSTANTS
  Flows,       \* the flows a panel or an agent may run
  EditCalls,   \* the lists of operations of the circuit_edit calls
  Channelizers, \* the components with a grid to click in
  MaxKept,     \* how many checkpoints are kept
  MaxRows,     \* kMaxRows
  NoCall, NoFile,
  \* bounds of the exploration
  MaxEpoch, MaxRevision, MaxCalls

EditOp == [op : {"set", "remove", "tear", "wire", "refuse", "throw"},
           comp : Components, value : Settings]

ASSUME WorkAssumption ==
  /\ Flows \subseteq FlowSpec /\ EditCalls \subseteq Seq(EditOp)
  /\ MaxKept \in Nat \ {0}
  /\ MaxEpoch \in Nat /\ MaxRevision \in Nat

VARIABLES
  circuit, epoch, revision, clean,
  call,          \* the agent's call that is not over, always a test flow
  agentLatch, panelLatch,
  checkpoints, nextId,
  file,          \* the project's file
  calls,         \* how many calls there were (a bound)
  \* history: what the user and the agent set last; the components a failed
  \* restore left as a row had set them, by whose run; those set by a click while a
  \* flow was running; the run in slices that
  \* was completed by this step
  meant, left, clicked, answer
vars == <<circuit, epoch, revision, clean, call, agentLatch, panelLatch, checkpoints, nextId,
          file, calls, meant, left, clicked, answer>>
history == <<meant, left, clicked>>

Dirty == revision # clean
Engines == {<<epoch, c>> : c \in DOMAIN circuit}
Circuits == UNION {[S -> Settings] : S \in SUBSET Components}
Seed == [c \in Components |-> 0]
Runners == {"agent", "panel"}
Idle == call = NoCall

Init ==
  /\ circuit = Seed /\ meant = Seed
  /\ epoch = 0 /\ revision = 0 /\ clean = 0
  /\ call = NoCall /\ agentLatch = FALSE /\ panelLatch = FALSE
  /\ checkpoints = <<>> /\ nextId = 1
  /\ file = NoFile
  /\ calls = 0
  /\ left = [r \in Runners |-> {}] /\ clicked = {}
  /\ answer = NoCall

-----------------------------------------------------------------------------
(* The circuit, as the other parts change it *)

MarkModified == revision < MaxRevision /\ revision' = revision + 1 /\ UNCHANGED clean
MarkClean == clean' = revision /\ UNCHANGED revision

\* A component that is set, or gone, is no longer what a run left.
Settle(cs) ==
  /\ left' = [r \in Runners |-> left[r] \ cs]
  /\ clicked' = clicked \ cs

\* A parameter edited in the Inspector
SetParameter(c, v) ==
  /\ circuit' = [circuit EXCEPT ![c] = v]
  /\ meant' = [meant EXCEPT ![c] = v]
  /\ Settle({c})
  /\ MarkModified
  /\ UNCHANGED <<epoch, call, agentLatch, panelLatch, checkpoints, nextId, file, calls>>

\* A cell clicked in the channelizer's grid sets the active channel, which is a
\* parameter, and tells nobody.
ClickCell(c, v) ==
  /\ circuit' = [circuit EXCEPT ![c] = v]
  /\ meant' = [meant EXCEPT ![c] = v]
  /\ left' = [r \in Runners |-> left[r] \ {c}]
  /\ clicked' = IF Idle THEN clicked \ {c} ELSE clicked \cup {c}
  /\ UNCHANGED <<epoch, revision, clean, call, agentLatch, panelLatch, checkpoints, nextId,
                 file, calls>>

Without(f, c) == [d \in DOMAIN f \ {c} |-> f[d]]

RemoveComponent(c) ==
  /\ circuit' = Without(circuit, c)
  /\ meant' = Without(meant, c)
  /\ Settle({c})
  /\ MarkModified
  /\ UNCHANGED <<epoch, call, agentLatch, panelLatch, checkpoints, nextId, file, calls>>

-----------------------------------------------------------------------------
(* The project replaced: other engines, and nothing left of what was known *)

ReplaceCircuit(new) ==
  /\ epoch < MaxEpoch
  /\ epoch' = epoch + 1
  /\ circuit' = new /\ meant' = new
  /\ Settle(Components)
  /\ UNCHANGED <<call>>

\* resetAfterCircuitReload and noteProjectReplaced
ClearLatches == agentLatch' = FALSE /\ panelLatch' = FALSE

\* newProject; startTutorial, which goes on to create the first components
StartOver(new) ==
  /\ ReplaceCircuit(new)
  /\ MarkClean
  /\ ClearLatches
  /\ checkpoints' = <<>>
  /\ UNCHANGED <<nextId, file, calls>>

\* loadProject: of a project, or of a file that fails after the circuit was reset
\* (one that fails before changes nothing)
OpenFile ==
  /\ file # NoFile
  /\ ReplaceCircuit(file)
  /\ MarkClean
  /\ ClearLatches
  /\ checkpoints' = <<>>
  /\ UNCHANGED <<nextId, file>>
OpenBrokenFile ==
  /\ ReplaceCircuit(<<>>)
  /\ MarkModified
  /\ ClearLatches
  /\ checkpoints' = <<>>
  /\ UNCHANGED <<nextId, file>>

SaveProject ==
  /\ file' = circuit
  /\ MarkClean

\* removeCheckpointsFrom and revertAgentCheckpoint
CheckpointsBefore(id) ==
  LET kept == CHOOSE k \in 0..Len(checkpoints) :
                /\ k > 0 => checkpoints[k].id < id
                /\ \A i \in (k + 1)..Len(checkpoints) : checkpoints[i].id >= id
  IN  SubSeq(checkpoints, 1, kept)
RevertCheckpoint(cp) ==
  /\ ReplaceCircuit(cp.circuit)
  /\ MarkModified
  /\ ClearLatches
  /\ checkpoints' = CheckpointsBefore(cp.id)
  /\ UNCHANGED <<nextId, file, calls>>

-----------------------------------------------------------------------------
(* circuit_edit: operations one by one, up to the first that fails *)

Begun(c) == [circuit |-> c, meant |-> meant, changed |-> 0, outcome |-> "done"]

\* remove
Removal(r, o) ==
  [r EXCEPT !.circuit = Without(@, o.comp), !.meant = Without(@, o.comp), !.changed = @ + 1]
\* set_params: a value that is there already is no change.
ParameterWrite(r, o) ==
  [r EXCEPT !.circuit[o.comp] = o.value, !.meant[o.comp] = o.value,
            !.changed = IF r.circuit[o.comp] = o.value THEN @ ELSE @ + 1]
\* A write that failed and could not be rolled back: RESTORE_FAILED
TornWrite(r, o) ==
  [r EXCEPT !.circuit[o.comp] = o.value, !.meant[o.comp] = o.value, !.outcome = "torn"]
\* move, connect, disconnect, probe_add, probe_remove
Wire(r, o) == [r EXCEPT !.changed = @ + 1]

\* One operation.  "refuse" stands for every operation that is turned down and
\* leaves things as they were, "throw" for an exception that is no argument error.
Operation(r, o) ==
  CASE r.outcome # "done" -> r
    [] r.outcome = "done" /\ o.op = "throw" -> [r EXCEPT !.outcome = "thrown"]
    [] r.outcome = "done" /\ o.op # "throw"
       /\ (o.op = "refuse" \/ o.comp \notin DOMAIN r.circuit) ->
         [r EXCEPT !.outcome = "refused"]
    [] OTHER -> CASE o.op = "remove" -> Removal(r, o)
                  [] o.op = "set" -> ParameterWrite(r, o)
                  [] o.op = "tear" -> TornWrite(r, o)
                  [] o.op = "wire" -> Wire(r, o)

Operated(ops) ==
  LET after[i \in 0..Len(ops)] ==
        IF i = 0 THEN Begun(circuit) ELSE Operation(after[i - 1], ops[i])
  IN  after[Len(ops)]
OpsTouch(ops) == {ops[i].comp : i \in DOMAIN ops}

\* Mutant: only what was applied counts
KeepsAppliedOnly(r) == r.changed > 0
\* finish(), and the guard that closes the checkpoint when something else throws
KeepsCheckpoint(r) == r.changed > 0 \/ r.outcome \in {"torn", "thrown"}

\* commitCheckpoint, which keeps the newest
Newest(s) == IF Len(s) > MaxKept THEN Tail(s) ELSE s
CommitCheckpoint(snapshot) ==
  /\ checkpoints' = Newest(Append(checkpoints,
                                  [id |-> nextId, circuit |-> snapshot]))
  /\ nextId' = nextId + 1

CallMade == calls < MaxCalls /\ calls' = calls + 1

\* A call refused before it does anything: a stale epoch, a latch, bad arguments
RefuseCall ==
  /\ Idle
  /\ CallMade
  /\ UNCHANGED <<circuit, epoch, revision, clean, call, agentLatch, panelLatch, checkpoints,
                 nextId, file, history>>

EditCircuit(ops) ==
  /\ Idle
  /\ CallMade
  /\ LET r == Operated(ops)
         bumps == r.changed + (IF r.outcome = "torn" THEN 1 ELSE 0)
     IN  /\ revision + bumps <= MaxRevision
         /\ circuit' = r.circuit /\ meant' = r.meant
         /\ revision' = revision + bumps
         /\ IF KeepsCheckpoint(r) THEN CommitCheckpoint(circuit)
                                  ELSE UNCHANGED <<checkpoints, nextId>>
  /\ Settle({c \in OpsTouch(ops) : c \notin DOMAIN circuit' \/ circuit'[c] # circuit[c]})
  /\ UNCHANGED <<epoch, clean, call, agentLatch, panelLatch, file>>

-----------------------------------------------------------------------------
(* project_save and project_load *)

SaveByAgent ==
  /\ Idle
  /\ ~agentLatch
  /\ CallMade
  /\ SaveProject
  /\ UNCHANGED <<circuit, epoch, call, agentLatch, panelLatch, checkpoints, nextId, history>>

LoadByAgent ==
  /\ Idle /\ ~Dirty
  /\ CallMade
  /\ OpenFile \/ OpenBrokenFile

SaveByUser ==
  /\ SaveProject
  /\ UNCHANGED <<circuit, epoch, call, agentLatch, panelLatch, checkpoints, nextId, calls,
                 history>>

LoadByUser == (OpenFile \/ OpenBrokenFile) /\ UNCHANGED calls

-----------------------------------------------------------------------------
(* The panel's run, all of it in one step *)

\* What is refused before the circuit is touched: by the loader of the panel's
\* flows and its row limit, by parseTestFlowRequest for an agent's
Admissible(flow) == NoDuplicates(flow.conds) /\ RowCount(flow.conds) <= MaxRows

\* It ends with row n; `stuck' are the components that could not be put back.
RunPanel(flow, n, stuck) ==
  /\ ~panelLatch
  /\ Admissible(flow)
  /\ Applies(flow, circuit)
  /\ n \in Rows(flow.conds)
  /\ circuit' = BoundaryLeaves(circuit, flow.conds, n, stuck)
  /\ panelLatch' = (stuck # {})
  /\ left' = [left EXCEPT !["panel"] = @ \cup {c \in stuck : circuit'[c] # circuit[c]}]
  /\ UNCHANGED <<epoch, revision, clean, call, agentLatch, checkpoints, nextId, file, calls,
                 meant, clicked>>

-----------------------------------------------------------------------------
(* test_flow_run *)

\* Mutant: the revision alone tells
OnlyTheRevision(s) == s.revision = revision
Unchanged(s) == s.epoch = epoch /\ s.revision = revision

\* resultFor, when the circuit could not be put back
Latch(failed) ==
  /\ agentLatch' = (agentLatch \/ failed)
  /\ IF failed THEN MarkModified ELSE UNCHANGED <<revision, clean>>

\* The session puts the circuit back, from what row n left of it.
PutBack(s, n, stuck) ==
  /\ circuit' = Restored(Swept(circuit, s.flow.conds, n), s.snaps, stuck)
  /\ left' = [left EXCEPT !["agent"] = @ \cup {c \in stuck : circuit'[c] # circuit[c]}]

\* A pump runs one row more: "row" it ran, "fails" RunFlow returned an error,
\* "throws" it threw.  The circuit is put back whatever became of the row, and a
\* session that is complete is answered at once.
Advance(s, outcome, stuck) ==
  /\ PutBack(s, s.next, stuck)
  /\ LET next == WithRow(s, circuit)
         completed == stuck = {} /\ outcome = "row" /\ next.status = "Completed"
         ended == stuck # {} \/ outcome # "row" \/ completed
     IN  /\ call' = IF ended THEN NoCall ELSE next
         /\ answer' = IF completed
                      THEN [flow |-> s.flow, snaps |-> s.snaps, rows |-> next.rows,
                            disturbed |-> clicked \cup left["panel"] # {}]
                      ELSE NoCall
  /\ Latch(stuck # {})
  /\ UNCHANGED <<epoch, panelLatch, checkpoints, nextId, file, meant, clicked>>

\* The server takes the call: a session is made, takes its snapshots, and runs its
\* first row in the same pump.
StartFlow(flow, outcome, stuck) ==
  /\ Idle
  /\ CallMade
  /\ ~agentLatch
  /\ Admissible(flow)
  /\ Applies(flow, circuit)
  /\ Advance(Session(flow, circuit, epoch, revision), outcome, stuck)

\* The session is complete when it is made: the flow does not apply, and what was
\* not touched is put back all the same, or a snapshot failed.
StartFlowInVain(flow, stuck) ==
  /\ Idle
  /\ CallMade
  /\ ~agentLatch
  /\ Admissible(flow)
  /\ Applies(flow, circuit) => stuck = {}
  /\ Latch(stuck # {})
  /\ UNCHANGED <<circuit, epoch, call, panelLatch, checkpoints, nextId, file, history>>

AdvanceFlow(outcome, stuck) ==
  /\ call # NoCall
  /\ Unchanged(call)
  /\ Advance(call, outcome, stuck)
  /\ UNCHANGED calls

\* A pump finds the circuit changed: the session lets go of what it points to, and
\* StaleEpoch or Busy is the answer.
AbandonFlow ==
  /\ call # NoCall
  /\ ~Unchanged(call)
  /\ call' = NoCall
  /\ UNCHANGED <<circuit, epoch, revision, clean, agentLatch, panelLatch, checkpoints, nextId,
                 file, calls, history>>

\* The client has gone, or the server stops: cancel().
CancelFlow(stuck) ==
  /\ call # NoCall
  /\ call' = NoCall
  /\ IF Unchanged(call)
     THEN /\ circuit' = Restored(circuit, call.snaps, stuck)
                  /\ Latch(stuck # {})
     ELSE UNCHANGED <<circuit, revision, clean, agentLatch>>
  /\ UNCHANGED <<epoch, panelLatch, checkpoints, nextId, file, calls, meant, left, clicked>>

-----------------------------------------------------------------------------

\* Everything but a row of an agent's flow
Work ==
  \/ \E c \in DOMAIN circuit :
       \/ \E v \in Settings : SetParameter(c, v)
       \/ \E v \in Settings : c \in Channelizers /\ ClickCell(c, v)
       \/ RemoveComponent(c)
  \/ StartOver(<<>>)
  \/ StartOver(Seed)
  \/ SaveByUser
  \/ LoadByUser
  \/ \E i \in DOMAIN checkpoints : RevertCheckpoint(checkpoints[i])
  \/ \E flow \in Flows, stuck \in SUBSET DOMAIN circuit :
       \E n \in Rows(flow.conds) : RunPanel(flow, n, stuck)
  \/ RefuseCall
  \/ \E ops \in EditCalls : EditCircuit(ops)
  \/ SaveByAgent
  \/ LoadByAgent
  \/ \E flow \in Flows, stuck \in SUBSET DOMAIN circuit : StartFlowInVain(flow, stuck)
  \/ AbandonFlow
  \/ \E stuck \in SUBSET DOMAIN circuit : CancelFlow(stuck)

Next ==
  \/ Work /\ answer' = NoCall
  \/ \E outcome \in {"row", "fails", "throws"}, stuck \in SUBSET DOMAIN circuit :
       \/ \E flow \in Flows : StartFlow(flow, outcome, stuck)
       \/ AdvanceFlow(outcome, stuck)
Spec == Init /\ [][Next]_vars

-----------------------------------------------------------------------------
(* Properties *)

Checkpoint == [id : Nat, circuit : Circuits]
TypeOK ==
  /\ circuit \in Circuits /\ meant \in Circuits
  /\ DOMAIN meant = DOMAIN circuit
  /\ epoch \in 0..MaxEpoch /\ revision \in 0..MaxRevision /\ clean \in 0..MaxRevision
  /\ agentLatch \in BOOLEAN /\ panelLatch \in BOOLEAN
  /\ checkpoints \in Seq(Checkpoint) /\ Len(checkpoints) <= MaxKept
  /\ left \in [Runners -> SUBSET Components] /\ clicked \subseteq Components
  /\ call # NoCall => call.epoch <= epoch /\ call.snaps \in Circuits

\* Whatever flows were run, cut short, or thrown out of, and whatever was edited
\* between their rows, a component holds what the user or the agent set last,
\* unless a run reported that it could not put that component back, or it was set
\* behind the back of a run.
SweepLeavesNoTrace ==
  \A c \in DOMAIN circuit :
    circuit[c] # meant[c] => c \in left["agent"] \cup left["panel"] \cup clicked

\* As long as a component holds what a failed restore left in it, the one who ran
\* that flow is latched: no way of replacing the project clears the latch and keeps
\* the component, and nothing but a replacement clears it.
SweptMeansLatched ==
  /\ left["agent"] # {} => agentLatch
  /\ left["panel"] # {} => panelLatch

\* A session that outlived an edit or the project never touches an engine that is
\* gone.
RunsTouchLiveEngines == call # NoCall /\ Unchanged(call) => call.engines = Engines

\* A flow run in slices answers with the rows of one run: all of them, the last
\* condition fastest, each measured on the circuit the run began with.
RowsInOrder(a) == \A i, j \in DOMAIN a.rows : i < j => Before(a.rows[i].n, a.rows[j].n)
RowsAreTheSweep ==
  answer # NoCall =>
    /\ {answer.rows[i].n : i \in DOMAIN answer.rows} = Rows(answer.flow.conds)
    /\ RowsInOrder(answer)
    /\ ~answer.disturbed =>
         \A i \in DOMAIN answer.rows :
           answer.rows[i].row = RowOf(answer.snaps, answer.flow.conds, answer.rows[i].n)

\* An edit call that changed anything, all of it, a part of it, or by a write that
\* failed half-way, leaves a checkpoint of the circuit it found.
EditsCanBeReverted ==
  [][calls' # calls /\ epoch' = epoch /\ agentLatch' = agentLatch
     /\ <<circuit, revision>>' # <<circuit, revision>> =>
       checkpoints' # <<>> /\ checkpoints'[Len(checkpoints')].circuit = circuit]_vars

\* What project_save writes is never a setting that a flow left behind.
AgentSavesNoSweptValues ==
  [][calls' # calls /\ file' # file => \A r \in Runners : left[r] = {}]_vars

\* A sweep's answer has the rows of one run, no run that outlived an edit touches an
\* engine that is gone, and values that a failed restore left behind latch their runner.
RowsAreSound == TypeOK /\ SweptMeansLatched /\ RowsAreTheSweep /\ RunsTouchLiveEngines
=============================================================================
