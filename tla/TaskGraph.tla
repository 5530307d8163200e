------------------------------ MODULE TaskGraph ------------------------------
(***************************************************************************)
(* The graph and team tools (agent-runtime/src/graph.ts, team.ts): a DAG   *)
(* of sub-tasks, run wave by wave, each wave in batches of maxConcurrency  *)
(* child agents.  A graph node has a child of its own; the tasks of a team *)
(* share one child agent for each role, which refuses a prompt while it    *)
(* processes another one.                                                  *)
(*                                                                         *)
(* A plan is [deps, owner]: the dependencies each node lists and the agent *)
(* it runs on.  The order in which the ready nodes of a wave are batched   *)
(* is the order of the model's list, and free here.  What a child answers  *)
(* is abstracted to how it ended: "stop", "cut" (it ran out of rounds, was *)
(* aborted or doubted), or an error it threw.                              *)
(***************************************************************************)
EXTENDS Integers, Sequences, FiniteSets, Functions

CONSTANTS
  TaskPlans,        \* the plans the model may declare
  MaxConcurrency    \* graphDefaults.maxConcurrency

ASSUME TaskGraphAssumption == MaxConcurrency \in Nat \ {0}

VARIABLES
  plan, continueOnError,   \* what the tool was called with
  graphAborted,            \* signal.aborted
  graphPc,                 \* "new", "running", "returned" or "threw"
  graphPending,            \* pending
  graphReady,              \* the ready nodes of this wave not yet dispatched
  graphBatch,              \* Promise.allSettled: how far each node of the batch is
  graphResults,            \* the ids in results
  graphErrors,             \* the ids in errors
  graphSkipped,            \* the ids in skipped
  graphReason              \* GraphExecutionResult.reason

graphInput == <<plan, continueOnError>>
graphOutcomes == <<graphResults, graphErrors, graphSkipped>>
graphVars == <<graphInput, graphAborted, graphPc, graphPending, graphReady, graphBatch,
               graphOutcomes, graphReason>>

TaskNodes == DOMAIN plan.deps
Deps(n) == Range(plan.deps[n])

\* The tasks of a team run on the agents of its roles.
IsTeam == plan.owner # [n \in TaskNodes |-> n]

NoBatch == <<>>

GraphInit ==
  /\ plan \in TaskPlans
  /\ continueOnError \in BOOLEAN
  /\ graphAborted \in BOOLEAN
  /\ graphPc = "new"
  /\ graphPending = TaskNodes
  /\ graphReady = {}
  /\ graphBatch = NoBatch
  /\ graphResults = {} /\ graphErrors = {} /\ graphSkipped = {}
  /\ graphReason = "none"

-----------------------------------------------------------------------------
\* validateTeamPlan and topologicalSort refuse a dependency that does not exist
\* and a cycle; Kahn's in-degrees count a dependency that is listed twice twice
\* and decrement it once, so the node never comes up and counts as a cycle.
Sortable ==
  /\ \A n \in TaskNodes : Deps(n) \subseteq TaskNodes
  /\ \A n \in TaskNodes : IsInjective(plan.deps[n])
  /\ ~ \E cycle \in SUBSET TaskNodes \ {{}} : \A n \in cycle : Deps(n) \cap cycle # {}

\* One pass over the pending nodes, in topological order: a node all of whose
\* dependencies are resolved is skipped if one of them failed or was skipped ...
Doomed(pending, results, failed) ==
  CHOOSE doomed \in SUBSET pending :
    doomed = {n \in pending : /\ Deps(n) \subseteq results \cup failed \cup doomed
                              /\ Deps(n) \cap (failed \cup doomed) # {}}

\* ... and is ready otherwise.
ReadyNodes(pending, results, failed) == {n \in pending : Deps(n) \subseteq results}

\* Promise.allSettled over the next maxConcurrency ready nodes.
Dispatch(ready) ==
  \E batch \in SUBSET ready :
    /\ Cardinality(batch) =
         IF Cardinality(ready) < MaxConcurrency THEN Cardinality(ready) ELSE MaxConcurrency
    /\ graphBatch' = [n \in batch |-> "starting"]
    /\ graphReady' = ready \ batch

\* Mutant: only an error keeps a graph from being complete.
CompleteWithoutErrors == graphErrors = {}

\* GraphExecutionResult.completed
Completed == graphErrors = {} /\ graphReason # "aborted" /\ graphSkipped = {}

\* runTaskGraph returns.  The nodes that are still pending are skipped; those of
\* a wave that was cut short are not pending any more.
ReturnResult(errors, pending, skipped) ==
  /\ graphPc' = "returned"
  /\ graphSkipped' = skipped \cup pending
  /\ graphReason' = IF graphAborted THEN "aborted"
                    ELSE IF errors # {} THEN "node_failed" ELSE "all_succeeded"
  /\ graphBatch' = NoBatch
  /\ graphPending' = pending
  /\ UNCHANGED graphReady

\* The next wave, or the end of the loop.
NextWave(results, errors) ==
  LET failed == errors \cup graphSkipped
      doomed == Doomed(graphPending, results, failed)
      ready == ReadyNodes(graphPending \ doomed, results, failed \cup doomed)
      rest == graphPending \ (doomed \cup ready)
  IN  IF ready = {} THEN ReturnResult(errors, rest, graphSkipped \cup doomed)
      ELSE /\ Dispatch(ready)
           /\ graphPending' = rest
           /\ graphSkipped' = graphSkipped \cup doomed
           /\ UNCHANGED <<graphPc, graphReason>>

\* What follows a batch without an await: the rest of the wave, the next wave or
\* the end.
GoOn(results, errors) ==
  IF graphAborted \/ (errors # {} /\ ~continueOnError)
  THEN ReturnResult(errors, graphPending, graphSkipped)
  ELSE IF graphReady # {}
  THEN Dispatch(graphReady) /\ UNCHANGED <<graphPc, graphPending, graphSkipped, graphReason>>
  ELSE NextWave(results, errors)

\* The plan is refused.  The role agents of a team are made before its first
\* task, and one that cannot be made fails the whole tool.
GraphThrow ==
  /\ graphPc = "new"
  /\ Sortable => IsTeam
  /\ graphPc' = "threw"
  /\ UNCHANGED <<graphInput, graphAborted, graphPending, graphReady, graphBatch,
                 graphOutcomes, graphReason>>

GraphStart ==
  /\ graphPc = "new" /\ Sortable
  /\ IF graphAborted
     THEN ReturnResult({}, graphPending, {}) /\ UNCHANGED <<graphResults, graphErrors, graphInput, graphAborted>>
     ELSE LET ready == ReadyNodes(graphPending, {}, {})
          IN  /\ graphPc' = "running"
              /\ Dispatch(ready)
              /\ graphPending' = graphPending \ ready
              /\ UNCHANGED <<graphInput, graphAborted, graphOutcomes, graphReason>>

\* agent.submit: an agent that processes another task throws at once.
StartNode(n) ==
  LET busy == \E m \in DOMAIN graphBatch :
                graphBatch[m] = "running" /\ plan.owner[m] = plan.owner[n]
  IN  /\ graphPc = "running" /\ n \in DOMAIN graphBatch /\ graphBatch[n] = "starting"
      /\ graphBatch' = [graphBatch EXCEPT ![n] = IF busy THEN "error" ELSE "running"]
      /\ UNCHANGED <<graphInput, graphAborted, graphPc, graphPending, graphReady,
                     graphOutcomes, graphReason>>

\* Mutant: a child that was cut short is run again in its place.
FinishAgain(n, ending) ==
  /\ graphPc = "running" /\ n \in DOMAIN graphBatch /\ graphBatch[n] = "running"
  /\ graphBatch' = [graphBatch EXCEPT ![n] = IF ending = "cut" THEN "starting" ELSE ending]
  /\ UNCHANGED <<graphInput, graphAborted, graphPc, graphPending, graphReady,
                 graphOutcomes, graphReason>>

\* The child returns whatever stopped it, or throws.
FinishNode(n, ending) ==
  /\ graphPc = "running" /\ n \in DOMAIN graphBatch /\ graphBatch[n] = "running"
  /\ graphBatch' = [graphBatch EXCEPT ![n] = ending]
  /\ UNCHANGED <<graphInput, graphAborted, graphPc, graphPending, graphReady,
                 graphOutcomes, graphReason>>

\* The batch has settled; a child that was cut short counts as succeeded.
SettleBatch ==
  LET ended == DOMAIN graphBatch
      failed == {n \in ended : graphBatch[n] = "error"}
  IN  /\ graphPc = "running"
      /\ \A n \in ended : graphBatch[n] \in {"stop", "cut", "error"}
      /\ graphResults' = graphResults \cup (ended \ failed)
      /\ graphErrors' = graphErrors \cup failed
      /\ GoOn(graphResults', graphErrors')
      /\ UNCHANGED <<graphInput, graphAborted>>

AbortGraph ==
  /\ graphPc = "running" /\ ~graphAborted
  /\ graphAborted' = TRUE
  /\ UNCHANGED <<graphInput, graphPc, graphPending, graphReady, graphBatch,
                 graphOutcomes, graphReason>>

GraphProceed ==
  \/ GraphStart \/ GraphThrow \/ SettleBatch
  \/ \E n \in DOMAIN graphBatch :
       StartNode(n) \/ \E ending \in {"stop", "cut", "error"} : FinishNode(n, ending)

GraphNext == GraphProceed \/ AbortGraph

GraphSpec == GraphInit /\ [][GraphNext]_graphVars /\ WF_graphVars(GraphProceed)

-----------------------------------------------------------------------------
(* Properties *)

\* A result that says "completed" had every node of the plan succeed, although
\* it is worked out from what did not (graph.ts:253), and no node ever has two
\* outcomes.
CompletedMeansAll ==
  /\ graphPc = "returned" /\ Completed => graphResults = TaskNodes
  /\ graphResults \cap (graphErrors \cup graphSkipped) = {}
  /\ graphErrors \cap graphSkipped = {}

\* A child is started only when the tasks it depends on have all returned, so no
\* task reads the workspace while one it builds on still writes, nor after one
\* that threw or was skipped (graph.ts:146-151).
DependenciesFirst ==
  \A n \in DOMAIN graphBatch' : graphBatch'[n] = "running" => Deps(n) \subseteq graphResults

\* The order of the plan is kept on the way and told truly at the end.
PlanKept == [][DependenciesFirst /\ CompletedMeansAll']_graphVars

\* Every call of the tool returns, for no wave is empty while nodes are pending.
GraphEnds == []<>(graphPc # "running")
=============================================================================
