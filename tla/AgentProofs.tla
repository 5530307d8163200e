----------------------------- MODULE AgentProofs -----------------------------
(***************************************************************************)
(* Theorems about what the agent plans, sends and is told, for every value *)
(* of the constants: the specification it works on was confirmed by an     *)
(* answer to that specification; a graph of tasks is run in the order of   *)
(* its dependencies, and its outcome is the whole of it; nothing the user  *)
(* steers a turn with is lost, and what the model is sent has no holes;    *)
(* the diagnostics after an edit are about no older text; undo goes back   *)
(* capture by capture.                                                     *)
(***************************************************************************)
EXTENDS SpecEngine, TaskGraph, MCConversation, Checkpoints,
        FiniteSetTheorems, WellFoundedInduction, TLAPS

-----------------------------------------------------------------------------
(* The spec engine                                                         *)

SpecTypeOK ==
  /\ specDraft \in Nat
  /\ specAnnounced \subseteq Nat /\ specApplied \subseteq Nat /\ specDocs \subseteq Nat

\* Only the current draft, and only in "wait", is waited for.
WaitedFor ==
  /\ specPc # "wait" => specResolvers = {}
  /\ specResolvers \subseteq {specDraft}

\* No id is of the future, the draft in the making has not been enhanced, and is
\* announced only once it has been looked at.
DraftFresh ==
  /\ \A id \in specAnnounced \cup specApplied \cup specDocs : id <= specDraft
  /\ specPc \in {"detect", "announce", "wait", "enhance"} => specDraft \notin specApplied \cup specDocs
  /\ specPc = "detect" => specDraft \notin specAnnounced

EnhancedWhenConfirmed ==
  specPc = "enhance" /\ specDraft \in specAnnounced => specDraft \in specResolved

SpecInv == SpecTypeOK /\ WaitedFor /\ DraftFresh /\ EnhancedWhenConfirmed /\ ConfirmedByItsOwnAnswer

\* The invariant holds before the first prompt.
LEMMA SpecInitInv == SpecInit => SpecInv
BY DEF SpecInit, SpecInv, SpecTypeOK, WaitedFor, DraftFresh, EnhancedWhenConfirmed,
       ConfirmedByItsOwnAnswer

\* The answer to an announced specification.
LEMMA AnswerKeepsInv ==
  ASSUME SpecInv, NEW id \in specAnnounced, NEW goes \in {"enhance", "idle"}, AnswerSpec(id, goes)
  PROVE  SpecInv'
<1> USE DEF SpecInv, SpecTypeOK, WaitedFor, DraftFresh, EnhancedWhenConfirmed,
            ConfirmedByItsOwnAnswer, specConfig, specProducts, specOutputs
<1>1. CASE id \in specResolvers
  <2>1. specPc = "wait" /\ id = specDraft /\ specPc' = goes /\ specResolvers' = {}
    BY <1>1 DEF AnswerSpec
  <2>2. goes = "enhance" => specDraft \in specResolved'
    BY <2>1 DEF AnswerSpec
  <2> QED
    BY <2>1, <2>2 DEF AnswerSpec
<1>2. CASE id \notin specResolvers
  <2>1. specPc' = specPc /\ specResolvers' = specResolvers /\ specResolved \subseteq specResolved'
    BY <1>2 DEF AnswerSpec
  <2> QED
    BY <2>1 DEF AnswerSpec
<1> QED
  BY <1>1, <1>2

\* Every prompt, stage, answer and abort keeps the invariant.
THEOREM SpecInvariance == SpecEngineSpec => []SpecInv
<1>1. SpecInv /\ [SpecNext]_specVars => SpecInv'
  <2> SUFFICES ASSUME SpecInv, [SpecNext]_specVars PROVE SpecInv'
    OBVIOUS
  <2> USE DEF SpecInv, SpecTypeOK, WaitedFor, DraftFresh, EnhancedWhenConfirmed,
              ConfirmedByItsOwnAnswer, specConfig, specProducts, specOutputs, InStage
  <2>1. CASE SubmitPrompt
    BY <2>1 DEF SubmitPrompt
  <2>2. CASE Classify
    BY <2>2 DEF Classify
  <2>3. CASE Explore
    BY <2>3 DEF Explore
  <2>4. CASE DraftSpec
    <3>1. /\ UNCHANGED <<specConfig, specAborted, specBlocking, specResolvers, specAnnounced,
                          specApplied, specDocs, specResolved>>
          /\ specPc = "draft"
      BY <2>4 DEF DraftSpec
    <3>2. CASE specPc' = "detect" /\ specDraft' = specDraft + 1
      <4>1. \A id \in specAnnounced \cup specApplied \cup specDocs : id \in Nat /\ id < specDraft'
        BY <3>2
      <4> QED
        BY <3>1, <3>2, <4>1
    <3>3. CASE specPc' = "turn" /\ specDraft' = specDraft
      BY <3>1, <3>3
    <3> QED
      BY <2>4, <3>2, <3>3 DEF DraftSpec
  <2>5. CASE Detect
    <3>1. /\ UNCHANGED <<specConfig, specAborted, specDraft, specResolvers, specApplied,
                          specDocs, specResolved>>
          /\ specPc = "detect"
      BY <2>5 DEF Detect
    <3>2. CASE specPc' = "announce" /\ specAnnounced' = specAnnounced \cup {specDraft}
      <4>1. specDraft \notin specApplied \cup specDocs /\ specDraft <= specDraft
        BY <3>1
      <4> QED
        BY <3>1, <3>2, <4>1
    <3>3. CASE specPc' = "enhance" /\ specAnnounced' = specAnnounced
      BY <3>1, <3>3
    <3> QED
      BY <2>5, <3>2, <3>3 DEF Detect
  <2>6. CASE WaitForConfirmation
    BY <2>6 DEF WaitForConfirmation
  <2>7. CASE Enhance
    <3>1. /\ UNCHANGED <<specConfig, specAborted, specProducts, specResolvers, specAnnounced,
                          specResolved>>
          /\ specPc = "enhance" /\ specPc' = "turn"
          /\ specApplied' = specApplied \cup {specDraft}
          /\ specDocs \subseteq specDocs' /\ specDocs' \subseteq specDocs \cup {specDraft}
      BY <2>7 DEF Enhance
    <3>2. \A id \in specApplied' \cup specDocs' : id \in specApplied \cup specDocs \/ id = specDraft
      BY <3>1
    <3>3. ConfirmedByItsOwnAnswer'
      BY <3>1, <3>2
    <3>4. SpecTypeOK' /\ DraftFresh'
      BY <3>1, <3>2
    <3> QED
      BY <3>1, <3>3, <3>4
  <2>8. CASE EndSpecTurn
    BY <2>8 DEF EndSpecTurn
  <2>9. CASE AbortSpec
    BY <2>9 DEF AbortSpec
  <2>10. ASSUME NEW id \in specAnnounced, NEW goes \in {"enhance", "idle"}, AnswerSpec(id, goes)
         PROVE  SpecInv'
    BY <2>10, AnswerKeepsInv
  <2>11. CASE UNCHANGED specVars
    BY <2>11 DEF specVars
  <2> QED
    BY <2>1, <2>2, <2>3, <2>4, <2>5, <2>6, <2>7, <2>8, <2>9, <2>10, <2>11 DEF SpecNext, SpecProceed
<1> QED
  BY SpecInitInv, <1>1, PTL DEF SpecEngineSpec

\* No specification with critical or major decisions is worked on, or saved as
\* confirmed, that nobody confirmed, however many were aborted or declined and
\* answered too late (spec-engine.ts, waitForConfirmation and resolveDecisions).
THEOREM OnlyConfirmedSpecs == SpecEngineSpec => []ConfirmedByItsOwnAnswer
BY SpecInvariance, PTL DEF SpecInv

-----------------------------------------------------------------------------
(* The task graph                                                          *)

\* The nodes without an outcome: they wait for what they depend on, for a place in
\* the batch, or are in it.
Underway == graphPending \cup graphReady \cup DOMAIN graphBatch

OutcomesApart ==
  /\ graphResults \cap (graphErrors \cup graphSkipped) = {}
  /\ graphErrors \cap graphSkipped = {}

\* Until the graph returns no node is lost or counted twice, ...
NodesAccounted ==
  graphPc \in {"new", "running"} =>
    /\ TaskNodes = graphResults \cup graphErrors \cup graphSkipped \cup Underway
    /\ Underway \cap (graphResults \cup graphErrors \cup graphSkipped) = {}
    /\ graphPending \cap (graphReady \cup DOMAIN graphBatch) = {}
    /\ graphReady \cap DOMAIN graphBatch = {}

\* ... and what was taken from the pending nodes has its dependencies.
DependenciesMet ==
  graphPc \in {"new", "running"} =>
    \A n \in graphReady \cup DOMAIN graphBatch : Deps(n) \subseteq graphResults

GraphPoints ==
  /\ graphPc \in {"new", "running", "returned", "threw"}
  /\ graphPc = "new" => /\ graphPending = TaskNodes /\ graphReady = {} /\ graphBatch = NoBatch
                        /\ graphResults = {} /\ graphErrors = {} /\ graphSkipped = {}

PlanInv == GraphPoints /\ OutcomesApart /\ NodesAccounted /\ DependenciesMet /\ CompletedMeansAll

\* The pass that skips the doomed nodes has a result: what a set of skipped nodes
\* dooms grows with the set.
LEMMA DoomedIsPending ==
  ASSUME NEW pending, NEW results, NEW failed
  PROVE  Doomed(pending, results, failed) \in SUBSET pending
<1> DEFINE dooms(X) == {n \in pending : /\ Deps(n) \subseteq results \cup failed \cup X
                                        /\ Deps(n) \cap (failed \cup X) # {}}
           growing == {X \in SUBSET pending : X \subseteq dooms(X)}
           all == UNION growing
<1>1. ASSUME NEW X, NEW Y, X \subseteq Y PROVE dooms(X) \subseteq dooms(Y)
  BY <1>1
<1>2. \A X : dooms(X) \in SUBSET pending
  OBVIOUS
<1> HIDE DEF dooms
<1>3. all \subseteq dooms(all)
  <2> SUFFICES ASSUME NEW X \in growing PROVE X \subseteq dooms(all)
    OBVIOUS
  <2>1. X \subseteq all /\ X \subseteq dooms(X)
    OBVIOUS
  <2> QED
    BY <2>1, <1>1
<1>4. dooms(all) \subseteq all
  <2>1. dooms(all) \subseteq dooms(dooms(all))
    BY <1>1, <1>3
  <2> QED
    BY <2>1, <1>2
<1>5. all \in SUBSET pending /\ all = dooms(all)
  BY <1>3, <1>4
<1> HIDE DEF all
<1>6. PICK lost \in SUBSET pending : lost = dooms(lost)
  BY <1>5
<1> QED
  BY <1>6 DEF Doomed, dooms

\* A batch is taken from the ready nodes.
LEMMA DispatchMoves ==
  ASSUME NEW ready, Dispatch(ready)
  PROVE  DOMAIN graphBatch' \cup graphReady' = ready /\ DOMAIN graphBatch' \cap graphReady' = {}
  BY DEF Dispatch

\* The graph returns: with results for every node, unless it says otherwise.
LEMMA ReturnTold ==
  ASSUME NEW errors, NEW pending, NEW skipped, ReturnResult(errors, pending, skipped),
         graphErrors' = errors, UNCHANGED plan,
         graphResults' \cap (errors \cup skipped \cup pending) = {},
         errors \cap (skipped \cup pending) = {},
         ~graphAborted /\ errors = {} => TaskNodes = graphResults' \cup skipped \cup pending
  PROVE  PlanInv'
<1>1. /\ graphPc' = "returned" /\ graphSkipped' = skipped \cup pending
      /\ (graphAborted => graphReason' = "aborted") /\ TaskNodes' = TaskNodes
  BY DEF ReturnResult, TaskNodes
<1>2. CompletedMeansAll'
  BY <1>1 DEF CompletedMeansAll, Completed
<1> QED
  BY <1>1, <1>2 DEF PlanInv, GraphPoints, OutcomesApart, NodesAccounted, DependenciesMet

\* The tool is called: every node is pending.
LEMMA GraphStartInv == GraphInit => PlanInv
  BY DEF GraphInit, PlanInv, GraphPoints, OutcomesApart, NodesAccounted, DependenciesMet,
         CompletedMeansAll, Underway, NoBatch

\* The first wave.
LEMMA StartKeeps == ASSUME PlanInv, GraphStart PROVE PlanInv'
<1>1. /\ graphPc = "new" /\ graphPending = TaskNodes /\ graphReady = {} /\ graphBatch = NoBatch
      /\ graphResults = {} /\ graphErrors = {} /\ graphSkipped = {} /\ UNCHANGED plan
  BY DEF GraphStart, PlanInv, GraphPoints, graphInput
<1>2. CASE graphAborted
  <2>1. ReturnResult({}, graphPending, {}) /\ graphErrors' = {} /\ graphResults' = {}
    BY <1>1, <1>2 DEF GraphStart
  <2> QED
    BY <1>1, <2>1, <1>2, ReturnTold
<1>3. CASE ~graphAborted
  <2> DEFINE ready == ReadyNodes(graphPending, {}, {})
  <2>1. /\ Dispatch(ready) /\ graphPending' = graphPending \ ready /\ graphPc' = "running"
        /\ UNCHANGED <<graphResults, graphErrors, graphSkipped, graphReason>>
    BY <1>3 DEF GraphStart, graphOutcomes
  <2>2. ready \subseteq graphPending /\ \A n \in ready : Deps(n) \subseteq {}
    BY DEF ReadyNodes
  <2> HIDE DEF ready
  <2>3. DOMAIN graphBatch' \cup graphReady' = ready /\ DOMAIN graphBatch' \cap graphReady' = {}
    BY <2>1, DispatchMoves
  <2>4. TaskNodes' = TaskNodes /\ \A n : Deps(n)' = Deps(n)
    BY <1>1 DEF TaskNodes, Deps
  <2> QED
    BY <1>1, <2>1, <2>2, <2>3, <2>4 DEF PlanInv, GraphPoints, OutcomesApart, NodesAccounted,
       DependenciesMet, CompletedMeansAll, Underway
<1> QED
  BY <1>2, <1>3

\* The next wave is made of pending nodes that have what they depend on.
LEMMA WaveKeeps ==
  ASSUME NEW results, NEW errors, NextWave(results, errors), graphPc = "running",
         graphResults' = results, graphErrors' = errors, UNCHANGED plan,
         graphReady = {},
         TaskNodes = results \cup errors \cup graphSkipped \cup graphPending,
         graphPending \cap (results \cup errors \cup graphSkipped) = {},
         results \cap (errors \cup graphSkipped) = {}, errors \cap graphSkipped = {}
  PROVE  PlanInv'
<1> DEFINE failed == errors \cup graphSkipped
           lost == Doomed(graphPending, results, failed)
           ready == ReadyNodes(graphPending \ lost, results, failed \cup lost)
           rest == graphPending \ (lost \cup ready)
<1>1. lost \subseteq graphPending
  BY DoomedIsPending
<1>2. ready \subseteq graphPending \ lost /\ \A n \in ready : Deps(n) \subseteq results
  BY DEF ReadyNodes
<1>3. IF ready = {} THEN ReturnResult(errors, rest, graphSkipped \cup lost)
      ELSE /\ Dispatch(ready)
           /\ graphPending' = rest
           /\ graphSkipped' = graphSkipped \cup lost
           /\ UNCHANGED <<graphPc, graphReason>>
  BY DEF NextWave
<1>4. rest = graphPending \ (lost \cup ready)
  OBVIOUS
<1> HIDE DEF failed, lost, ready, rest
<1>5. CASE ready = {}
  <2>1. ReturnResult(errors, rest, graphSkipped \cup lost)
    BY <1>3, <1>5
  <2> QED
    BY <2>1, <1>1, <1>4, <1>5, ReturnTold
<1>6. CASE ready # {}
  <2>1. DOMAIN graphBatch' \cup graphReady' = ready /\ DOMAIN graphBatch' \cap graphReady' = {}
    BY <1>3, <1>6, DispatchMoves
  <2>2. TaskNodes' = TaskNodes /\ \A n : Deps(n)' = Deps(n)
    BY DEF TaskNodes, Deps
  <2> QED
    BY <1>1, <1>2, <1>3, <1>4, <1>6, <2>1, <2>2 DEF PlanInv, GraphPoints, OutcomesApart,
       NodesAccounted, DependenciesMet, CompletedMeansAll, Underway
<1> QED
  BY <1>5, <1>6

\* A batch that has settled gives each of its nodes an outcome.
LEMMA SettleKeeps == ASSUME PlanInv, SettleBatch PROVE PlanInv'
<1> DEFINE ended == DOMAIN graphBatch
           failed == {n \in ended : graphBatch[n] = "error"}
<1>1. /\ graphResults' = graphResults \cup (ended \ failed) /\ graphErrors' = graphErrors \cup failed
      /\ GoOn(graphResults', graphErrors') /\ UNCHANGED plan /\ graphPc = "running"
  BY DEF SettleBatch, graphInput
<1>2. failed \subseteq ended
  OBVIOUS
<1>3. /\ TaskNodes = graphResults \cup graphErrors \cup graphSkipped \cup graphPending
                       \cup graphReady \cup ended
      /\ (graphPending \cup graphReady \cup ended)
           \cap (graphResults \cup graphErrors \cup graphSkipped) = {}
      /\ graphPending \cap (graphReady \cup ended) = {} /\ graphReady \cap ended = {}
      /\ \A n \in graphReady : Deps(n) \subseteq graphResults
      /\ graphResults \cap (graphErrors \cup graphSkipped) = {}
      /\ graphErrors \cap graphSkipped = {}
  BY <1>1 DEF PlanInv, OutcomesApart, NodesAccounted, DependenciesMet, Underway
<1> HIDE DEF ended, failed
<1>4. PICK results, errors : results = graphResults' /\ errors = graphErrors'
  OBVIOUS
<1>5. /\ GoOn(results, errors)
      /\ TaskNodes = results \cup errors \cup graphSkipped \cup graphPending \cup graphReady
      /\ (graphPending \cup graphReady) \cap (results \cup errors \cup graphSkipped) = {}
      /\ results \cap (errors \cup graphSkipped) = {} /\ errors \cap graphSkipped = {}
      /\ graphPending \cap graphReady = {}
      /\ \A n \in graphReady : Deps(n) \subseteq results
  BY <1>1, <1>2, <1>3, <1>4
<1>6. CASE graphAborted \/ (errors # {} /\ ~continueOnError)
  <2>1. ReturnResult(errors, graphPending, graphSkipped)
    BY <1>5, <1>6 DEF GoOn
  <2> QED
    BY <1>1, <1>4, <1>5, <1>6, <2>1, ReturnTold
<1>7. CASE ~(graphAborted \/ (errors # {} /\ ~continueOnError)) /\ graphReady # {}
  <2>1. Dispatch(graphReady) /\ UNCHANGED <<graphPc, graphPending, graphSkipped, graphReason>>
    BY <1>5, <1>7 DEF GoOn
  <2>2. DOMAIN graphBatch' \cup graphReady' = graphReady /\ DOMAIN graphBatch' \cap graphReady' = {}
    BY <2>1, DispatchMoves
  <2>3. TaskNodes' = TaskNodes /\ \A n : Deps(n)' = Deps(n)
    BY <1>1 DEF TaskNodes, Deps
  <2> QED
    BY <1>1, <1>4, <1>5, <2>1, <2>2, <2>3 DEF PlanInv, GraphPoints, OutcomesApart, NodesAccounted,
       DependenciesMet, CompletedMeansAll, Underway
<1>8. CASE ~(graphAborted \/ (errors # {} /\ ~continueOnError)) /\ graphReady = {}
  <2>1. NextWave(results, errors)
    BY <1>5, <1>8 DEF GoOn
  <2> QED
    BY <1>1, <1>4, <1>5, <1>8, <2>1, WaveKeeps
<1> QED
  BY <1>6, <1>7, <1>8

\* A step of one child, and the abort, move no node.
LEMMA BatchKeeps ==
  ASSUME PlanInv, graphPc = "running", UNCHANGED <<graphInput, graphPc, graphPending, graphReady, graphOutcomes>>,
         DOMAIN graphBatch' = DOMAIN graphBatch
  PROVE  PlanInv'
<1>1. TaskNodes' = TaskNodes /\ \A n : Deps(n)' = Deps(n)
  BY DEF TaskNodes, Deps, graphInput
<1> QED
  BY <1>1 DEF PlanInv, GraphPoints, OutcomesApart, NodesAccounted, DependenciesMet,
     CompletedMeansAll, Underway, graphOutcomes

\* Every step keeps the plan.
LEMMA GraphStep == ASSUME PlanInv, [GraphNext]_graphVars PROVE PlanInv'
<1>1. CASE GraphStart
  BY <1>1, StartKeeps
<1>2. CASE GraphThrow
  <2>1. TaskNodes' = TaskNodes
    BY <1>2 DEF GraphThrow, TaskNodes, graphInput
  <2> QED
    BY <1>2, <2>1 DEF GraphThrow, PlanInv, GraphPoints, OutcomesApart, NodesAccounted,
       DependenciesMet, CompletedMeansAll, graphOutcomes, graphInput
<1>3. CASE SettleBatch
  BY <1>3, SettleKeeps
<1>4. ASSUME NEW n \in DOMAIN graphBatch, StartNode(n) PROVE PlanInv'
  BY <1>4, BatchKeeps DEF StartNode
<1>5. ASSUME NEW n \in DOMAIN graphBatch, NEW ending, FinishNode(n, ending) PROVE PlanInv'
  BY <1>5, BatchKeeps DEF FinishNode
<1>6. CASE AbortGraph
  BY <1>6, BatchKeeps DEF AbortGraph
<1>7. CASE UNCHANGED graphVars
  <2>1. TaskNodes' = TaskNodes /\ \A n : Deps(n)' = Deps(n)
    BY <1>7 DEF TaskNodes, Deps, graphInput, graphVars
  <2> QED
    BY <1>7, <2>1 DEF PlanInv, GraphPoints, OutcomesApart, NodesAccounted, DependenciesMet,
       CompletedMeansAll, Completed, Underway, graphOutcomes, graphVars
<1> QED
  BY <1>1, <1>2, <1>3, <1>4, <1>5, <1>6, <1>7 DEF GraphNext, GraphProceed

\* A child runs only in a batch whose nodes have what they depend on.
LEMMA ChildrenWait == ASSUME PlanInv, PlanInv', [GraphNext]_graphVars PROVE DependenciesFirst \/ UNCHANGED graphVars
<1>1. ASSUME NEW n \in DOMAIN graphBatch, StartNode(n) PROVE DependenciesFirst
  BY <1>1 DEF StartNode, DependenciesFirst, PlanInv, DependenciesMet
<1>2. ASSUME NEW n \in DOMAIN graphBatch, NEW ending \in {"stop", "cut", "error"}, FinishNode(n, ending)
      PROVE  DependenciesFirst
  BY <1>2 DEF FinishNode, DependenciesFirst, PlanInv, DependenciesMet
<1>3. CASE AbortGraph
  BY <1>3 DEF AbortGraph, DependenciesFirst, PlanInv, DependenciesMet
<1>4. CASE GraphThrow
  BY <1>4 DEF GraphThrow, DependenciesFirst, PlanInv, GraphPoints, NoBatch
<1>5. ASSUME (\E ready : Dispatch(ready)) \/ graphBatch' = NoBatch PROVE DependenciesFirst
  BY <1>5 DEF Dispatch, NoBatch, DependenciesFirst
<1>6. CASE GraphStart
  BY <1>5, <1>6 DEF GraphStart, ReturnResult
<1>7. CASE SettleBatch
  BY <1>5, <1>7 DEF SettleBatch, GoOn, NextWave, ReturnResult
<1> QED
  BY <1>1, <1>2, <1>3, <1>4, <1>6, <1>7 DEF GraphNext, GraphProceed

\* No child starts before the tasks it depends on have returned, and a graph that
\* says it is complete has a result for every node, for any plan, cycles and
\* double dependencies included, any number of children at once and any endings.
THEOREM PlansAreKept == GraphSpec => PlanKept
<1>1. GraphInit => PlanInv
  BY GraphStartInv
<1>2. PlanInv /\ [GraphNext]_graphVars => PlanInv'
  BY GraphStep
<1>3. PlanInv /\ PlanInv' /\ [GraphNext]_graphVars => [DependenciesFirst /\ CompletedMeansAll']_graphVars
  BY ChildrenWait DEF PlanInv
<1> QED
  BY <1>1, <1>2, <1>3, PTL DEF GraphSpec, PlanKept

-----------------------------------------------------------------------------
(* Sifting a sequence                                                      *)

\* Some of the places of a sequence are in a strictly increasing order.
LEMMA Ranks ==
  ASSUME NEW n \in Nat, NEW places \in SUBSET (1..n)
  PROVE  \E at \in [1..Cardinality(places) -> places] :
           /\ \A k, m \in 1..Cardinality(places) : k < m => at[k] < at[m]
           /\ \A i \in places : \E k \in 1..Cardinality(places) : at[k] = i
           /\ \A s : Sifted(s, places) = [k \in 1..Cardinality(places) |-> s[at[k]]]
<1> DEFINE below(i) == {j \in places : j <= i}
           card == Cardinality(places)
           rank == [i \in places |-> Cardinality(below(i))]
<1>0. \A i \in places : i \in Nat
  OBVIOUS
<1>1. IsFiniteSet(places) /\ card \in Nat
  <2>1. IsFiniteSet(1..n)
    BY FS_Interval
  <2>2. IsFiniteSet(places)
    BY <2>1, FS_Subset
  <2> QED
    BY <2>2, FS_CardinalityType
<1>2. \A i \in places : IsFiniteSet(below(i)) /\ rank[i] \in Nat /\ rank[i] <= card
  <2> TAKE i \in places
  <2>1. IsFiniteSet(below(i)) /\ Cardinality(below(i)) <= card
    BY <1>1, FS_Subset
  <2> QED
    BY <2>1, FS_CardinalityType
<1>3. \A i \in places : rank[i] # 0
  <2> TAKE i \in places
  <2>1. i \in below(i)
    OBVIOUS
  <2> QED
    BY <1>2, <2>1, FS_EmptySet
<1>4. ASSUME NEW i \in places, NEW j \in places, i < j PROVE rank[i] < rank[j]
  <2>0. below(i) \in SUBSET below(j)
    <3>1. ASSUME NEW k \in places, k <= i PROVE k <= j
      <4>1. i \in Nat /\ j \in Nat /\ k \in Nat
        BY <1>0
      <4> QED
        BY <1>4, <3>1, <4>1
    <3> QED
      BY <3>1
  <2>1. below(i) \in SUBSET below(j) /\ below(i) # below(j)
    <3>1. j \in below(j) /\ j \notin below(i)
      BY <1>0, <1>4
    <3> QED
      BY <2>0, <3>1
  <2>2. rank[i] <= rank[j] /\ rank[i] # rank[j]
    BY <1>2, <2>1, FS_Subset
  <2> QED
    BY <1>2, <2>2
<1>5. rank \in Injection(places, 1..card)
  <2>1. rank \in [places -> 1..card]
    BY <1>1, <1>2, <1>3
  <2>2. \A i, j \in places : rank[i] = rank[j] => i = j
    <3> TAKE i, j \in places
    <3>1. i \in Nat /\ j \in Nat
      OBVIOUS
    <3> QED
      BY <1>2, <1>4, <3>1
  <2> QED
    BY <2>1, <2>2 DEF Injection, IsInjective
<1>6. \A k \in 1..card : \E i \in places : rank[i] = k
  <2>1. Cardinality(1..card) = card /\ IsFiniteSet(1..card)
    BY <1>1, FS_Interval
  <2>2. rank \in Surjection(places, 1..card)
    BY <1>1, <1>5, <2>1, FS_Injection
  <2> QED
    BY <2>2 DEF Surjection
<1> DEFINE at == [k \in 1..card |-> CHOOSE i \in places : Cardinality(below(i)) = k]
<1>7. \A k \in 1..card : at[k] \in places /\ rank[at[k]] = k
  <2> TAKE k \in 1..card
  <2>1. \E i \in places : Cardinality(below(i)) = k
    BY <1>6
  <2> QED
    BY <2>1
<1>8. \A k, m \in 1..card : k < m => at[k] < at[m]
  <2> TAKE k, m \in 1..card
  <2>1. at[k] \in places /\ at[m] \in places /\ rank[at[k]] = k /\ rank[at[m]] = m
    BY <1>7
  <2>2. k \in Nat /\ m \in Nat
    BY <1>1
  <2> HIDE DEF at, rank
  <2>3. at[k] \in Nat /\ at[m] \in Nat
    <3> HIDE <2>2
    <3> QED
      BY <1>0, <2>1
  <2>4. ~(at[m] < at[k]) \/ m < k
    BY <1>4, <2>1
  <2>5. at[k] # at[m] \/ k = m
    BY <2>1
  <2> QED
    BY <2>2, <2>3, <2>4, <2>5
<1>9. \A i \in places : \E k \in 1..card : at[k] = i
  <2> TAKE i \in places
  <2>1. rank[i] \in 1..card
    BY <1>1, <1>2, <1>3
  <2>2. at[rank[i]] \in places /\ rank[at[rank[i]]] = rank[i]
    BY <1>7, <2>1
  <2>3. at[rank[i]] = i
    BY <1>5, <2>2 DEF Injection, IsInjective
  <2> QED
    BY <2>1, <2>3
<1>10. \A s : Sifted(s, places) = [k \in 1..card |-> s[at[k]]]
  BY DEF Sifted
<1>11. at \in [1..card -> places]
  BY <1>7
<1> HIDE DEF at
<1> QED
  BY <1>8, <1>9, <1>10, <1>11

\* What the sequences of the steering hold.
QueueItem == [id : Nat \ {0}, mode : Mode]

\* The ids of some items, and that they are in the order in which they were given.
Ids(s) == {s[i].id : i \in DOMAIN s}
Rising(s) == \A i, j \in DOMAIN s : i < j => s[i].id < s[j].id

\* What is sifted of rising items is items, and they still rise.
LEMMA SiftedItems ==
  ASSUME NEW s \in Seq(QueueItem), Rising(s), NEW places \in SUBSET DOMAIN s
  PROVE  /\ Sifted(s, places) \in Seq(QueueItem)
         /\ Rising(Sifted(s, places))
         /\ Len(Sifted(s, places)) = Cardinality(places) /\ IsFiniteSet(places)
         /\ Ids(Sifted(s, places)) = {s[i].id : i \in places}
         /\ \A k \in DOMAIN Sifted(s, places) : \E i \in places : Sifted(s, places)[k] = s[i]
<1>1. Len(s) \in Nat /\ DOMAIN s = 1..Len(s) /\ \A i \in DOMAIN s : s[i] \in QueueItem
  OBVIOUS
<1>2. IsFiniteSet(places) /\ Cardinality(places) \in Nat
  <2>1. IsFiniteSet(DOMAIN s)
    BY <1>1, FS_Interval
  <2> QED
    BY <2>1, FS_Subset, FS_CardinalityType
<1>3. places \in SUBSET (1..Len(s))
  BY <1>1
<1>4. PICK at \in [1..Cardinality(places) -> places] :
        /\ \A k, m \in 1..Cardinality(places) : k < m => at[k] < at[m]
        /\ \A i \in places : \E k \in 1..Cardinality(places) : at[k] = i
        /\ \A r : Sifted(r, places) = [k \in 1..Cardinality(places) |-> r[at[k]]]
  BY <1>1, <1>3, Ranks
<1>5. PICK card \in Nat : card = Cardinality(places)
  BY <1>2
<1>6. PICK t : t = Sifted(s, places)
  OBVIOUS
<1>7. t = [k \in 1..card |-> s[at[k]]]
  BY <1>4, <1>5, <1>6
<1>8. \A k \in 1..card : at[k] \in places /\ s[at[k]] \in QueueItem
  BY <1>1, <1>4, <1>5
<1>9. t \in [1..card -> QueueItem]
  BY <1>7, <1>8
<1>10. t \in Seq(QueueItem) /\ Len(t) = card /\ DOMAIN t = 1..card
  <2>1. t \in Seq(QueueItem)
    BY <1>5, <1>9
  <2>2. DOMAIN t = 1..card
    BY <1>9
  <2>3. Len(t) = card
    BY <1>5, <2>1, <2>2
  <2> QED
    BY <2>1, <2>2, <2>3
<1>11. \A k \in DOMAIN t : t[k] = s[at[k]]
  BY <1>7
<1>12. Rising(t)
  BY <1>4, <1>5, <1>8, <1>10, <1>11 DEF Rising
<1>13. Ids(t) = {s[i].id : i \in places}
  <2>1. \A k \in DOMAIN t : t[k].id \in {s[i].id : i \in places}
    BY <1>8, <1>10, <1>11
  <2>2. \A i \in places : \E k \in DOMAIN t : t[k].id = s[i].id
    BY <1>4, <1>5, <1>10, <1>11
  <2> QED
    BY <2>1, <2>2 DEF Ids
<1> QED
  BY <1>2, <1>5, <1>6, <1>8, <1>10, <1>11, <1>12, <1>13

\* Sifting by some places and by the others parts a sequence in two.
LEMMA Parted ==
  ASSUME NEW s \in Seq(QueueItem), Rising(s), NEW places \in SUBSET DOMAIN s
  PROVE  LET rest == DOMAIN s \ places
         IN  /\ Len(Sifted(s, places)) + Len(Sifted(s, rest)) = Len(s)
             /\ Ids(Sifted(s, places)) \cup Ids(Sifted(s, rest)) = Ids(s)
<1>0. PICK rest : rest = DOMAIN s \ places
  OBVIOUS
<1>1. PICK n \in Nat : Len(s) = n /\ DOMAIN s = 1..n
  OBVIOUS
<1>2. IsFiniteSet(1..n) /\ Cardinality(1..n) = n
  BY FS_Interval
<1>3. (1..n) \cap places = places /\ rest = (1..n) \ places /\ rest \in SUBSET DOMAIN s
  BY <1>0, <1>1
<1>4. Cardinality(rest) = n - Cardinality(places)
  <2>1. Cardinality((1..n) \ places)
          = Cardinality(1..n) - Cardinality((1..n) \cap places)
    BY <1>2, FS_Difference
  <2> QED
    BY <1>2, <1>3, <2>1
<1>5. Cardinality(places) \in Nat
  BY <1>1, <1>2, FS_Subset, FS_CardinalityType
<1>6. /\ Len(Sifted(s, places)) = Cardinality(places)
      /\ Ids(Sifted(s, places)) = {s[i].id : i \in places}
  BY SiftedItems
<1>7. Len(Sifted(s, rest)) = Cardinality(rest) /\ Ids(Sifted(s, rest)) = {s[i].id : i \in rest}
  BY <1>3, SiftedItems
<1>8. Len(Sifted(s, places)) + Len(Sifted(s, rest)) = Len(s)
  BY <1>1, <1>4, <1>5, <1>6, <1>7
<1>9. Ids(s) = {s[i].id : i \in places} \cup {s[i].id : i \in rest}
  BY <1>0 DEF Ids
<1> QED
  BY <1>0, <1>6, <1>7, <1>8, <1>9

-----------------------------------------------------------------------------
(* The invariant *)

\* What the transcript holds.
Note ==
  [role : {"user"}, item : Nat, mode : {"prompt", "steer", "follow-up"}]
    \cup [role : {"assistant"}, calls : Nat] \cup [role : {"tool"}, call : Nat]

SteeringTypes ==
  /\ queue \in Seq(QueueItem) /\ drained \in Seq(QueueItem)
  /\ transcript \in Seq(Note)
  /\ accepted \in Nat /\ removed \in SUBSET (1..accepted)
  /\ calls \in Nat /\ written \in Nat

\* An item that waits until the model is done.
Later(item) == item.mode = "follow-up"

\* Steering is in order across the transcript, what is drained and the queue,
\* follow-ups and the rest each for themselves, and what is queued was not
\* taken back.
InLine ==
  /\ Rising(queue) /\ Rising(drained)
  /\ Ids(queue) \cap removed = {}
  /\ \A i, j \in DOMAIN drained : Later(drained[i]) = Later(drained[j])
  /\ \A i \in DOMAIN drained, j \in DOMAIN queue :
       Later(drained[i]) = Later(queue[j]) => drained[i].id < queue[j].id
  /\ \A d \in Delivering, i \in DOMAIN drained :
       IsFollowUp(transcript[d]) = Later(drained[i]) => transcript[d].item < drained[i].id
  /\ \A d \in Delivering, j \in DOMAIN queue :
       IsFollowUp(transcript[d]) = Later(queue[j]) => transcript[d].item < queue[j].id

\* A follow-up may come after the last message.
Done ==
  /\ transcript # <<>>
  /\ LET last == transcript[Len(transcript)]
     IN  last = Assistant(0) \/ IsFollowUp(last)

\* Where the turn is says what may be drained and what was answered last.
AtPoint ==
  /\ next # "check"
  /\ drained # <<>> => pc = "deliver"
  /\ \A i \in DOMAIN drained : Later(drained[i]) => Done
  /\ pc = "check" =>
       transcript # <<>> /\ transcript[Len(transcript)] = Assistant(calls)

SteeringInv == SteeringTypes /\ InLine /\ AtPoint /\ SteeringSound

\* Before the first prompt there is nothing to account for.
LEMMA SteeringInitially == Init => SteeringInv
<1> SUFFICES ASSUME Init PROVE SteeringInv
  OBVIOUS
<1>1. /\ transcript = <<>> /\ queue = <<>> /\ drained = <<>> /\ accepted = 0
      /\ removed = {} /\ calls = 0 /\ written = 0 /\ pc = "idle" /\ next = "idle"
  BY DEF Init
<1>2. DOMAIN transcript = {} /\ DOMAIN queue = {} /\ DOMAIN drained = {} /\ Len(<<>>) = 0
  BY <1>1
<1>3. Delivering = {} /\ Ids(queue) = {} /\ 1..0 = {}
  BY <1>2 DEF Delivering, Ids
<1>4. SteeringTypes /\ InLine /\ AtPoint
  <2>1. SteeringTypes
    BY <1>1 DEF SteeringTypes
  <2> QED
    BY <1>1, <1>2, <1>3, <2>1 DEF InLine, AtPoint, Rising
<1>5. SteeringAccounted
  <2>1. Cardinality(removed) = 0 /\ Cardinality(Delivering) = 0
    BY <1>1, <1>3, FS_EmptySet
  <2>2. Len(queue) = 0 /\ Len(drained) = 0
    BY <1>1, <1>2
  <2> QED
    BY <1>1, <1>2, <1>3, <2>1, <2>2 DEF SteeringAccounted
<1>6. SteeringInOrder
  BY <1>2, <1>3 DEF SteeringInOrder
<1> QED
  BY <1>4, <1>5, <1>6 DEF SteeringInv, SteeringSound

-----------------------------------------------------------------------------
(* The steps, by what they do to the steering *)

\* A step that leaves the steering and the transcript alone.
LEMMA QuietKeeps ==
  ASSUME SteeringInv, UNCHANGED <<transcript, queue, drained, accepted, removed>>,
         calls' \in Nat, written' \in Nat, next' # "check",
         drained # <<>> => pc' = "deliver",
         pc' = "check" => pc = "check" /\ calls' = calls
  PROVE  SteeringInv'
<1>1. SteeringTypes'
  BY DEF SteeringInv, SteeringTypes
<1>2. Delivering' = Delivering
  BY DEF Delivering
<1>3. InLine'
  BY <1>2 DEF SteeringInv, InLine, Rising, Ids
<1>4. AtPoint'
  BY DEF SteeringInv, AtPoint, Done
<1>5. SteeringSound'
  BY <1>2 DEF SteeringInv, SteeringSound, SteeringAccounted, SteeringInOrder, FollowsUp
<1> QED
  BY <1>1, <1>3, <1>4, <1>5 DEF SteeringInv

\* What a message written at the end of the transcript leaves there.
LEMMA Written ==
  ASSUME transcript \in Seq(Note), NEW m \in Note, Write(m)
  PROVE  /\ transcript' \in Seq(Note)
         /\ Len(transcript) \in Nat
         /\ Len(transcript') = Len(transcript) + 1
         /\ DOMAIN transcript = 1..Len(transcript)
         /\ DOMAIN transcript' = 1..Len(transcript) + 1
         /\ \A i \in 1..Len(transcript) : transcript'[i] = transcript[i]
         /\ transcript'[Len(transcript) + 1] = m
  BY DEF Write

\* A message that is not steering.
NotSteered(m) == m.role = "user" => m.item = 0 /\ m.mode # "follow-up"

\* A message that is not steering is written, and none is to be delivered.
LEMMA WriteKeeps ==
  ASSUME SteeringInv, NEW m \in Note, NotSteered(m), Write(m), drained = <<>>,
         UNCHANGED <<queue, drained, accepted, removed>>,
         calls' \in Nat, written' \in Nat, next' # "check",
         pc' = "check" => m = Assistant(calls')
  PROVE  SteeringInv'
<1> DEFINE n == Len(transcript)
<1>1. /\ transcript' \in Seq(Note) /\ n \in Nat
      /\ Len(transcript') = n + 1 /\ DOMAIN transcript = 1..n /\ DOMAIN transcript' = 1..n + 1
      /\ \A i \in 1..n : transcript'[i] = transcript[i]
      /\ transcript'[n + 1] = m
  BY Written DEF SteeringInv, SteeringTypes
<1> HIDE DEF n
<1>2. SteeringTypes'
  BY <1>1 DEF SteeringInv, SteeringTypes
<1>3. Delivering' = Delivering
  BY <1>1 DEF Delivering, NotSteered
<1>4. \A d \in Delivering : transcript'[d] = transcript[d]
  BY <1>1 DEF Delivering
<1>5. InLine'
  BY <1>3, <1>4 DEF SteeringInv, InLine, Rising, Ids
<1>6. AtPoint'
  <2>1. DOMAIN drained = {}
    OBVIOUS
  <2>2. transcript' # <<>>
    BY <1>1
  <2> QED
    BY <1>1, <2>1, <2>2 DEF AtPoint
<1>7. SteeringAccounted'
  BY <1>3, <1>4 DEF SteeringInv, SteeringSound, SteeringAccounted
<1>8. SteeringInOrder'
  <2>1. \A i, j \in Delivering' :
          i < j /\ IsFollowUp(transcript'[i]) = IsFollowUp(transcript'[j])
          => transcript'[i].item < transcript'[j].item
    BY <1>3, <1>4 DEF SteeringInv, SteeringSound, SteeringInOrder
  <2>2. ASSUME NEW i \in DOMAIN transcript', IsFollowUp(transcript'[i])
        PROVE  FollowsUp(i)'
    <3>1. i # n + 1
      BY <1>1, <2>2 DEF IsFollowUp, NotSteered
    <3>2. i \in DOMAIN transcript /\ transcript'[i] = transcript[i]
      BY <1>1, <3>1
    <3>3. i > 1 /\ (transcript[i - 1] = Assistant(0) \/ IsFollowUp(transcript[i - 1]))
      BY <2>2, <3>2 DEF SteeringInv, SteeringSound, SteeringInOrder, FollowsUp
    <3>4. transcript'[i - 1] = transcript[i - 1]
      BY <1>1, <3>2, <3>3
    <3> QED
      BY <3>3, <3>4 DEF FollowsUp
  <2> QED
    BY <2>1, <2>2 DEF SteeringInOrder
<1> QED
  BY <1>2, <1>5, <1>6, <1>7, <1>8 DEF SteeringInv, SteeringSound

\* What SteeringAccounted counts is finite.
LEMMA Counts ==
  ASSUME SteeringInv
  PROVE  /\ IsFiniteSet(removed) /\ Cardinality(removed) \in Nat
         /\ IsFiniteSet(Delivering) /\ Cardinality(Delivering) \in Nat
         /\ Len(queue) \in Nat /\ Len(drained) \in Nat
         /\ 1..accepted = Ids(queue) \cup Ids(drained) \cup removed
                            \cup {transcript[i].item : i \in Delivering}
         /\ accepted = Len(queue) + Len(drained) + Cardinality(removed)
                         + Cardinality(Delivering)
<1>1. Len(transcript) \in Nat /\ DOMAIN transcript = 1..Len(transcript)
  BY DEF SteeringInv, SteeringTypes
<1>2. IsFiniteSet(1..accepted) /\ IsFiniteSet(DOMAIN transcript)
  BY <1>1, FS_Interval DEF SteeringInv, SteeringTypes
<1>3. removed \in SUBSET (1..accepted) /\ Delivering \in SUBSET DOMAIN transcript
  BY DEF SteeringInv, SteeringTypes, Delivering
<1>4. /\ IsFiniteSet(removed) /\ Cardinality(removed) \in Nat
      /\ IsFiniteSet(Delivering) /\ Cardinality(Delivering) \in Nat
  BY <1>2, <1>3, FS_Subset, FS_CardinalityType
<1>5. Len(queue) \in Nat /\ Len(drained) \in Nat
  BY DEF SteeringInv, SteeringTypes
<1> QED
  BY <1>4, <1>5 DEF SteeringInv, SteeringSound, SteeringAccounted, Ids

\* Steering that is due leaves the queue, to be delivered.
LEMMA TakeKeeps ==
  ASSUME SteeringInv, drained = <<>>,
         NEW modes \in {{"append", "interrupt"}, {"follow-up"}}, Take(modes),
         UNCHANGED <<transcript, accepted, removed>>,
         pc' = "deliver", modes = {"follow-up"} => Done,
         calls' \in Nat, written' \in Nat, next' # "check"
  PROVE  SteeringInv'
<1>1. PICK due \in SUBSET DOMAIN queue :
        /\ drained' = Sifted(queue, due) /\ queue' = Sifted(queue, DOMAIN queue \ due)
        /\ \A i \in due : queue[i].mode \in modes
        /\ \A i \in due, j \in DOMAIN queue \ due : queue[j].mode \in modes => i <= j
  <2> DEFINE wanted == {i \in DOMAIN queue : queue[i].mode \in modes}
             first == {i \in wanted : \A j \in wanted : i <= j}
             due == IF delivery = "one-at-a-time" THEN first ELSE wanted
  <2>1. drained' = Sifted(queue, due) /\ queue' = Sifted(queue, DOMAIN queue \ due)
    BY DEF Take
  <2>2. due \in SUBSET DOMAIN queue /\ \A i \in due : queue[i].mode \in modes
    OBVIOUS
  <2>3. \A i \in due, j \in DOMAIN queue \ due : queue[j].mode \in modes => i <= j
    OBVIOUS
  <2> QED
    BY <2>1, <2>2, <2>3
<1>2. PICK rest \in SUBSET DOMAIN queue : rest = DOMAIN queue \ due
  OBVIOUS
<1>3. /\ queue \in Seq(QueueItem) /\ Rising(queue)
      /\ \A i \in DOMAIN queue : i \in Nat /\ queue[i] \in QueueItem
  BY DEF SteeringInv, SteeringTypes, InLine
<1>4. /\ drained' \in Seq(QueueItem) /\ Rising(drained') /\ Len(drained') \in Nat
      /\ \A k \in DOMAIN drained' : \E i \in due : drained'[k] = queue[i]
  BY <1>1, <1>3, SiftedItems
<1>5. /\ queue' \in Seq(QueueItem) /\ Rising(queue') /\ Len(queue') \in Nat
      /\ \A k \in DOMAIN queue' : \E i \in rest : queue'[k] = queue[i]
  <2>1. queue' = Sifted(queue, rest)
    BY <1>1, <1>2
  <2> QED
    BY <1>3, <2>1, SiftedItems
<1>6. Len(drained') + Len(queue') = Len(queue) /\ Ids(drained') \cup Ids(queue') = Ids(queue)
  BY <1>1, <1>3, Parted
<1>7. Delivering' = Delivering
  BY DEF Delivering
<1>8. \A i \in due : Later(queue[i]) <=> modes = {"follow-up"}
  BY <1>1, <1>3 DEF Later
<1>9. \A i \in due, j \in rest :
        Later(queue[i]) = Later(queue[j]) => queue[i].id < queue[j].id
  <2> TAKE i \in due, j \in rest
  <2> SUFFICES ASSUME Later(queue[i]) = Later(queue[j]) PROVE queue[i].id < queue[j].id
    OBVIOUS
  <2>1. queue[j].mode \in modes
    BY <1>1, <1>2, <1>3, <1>8 DEF Later, QueueItem, Mode
  <2>2. i < j
    BY <1>1, <1>2, <1>3, <2>1
  <2> QED
    BY <1>2, <1>3, <2>2 DEF Rising
<1>10. SteeringTypes'
  BY <1>4, <1>5 DEF SteeringInv, SteeringTypes
<1>11. InLine'
  <2>1. Ids(queue') \cap removed' = {}
    BY <1>6 DEF SteeringInv, InLine
  <2>2. \A i, j \in DOMAIN drained' : Later(drained'[i]) = Later(drained'[j])
    BY <1>4, <1>8 DEF Later
  <2>3. \A i \in DOMAIN drained', j \in DOMAIN queue' :
          Later(drained'[i]) = Later(queue'[j]) => drained'[i].id < queue'[j].id
    BY <1>4, <1>5, <1>9
  <2>4. \A d \in Delivering, j \in DOMAIN queue :
          IsFollowUp(transcript[d]) = Later(queue[j]) => transcript[d].item < queue[j].id
    BY DEF SteeringInv, InLine
  <2>5. \A d \in Delivering', i \in DOMAIN drained' :
          IsFollowUp(transcript'[d]) = Later(drained'[i]) => transcript'[d].item < drained'[i].id
    BY <1>4, <1>7, <2>4
  <2>6. \A d \in Delivering', i \in DOMAIN queue' :
          IsFollowUp(transcript'[d]) = Later(queue'[i]) => transcript'[d].item < queue'[i].id
    BY <1>5, <1>7, <2>4
  <2> QED
    BY <1>4, <1>5, <2>1, <2>2, <2>3, <2>5, <2>6 DEF InLine
<1>12. AtPoint'
  <2>1. \A i \in DOMAIN drained' : Later(drained'[i]) => Done'
    BY <1>4, <1>8 DEF Done
  <2> QED
    BY <2>1 DEF AtPoint
<1>13. SteeringAccounted'
  <2>1. /\ 1..accepted = Ids(queue) \cup Ids(drained) \cup removed
                           \cup {transcript[i].item : i \in Delivering}
        /\ accepted = Len(queue) + Len(drained) + Cardinality(removed)
                        + Cardinality(Delivering)
        /\ Cardinality(removed) \in Nat /\ Cardinality(Delivering) \in Nat
        /\ Len(queue) \in Nat
    BY Counts
  <2>2. Ids(drained) = {} /\ Len(drained) = 0
    BY DEF Ids
  <2>3. 1..accepted' = Ids(queue') \cup Ids(drained') \cup removed'
                         \cup {transcript'[i].item : i \in Delivering'}
    BY <1>6, <1>7, <2>1, <2>2
  <2>4. accepted' = Len(queue') + Len(drained') + Cardinality(removed')
                      + Cardinality(Delivering')
    <3>1. Cardinality(removed') = Cardinality(removed)
      OBVIOUS
    <3>2. Cardinality(Delivering') = Cardinality(Delivering)
      BY <1>7
    <3>3. /\ Len(drained') \in Nat /\ Len(queue') \in Nat
          /\ Len(drained') + Len(queue') = Len(queue)
      BY <1>4, <1>5, <1>6
    <3>4. accepted' = accepted
      OBVIOUS
    <3>5. accepted = Len(queue) + Cardinality(removed) + Cardinality(Delivering)
      BY <2>1, <2>2
    <3>6. PICK n \in Nat, r \in Nat, q \in Nat, d \in Nat, l \in Nat :
             /\ n = Cardinality(removed) /\ r = Cardinality(Delivering)
             /\ q = Len(queue') /\ d = Len(drained') /\ l = Len(queue)
      BY <2>1, <3>3
    <3>7. d + q = l
      BY <3>3, <3>6
    <3>8. l + n + r = q + d + n + r
      BY <3>7
    <3> QED
      BY <3>1, <3>2, <3>4, <3>5, <3>6, <3>8
  <2> QED
    BY <2>3, <2>4 DEF SteeringAccounted, Ids
<1>14. SteeringInOrder'
  BY <1>7 DEF SteeringInv, SteeringSound, SteeringInOrder, FollowsUp
<1> QED
  BY <1>10, <1>11, <1>12, <1>13, <1>14 DEF SteeringInv, SteeringSound

\* The user steers: the item is the newest of all.
LEMMA SteerKeeps ==
  ASSUME SteeringInv, Steer
  PROVE  SteeringInv'
<1>1. PICK mode \in Mode : queue' = Append(queue, [id |-> accepted + 1, mode |-> mode])
  BY DEF Steer
<1>2. PICK item \in QueueItem : item = [id |-> accepted + 1, mode |-> mode]
  <2>1. accepted + 1 \in Nat \ {0}
    BY DEF SteeringInv, SteeringTypes
  <2>2. [id |-> accepted + 1, mode |-> mode] \in QueueItem
    BY <2>1 DEF QueueItem
  <2> QED
    BY <2>2
<1>3. PICK n \in Nat : n = Len(queue) /\ DOMAIN queue = 1..n
  BY DEF SteeringInv, SteeringTypes
<1>4. /\ queue' \in Seq(QueueItem) /\ Len(queue') = n + 1 /\ DOMAIN queue' = 1..n + 1
      /\ \A j \in 1..n : queue'[j] = queue[j]
      /\ queue'[n + 1] = item
  <2>1. queue \in Seq(QueueItem)
    BY DEF SteeringInv, SteeringTypes
  <2> QED
    BY <1>1, <1>2, <1>3, <2>1
<1>5. /\ accepted \in Nat /\ accepted' = accepted + 1
      /\ UNCHANGED <<transcript, removed, drained, calls, written, pc, next>>
  BY DEF Steer, loopVars, answerVars, SteeringInv, SteeringTypes
<1>6. 1..accepted = Ids(queue) \cup Ids(drained) \cup removed
                      \cup {transcript[d].item : d \in Delivering}
  BY Counts
<1>7. /\ \A j \in DOMAIN queue : queue[j].id \in 1..accepted
      /\ \A i \in DOMAIN drained : drained[i].id \in 1..accepted
      /\ \A d \in Delivering : transcript[d].item \in 1..accepted
  BY <1>6 DEF Ids
<1>8. Delivering' = Delivering
  BY <1>5 DEF Delivering
<1>9. Ids(queue') = Ids(queue) \cup {accepted + 1} /\ Ids(drained') = Ids(drained)
  <2>1. \A j \in DOMAIN queue' : queue'[j].id \in Ids(queue) \cup {accepted + 1}
    BY <1>2, <1>3, <1>4 DEF Ids
  <2>2. \A j \in DOMAIN queue : j \in DOMAIN queue' /\ queue'[j].id = queue[j].id
    BY <1>3, <1>4
  <2>3. n + 1 \in DOMAIN queue' /\ queue'[n + 1].id = accepted + 1
    BY <1>2, <1>4
  <2> QED
    BY <1>5, <2>1, <2>2, <2>3 DEF Ids
<1>10. SteeringTypes'
  <2>1. removed' \in SUBSET (1..accepted')
    BY <1>5 DEF SteeringInv, SteeringTypes
  <2> QED
    BY <1>4, <1>5, <2>1 DEF SteeringInv, SteeringTypes
<1>11. InLine'
  <2>1. \A i, j \in DOMAIN queue' : i < j => queue'[i].id < queue'[j].id
    <3> TAKE i, j \in DOMAIN queue'
    <3> SUFFICES ASSUME i < j PROVE queue'[i].id < queue'[j].id
      OBVIOUS
    <3>1. i \in 1..n /\ queue'[i] = queue[i]
      BY <1>4
    <3>2. CASE j \in 1..n
      BY <1>3, <1>4, <3>1, <3>2 DEF SteeringInv, InLine, Rising
    <3>3. CASE j = n + 1
      BY <1>2, <1>3, <1>4, <1>5, <1>7, <3>1, <3>3
    <3> QED
      BY <1>4, <3>2, <3>3
  <2>2. Rising(queue') /\ Rising(drained')
    BY <1>5, <2>1 DEF SteeringInv, InLine, Rising
  <2>3. Ids(queue') \cap removed' = {}
    <3>1. accepted + 1 \notin removed
      BY <1>5 DEF SteeringInv, SteeringTypes
    <3> QED
      BY <1>5, <1>9, <3>1 DEF SteeringInv, InLine
  <2>4. \A i, j \in DOMAIN drained' : Later(drained'[i]) = Later(drained'[j])
    BY <1>5 DEF SteeringInv, InLine, Later
  <2>5. \A i \in DOMAIN drained', j \in DOMAIN queue' :
          Later(drained'[i]) = Later(queue'[j]) => drained'[i].id < queue'[j].id
    <3> TAKE i \in DOMAIN drained', j \in DOMAIN queue'
    <3>1. CASE j \in 1..n
      BY <1>3, <1>4, <1>5, <3>1 DEF SteeringInv, InLine, Later
    <3>2. CASE j = n + 1
      BY <1>2, <1>4, <1>5, <1>7, <3>2
    <3> QED
      BY <1>4, <3>1, <3>2
  <2>6. \A d \in Delivering', i \in DOMAIN drained' :
          IsFollowUp(transcript'[d]) = Later(drained'[i]) => transcript'[d].item < drained'[i].id
    BY <1>5, <1>8 DEF SteeringInv, InLine, Later, IsFollowUp
  <2>7. \A d \in Delivering', j \in DOMAIN queue' :
          IsFollowUp(transcript'[d]) = Later(queue'[j]) => transcript'[d].item < queue'[j].id
    <3> TAKE d \in Delivering', j \in DOMAIN queue'
    <3>1. CASE j \in 1..n
      BY <1>3, <1>4, <1>5, <1>8, <3>1 DEF SteeringInv, InLine, Later, IsFollowUp
    <3>2. CASE j = n + 1
      BY <1>2, <1>4, <1>5, <1>7, <1>8, <3>2
    <3> QED
      BY <1>4, <3>1, <3>2
  <2> QED
    BY <2>2, <2>3, <2>4, <2>5, <2>6, <2>7 DEF InLine
<1>12. AtPoint'
  BY <1>5 DEF SteeringInv, AtPoint, Done, Later
<1>13. SteeringAccounted'
  <2>1. 1..accepted + 1 = (1..accepted) \cup {accepted + 1}
    BY <1>5
  <2>2. 1..accepted' = Ids(queue') \cup Ids(drained') \cup removed'
                         \cup {transcript'[d].item : d \in Delivering'}
    BY <1>5, <1>6, <1>8, <1>9, <2>1
  <2>3. PICK r \in Nat, c \in Nat, l \in Nat :
          /\ r = Cardinality(removed) /\ c = Cardinality(Delivering) /\ l = Len(drained)
          /\ accepted = n + l + r + c
    BY <1>3, Counts
  <2>4. accepted + 1 = (n + 1) + l + r + c
    BY <1>5, <2>3
  <2>5. accepted' = Len(queue') + Len(drained') + Cardinality(removed')
                      + Cardinality(Delivering')
    <3>1. /\ Cardinality(removed') = r /\ Cardinality(Delivering') = c
          /\ Len(drained') = l /\ Len(queue') = n + 1
      BY <1>4, <1>5, <1>8, <2>3
    <3> QED
      BY <1>5, <2>4, <3>1
  <2> QED
    BY <2>2, <2>5 DEF SteeringAccounted, Ids
<1>14. SteeringInOrder'
  BY <1>5, <1>8 DEF SteeringInv, SteeringSound, SteeringInOrder, FollowsUp, IsFollowUp
<1> QED
  BY <1>10, <1>11, <1>12, <1>13, <1>14 DEF SteeringInv, SteeringSound

\* The user takes an item back that is still queued.
LEMMA UnsteerKeeps ==
  ASSUME SteeringInv, Unsteer
  PROVE  SteeringInv'
<1>1. PICK i \in DOMAIN queue :
        removed' = removed \cup {queue[i].id} /\ queue' = Sifted(queue, DOMAIN queue \ {i})
  BY DEF Unsteer
<1>2. UNCHANGED <<transcript, accepted, drained, calls, written, pc, next>>
  BY DEF Unsteer, loopVars, answerVars
<1>3. /\ queue \in Seq(QueueItem) /\ Rising(queue) /\ accepted \in Nat
      /\ \A j \in DOMAIN queue : j \in Nat /\ queue[j] \in QueueItem
  BY DEF SteeringInv, SteeringTypes, InLine
<1>4. PICK rest \in SUBSET DOMAIN queue : rest = DOMAIN queue \ {i}
  OBVIOUS
<1>5. /\ queue' \in Seq(QueueItem) /\ Rising(queue') /\ Len(queue') \in Nat
      /\ Ids(queue') = {queue[j].id : j \in rest}
      /\ \A k \in DOMAIN queue' : \E j \in rest : queue'[k] = queue[j]
  <2>1. queue' = Sifted(queue, rest)
    BY <1>1, <1>4
  <2> QED
    BY <1>3, <2>1, SiftedItems
<1>6. Ids(queue) = Ids(queue') \cup {queue[i].id}
  BY <1>4, <1>5 DEF Ids
<1>7. queue[i].id \notin Ids(queue')
  <2>1. \A j \in rest : j < i \/ i < j
    BY <1>3, <1>4
  <2>2. \A j \in rest : queue[j].id # queue[i].id
    BY <1>3, <1>4, <2>1 DEF Rising, QueueItem
  <2> QED
    BY <1>5, <2>2
<1>8. Delivering' = Delivering
  BY <1>2 DEF Delivering
<1>9. 1..accepted = Ids(queue) \cup Ids(drained) \cup removed
                      \cup {transcript[d].item : d \in Delivering}
  BY Counts
<1>10. SteeringTypes'
  BY <1>1, <1>2, <1>5, <1>6, <1>9 DEF SteeringInv, SteeringTypes
<1>11. InLine'
  <2>1. Rising(drained')
    BY <1>2 DEF SteeringInv, InLine, Rising
  <2>2. Ids(queue') \cap removed' = {}
    BY <1>1, <1>6, <1>7 DEF SteeringInv, InLine
  <2>3. \A k, m \in DOMAIN drained' : Later(drained'[k]) = Later(drained'[m])
    BY <1>2 DEF SteeringInv, InLine, Later
  <2>4. \A k \in DOMAIN drained', m \in DOMAIN queue' :
          Later(drained'[k]) = Later(queue'[m]) => drained'[k].id < queue'[m].id
    BY <1>2, <1>5 DEF SteeringInv, InLine, Later
  <2>5. \A d \in Delivering', k \in DOMAIN drained' :
          IsFollowUp(transcript'[d]) = Later(drained'[k]) => transcript'[d].item < drained'[k].id
    BY <1>2, <1>8 DEF SteeringInv, InLine, Later, IsFollowUp
  <2>6. \A d \in Delivering', m \in DOMAIN queue' :
          IsFollowUp(transcript'[d]) = Later(queue'[m]) => transcript'[d].item < queue'[m].id
    BY <1>2, <1>5, <1>8 DEF SteeringInv, InLine, Later, IsFollowUp
  <2> QED
    BY <1>5, <2>1, <2>2, <2>3, <2>4, <2>5, <2>6 DEF InLine
<1>12. AtPoint'
  BY <1>2 DEF SteeringInv, AtPoint, Done, Later
<1>13. SteeringAccounted'
  <2>1. Ids(drained') = Ids(drained)
    BY <1>2 DEF Ids
  <2>2. 1..accepted' = Ids(queue') \cup Ids(drained') \cup removed'
                         \cup {transcript'[d].item : d \in Delivering'}
    BY <1>1, <1>2, <1>6, <1>8, <1>9, <2>1
  <2>3. Len(queue) = Len(queue') + 1
    <3>1. Len(Sifted(queue, {i})) = Cardinality({i})
      BY <1>3, SiftedItems
    <3>2. Cardinality({i}) = 1
      BY FS_Singleton
    <3>3. Len(Sifted(queue, {i})) + Len(Sifted(queue, DOMAIN queue \ {i})) = Len(queue)
      BY <1>3, Parted
    <3>4. Len(queue') = Len(Sifted(queue, DOMAIN queue \ {i}))
      BY <1>1
    <3>5. PICK q \in Nat : q = Len(queue')
      BY <1>5
    <3>6. Len(queue) = 1 + q
      BY <3>1, <3>2, <3>3, <3>4, <3>5
    <3> QED
      BY <3>5, <3>6
  <2>4. Cardinality(removed') = Cardinality(removed) + 1
    <3>1. queue[i].id \notin removed
      BY DEF SteeringInv, InLine, Ids
    <3> QED
      BY <1>1, <3>1, Counts, FS_AddElement
  <2>5. PICK r \in Nat, c \in Nat, l \in Nat, q \in Nat :
          /\ r = Cardinality(removed) /\ c = Cardinality(Delivering) /\ l = Len(drained)
          /\ q = Len(queue') /\ accepted = (q + 1) + l + r + c
    BY <1>5, <2>3, Counts
  <2>6. accepted = q + l + (r + 1) + c
    BY <2>5
  <2>7. accepted' = Len(queue') + Len(drained') + Cardinality(removed')
                      + Cardinality(Delivering')
    BY <1>2, <1>8, <2>4, <2>5, <2>6
  <2> QED
    BY <2>2, <2>7 DEF SteeringAccounted, Ids
<1>14. SteeringInOrder'
  BY <1>2, <1>8 DEF SteeringInv, SteeringSound, SteeringInOrder, FollowsUp, IsFollowUp
<1> QED
  BY <1>10, <1>11, <1>12, <1>13, <1>14 DEF SteeringInv, SteeringSound

\* The first of the drained items is written into the transcript.
LEMMA DeliverKeeps ==
  ASSUME SteeringInv, DeliverItem
  PROVE  SteeringInv'
<1>1. PICK item \in QueueItem, m \in Note :
        /\ item = drained[1]
        /\ m = User(item.id, IF Later(item) THEN "follow-up" ELSE "steer")
        /\ Write(m)
  <2>1. drained[1] \in QueueItem
    BY DEF DeliverItem, SteeringInv, SteeringTypes
  <2>2. User(drained[1].id, IF Later(drained[1]) THEN "follow-up" ELSE "steer") \in Note
    BY <2>1 DEF User, Note, QueueItem
  <2> QED
    BY <2>1, <2>2 DEF DeliverItem, Later
<1>2. /\ UNCHANGED <<queue, accepted, removed, calls, written, pc, next>>
      /\ pc = "deliver" /\ next # "check"
  BY DEF DeliverItem, userVars, answerVars, SteeringInv, AtPoint
<1>3. PICK n \in Nat : n = Len(transcript)
  BY DEF SteeringInv, SteeringTypes
<1>4. /\ transcript' \in Seq(Note) /\ Len(transcript') = n + 1
      /\ DOMAIN transcript = 1..n /\ DOMAIN transcript' = 1..n + 1
      /\ \A i \in 1..n : transcript'[i] = transcript[i]
      /\ transcript'[n + 1] = m
  BY <1>1, <1>3, Written DEF SteeringInv, SteeringTypes
<1>5. PICK l \in Nat : Len(drained) = l + 1 /\ DOMAIN drained = 1..l + 1
  <2>1. drained \in Seq(QueueItem) /\ drained # <<>>
    BY DEF DeliverItem, SteeringInv, SteeringTypes
  <2>2. Len(drained) \in Nat \ {0} /\ DOMAIN drained = 1..Len(drained)
    BY <2>1
  <2>3. Len(drained) - 1 \in Nat /\ Len(drained) = (Len(drained) - 1) + 1
    BY <2>2
  <2> QED
    BY <2>2, <2>3
<1>6. /\ drained' \in Seq(QueueItem) /\ Len(drained') = l /\ DOMAIN drained' = 1..l
      /\ \A i \in 1..l : drained'[i] = drained[i + 1]
  <2>1. drained \in Seq(QueueItem) /\ drained # <<>> /\ drained' = Tail(drained)
    BY DEF DeliverItem, SteeringInv, SteeringTypes
  <2> QED
    BY <1>5, <2>1
<1>7. /\ m.role = "user" /\ m.item = item.id /\ m.item \in Nat \ {0}
      /\ IsFollowUp(m) <=> Later(item)
  BY <1>1 DEF User, QueueItem, IsFollowUp
<1>8. Delivering' = Delivering \cup {n + 1} /\ n + 1 \notin Delivering
  <2>1. \A d \in 1..n : transcript'[d] = transcript[d]
    BY <1>4
  <2>2. n + 1 \in Delivering' /\ n + 1 \notin Delivering
    BY <1>3, <1>4, <1>7 DEF Delivering
  <2>3. \A d \in DOMAIN transcript' : d \in 1..n \/ d = n + 1
    BY <1>4
  <2>4. \A d \in 1..n : d \in DOMAIN transcript /\ d \in DOMAIN transcript'
    BY <1>4
  <2>5. \A d \in Delivering' : d \in Delivering \/ d = n + 1
    BY <2>1, <2>3, <2>4 DEF Delivering
  <2>6. \A d \in Delivering : d \in Delivering'
    BY <1>4, <2>1, <2>4 DEF Delivering
  <2> QED
    BY <2>2, <2>5, <2>6
<1>9. \A d \in Delivering : d \in 1..n /\ transcript'[d] = transcript[d]
  BY <1>4 DEF Delivering
<1>10. Ids(drained) = {item.id} \cup Ids(drained')
  <2>1. \A i \in DOMAIN drained : i = 1 \/ (i - 1 \in 1..l /\ drained'[i - 1] = drained[i])
    BY <1>5, <1>6
  <2>2. \A i \in DOMAIN drained : drained[i].id \in {item.id} \cup Ids(drained')
    BY <1>1, <1>6, <2>1 DEF Ids
  <2>3. 1 \in DOMAIN drained /\ \A i \in DOMAIN drained' : i + 1 \in DOMAIN drained /\ drained'[i] = drained[i + 1]
    BY <1>5, <1>6
  <2> QED
    BY <1>1, <2>2, <2>3 DEF Ids
<1>11. SteeringTypes'
  BY <1>2, <1>4, <1>6 DEF SteeringInv, SteeringTypes
<1>12. InLine'
  <2>1. Rising(queue') /\ Ids(queue') \cap removed' = {}
    BY <1>2 DEF SteeringInv, InLine, Rising, Ids
  <2>0. \A i \in DOMAIN drained' :
          i \in Nat /\ i + 1 \in DOMAIN drained /\ drained'[i] = drained[i + 1]
    BY <1>5, <1>6
  <2>2. Rising(drained')
    <3>1. \A i, j \in DOMAIN drained : i < j => drained[i].id < drained[j].id
      BY DEF SteeringInv, InLine, Rising
    <3>2. \A i, j \in DOMAIN drained' : i < j => i + 1 < j + 1
      BY <2>0
    <3> QED
      BY <2>0, <3>1, <3>2 DEF Rising
  <2>3. \A i, j \in DOMAIN drained' : Later(drained'[i]) = Later(drained'[j])
    <3>1. \A i, j \in DOMAIN drained : Later(drained[i]) = Later(drained[j])
      BY DEF SteeringInv, InLine
    <3> QED
      BY <2>0, <3>1 DEF Later
  <2>4. \A i \in DOMAIN drained', j \in DOMAIN queue' :
          Later(drained'[i]) = Later(queue'[j]) => drained'[i].id < queue'[j].id
    BY <1>2, <1>5, <1>6 DEF SteeringInv, InLine, Later
  <2>5. \A d \in Delivering', i \in DOMAIN drained' :
          IsFollowUp(transcript'[d]) = Later(drained'[i]) => transcript'[d].item < drained'[i].id
    <3> TAKE d \in Delivering', i \in DOMAIN drained'
    <3>1. i + 1 \in DOMAIN drained /\ drained'[i] = drained[i + 1] /\ 1 \in DOMAIN drained /\ 1 < i + 1
      BY <1>5, <1>6
    <3>2. CASE d \in Delivering
      BY <1>9, <3>1, <3>2 DEF SteeringInv, InLine, Later, IsFollowUp
    <3>3. CASE d = n + 1
      BY <1>1, <1>4, <1>7, <3>1, <3>3 DEF SteeringInv, InLine, Rising
    <3> QED
      BY <1>8, <3>2, <3>3
  <2>6. \A d \in Delivering', j \in DOMAIN queue' :
          IsFollowUp(transcript'[d]) = Later(queue'[j]) => transcript'[d].item < queue'[j].id
    <3> TAKE d \in Delivering', j \in DOMAIN queue'
    <3>1. CASE d \in Delivering
      BY <1>2, <1>9, <3>1 DEF SteeringInv, InLine, Later, IsFollowUp
    <3>2. CASE d = n + 1
      <4>1. 1 \in DOMAIN drained
        BY <1>5
      <4> QED
        BY <1>1, <1>2, <1>4, <1>7, <3>2, <4>1 DEF SteeringInv, InLine, Later
    <3> QED
      BY <1>8, <3>1, <3>2
  <2> QED
    BY <2>1, <2>2, <2>3, <2>4, <2>5, <2>6 DEF InLine
<1>13. AtPoint'
  <2>1. \A i \in DOMAIN drained' : Later(drained'[i]) => Later(item)
    BY <1>1, <1>5, <1>6 DEF SteeringInv, InLine, Later
  <2>2. transcript' # <<>>
    BY <1>3, <1>4
  <2>3. \A i \in DOMAIN drained' : Later(drained'[i]) => Done'
    BY <1>4, <1>7, <2>1, <2>2 DEF Done
  <2> QED
    BY <1>2, <2>3 DEF AtPoint
<1>14. SteeringAccounted'
  <2>1. {transcript'[d].item : d \in Delivering'}
          = {transcript[d].item : d \in Delivering} \cup {item.id}
    <3>1. {transcript'[d].item : d \in Delivering} = {transcript[d].item : d \in Delivering}
      BY <1>9
    <3>2. transcript'[n + 1].item = item.id
      BY <1>4, <1>7
    <3> QED
      BY <1>8, <3>1, <3>2
  <2>2. Ids(queue') = Ids(queue)
    BY <1>2 DEF Ids
  <2>3. 1..accepted' = Ids(queue') \cup Ids(drained') \cup removed'
                         \cup {transcript'[d].item : d \in Delivering'}
    BY <1>2, <1>10, <2>1, <2>2, Counts
  <2>4. PICK r \in Nat, c \in Nat, q \in Nat :
          /\ r = Cardinality(removed) /\ c = Cardinality(Delivering) /\ q = Len(queue)
          /\ accepted = q + (l + 1) + r + c
    BY <1>5, Counts
  <2>5. Cardinality(Delivering') = c + 1
    BY <1>8, <2>4, Counts, FS_AddElement
  <2>6. accepted = q + l + r + (c + 1)
    BY <2>4
  <2>7. accepted' = Len(queue') + Len(drained') + Cardinality(removed')
                      + Cardinality(Delivering')
    BY <1>2, <1>6, <2>4, <2>5, <2>6
  <2> QED
    BY <2>3, <2>7 DEF SteeringAccounted, Ids
<1>15. SteeringInOrder'
  <2>1. ASSUME NEW i \in Delivering', NEW j \in Delivering', i < j,
               IsFollowUp(transcript'[i]) = IsFollowUp(transcript'[j])
        PROVE  transcript'[i].item < transcript'[j].item
    <3>1. i \in Delivering
      BY <1>4, <1>8, <2>1 DEF Delivering
    <3>2. CASE j \in Delivering
      BY <1>9, <2>1, <3>1, <3>2 DEF SteeringInv, SteeringSound, SteeringInOrder
    <3>3. CASE j = n + 1
      <4>1. 1 \in DOMAIN drained
        BY <1>5
      <4>2. IsFollowUp(transcript[i]) = Later(drained[1]) => transcript[i].item < drained[1].id
        BY <3>1, <4>1 DEF SteeringInv, InLine
      <4>3. IsFollowUp(transcript[i]) <=> Later(item)
        BY <1>4, <1>7, <1>9, <2>1, <3>1, <3>3 DEF IsFollowUp
      <4> QED
        BY <1>1, <1>4, <1>7, <1>9, <3>1, <3>3, <4>2, <4>3 DEF IsFollowUp, Later
    <3> QED
      BY <1>8, <3>2, <3>3
  <2>2. ASSUME NEW i \in DOMAIN transcript', IsFollowUp(transcript'[i])
        PROVE  FollowsUp(i)'
    <3>1. CASE i \in 1..n
      <4>1. i > 1 /\ (transcript[i - 1] = Assistant(0) \/ IsFollowUp(transcript[i - 1]))
        BY <1>4, <2>2, <3>1 DEF SteeringInv, SteeringSound, SteeringInOrder, FollowsUp
      <4>2. transcript'[i - 1] = transcript[i - 1]
        BY <1>4, <3>1, <4>1
      <4> QED
        BY <4>1, <4>2 DEF FollowsUp
    <3>2. CASE i = n + 1
      <4>1. 1 \in DOMAIN drained /\ Later(drained[1])
        BY <1>1, <1>4, <1>5, <1>7, <2>2, <3>2
      <4>2. Done
        BY <4>1 DEF SteeringInv, AtPoint
      <4>3. n > 0 /\ transcript'[n] = transcript[n]
        BY <1>3, <1>4, <4>2 DEF Done, SteeringInv, SteeringTypes
      <4>4. i > 1 /\ i - 1 = n
        BY <3>2, <4>3
      <4> QED
        BY <1>3, <4>2, <4>3, <4>4 DEF FollowsUp, Done
    <3> QED
      BY <1>4, <3>1, <3>2
  <2> QED
    BY <2>1, <2>2 DEF SteeringInOrder
<1> QED
  BY <1>11, <1>12, <1>13, <1>14, <1>15 DEF SteeringInv, SteeringSound

\* Every step keeps the steering accounted for and in line.
LEMMA SteeringStep == SteeringInv /\ [Next]_vars => SteeringInv'
<1> SUFFICES ASSUME SteeringInv, [Next]_vars PROVE SteeringInv'
  OBVIOUS
<1>1. /\ calls \in Nat /\ written \in Nat /\ accepted \in Nat
      /\ drained # <<>> => pc = "deliver"
      /\ next # "check"
  BY DEF SteeringInv, SteeringTypes, AtPoint
<1>2. Prompt \in Note /\ NotSteered(Prompt)
  BY DEF Note, NotSteered, Prompt, User
<1>3. \A n \in Nat : Assistant(n) \in Note /\ NotSteered(Assistant(n))
  BY DEF Note, NotSteered, Assistant
<1>4. \A n \in Nat : Result(n) \in Note /\ NotSteered(Result(n))
  BY DEF Note, NotSteered, Result
<1>5. CASE UNCHANGED vars
  BY <1>1, <1>5, QuietKeeps DEF vars
<1>6. CASE Steer
  BY <1>6, SteerKeeps
<1>7. CASE Unsteer
  BY <1>7, UnsteerKeeps
<1>8. CASE DeliverItem
  BY <1>8, DeliverKeeps
<1>9. CASE Submit
  BY <1>1, <1>9, QuietKeeps DEF Submit, loopVars, userVars, answerVars
<1>10. CASE RunTool
  BY <1>1, <1>10, QuietKeeps DEF RunTool, loopVars, userVars, answerVars
<1>11. CASE Abort
  BY <1>1, <1>11, QuietKeeps DEF Abort, loopVars, userVars, answerVars
<1>12. CASE LeaveLoop
  BY <1>1, <1>12, QuietKeeps DEF LeaveLoop, loopVars, userVars, answerVars
<1>13. CASE Delivered
  BY <1>1, <1>13, QuietKeeps DEF Delivered, loopVars, userVars, answerVars, NextRound
<1>14. CASE Compact
  BY <1>1, <1>14, QuietKeeps DEF Compact, loopVars, userVars, answerVars
<1>15. CASE CallModel
  BY <1>1, <1>15, QuietKeeps DEF CallModel, loopVars, userVars, answerVars
<1>16. CASE ModelFails
  BY <1>1, <1>16, QuietKeeps DEF ModelFails, loopVars, userVars, answerVars, Leave
<1>17. CASE NothingLeft
  BY <1>1, <1>17, QuietKeeps DEF NothingLeft, loopVars, userVars, answerVars
<1>18. CASE SteeringLeft
  BY <1>1, <1>18, QuietKeeps DEF SteeringLeft, loopVars, userVars, answerVars, NextRound
<1>19. CASE HandleCalls
  BY <1>1, <1>19, QuietKeeps DEF HandleCalls, loopVars, userVars, answerVars
<1>20. CASE Execute
  BY <1>1, <1>20, QuietKeeps DEF Execute, loopVars, userVars, answerVars
<1>21. CASE ExecuteFails
  BY <1>1, <1>21, QuietKeeps DEF ExecuteFails, loopVars, userVars, answerVars, Leave
<1>22. CASE Finish
  BY <1>1, <1>22, QuietKeeps DEF Finish, loopVars, userVars, answerVars, Leave
<1>23. CASE StartRound
  BY <1>1, <1>23, TakeKeeps DEF StartRound, userVars, answerVars
<1>24. CASE DropResponse
  BY <1>1, <1>24, TakeKeeps DEF DropResponse, userVars, answerVars
<1>25. CASE FollowUp
  <2>1. Done
    BY <1>25 DEF FollowUp, SteeringInv, AtPoint, Done
  <2> QED
    BY <1>1, <1>25, <2>1, TakeKeeps DEF FollowUp, userVars, answerVars
<1>26. CASE WritePrompt
  BY <1>1, <1>2, <1>26, WriteKeeps DEF WritePrompt, loopVars, userVars, answerVars
<1>27. CASE WriteUserTool
  BY <1>1, <1>2, <1>27, WriteKeeps DEF WriteUserTool, loopVars, userVars, answerVars
<1>28. CASE WriteUserCall
  BY <1>1, <1>3, <1>28, WriteKeeps DEF WriteUserCall, loopVars, userVars, answerVars
<1>29. CASE Close
  BY <1>1, <1>3, <1>29, WriteKeeps DEF Close, loopVars, userVars, answerVars
<1>30. CASE WriteUserResult
  BY <1>1, <1>4, <1>30, WriteKeeps DEF WriteUserResult, Leave, userVars
<1>31. CASE Respond
  BY <1>1, <1>3, <1>31, WriteKeeps DEF Respond, userVars
<1>32. CASE RejectCall
  BY <1>1, <1>4, <1>32, WriteKeeps DEF RejectCall, NextRound, userVars, answerVars
<1>33. CASE RecordResult
  BY <1>1, <1>4, <1>33, WriteKeeps DEF RecordResult, NextRound, userVars, answerVars
<1> QED
  BY <1>5, <1>6, <1>7, <1>8, <1>9, <1>10, <1>11, <1>12, <1>13, <1>14, <1>15, <1>16, <1>17, <1>18, <1>19, <1>20, <1>21, <1>22, <1>23, <1>24, <1>25, <1>26, <1>27, <1>28, <1>29, <1>30, <1>31, <1>32, <1>33
     DEF Next, Proceed

\* Nothing the user steers with is lost, doubled or delivered out of its turn
\* (steering.ts:32-47, agent.ts:489-512, 542-549), for any limits.
THEOREM SteeringIsSound == Spec => []SteeringSound
<1>1. SteeringInv => SteeringSound
  BY DEF SteeringInv
<1> QED
  BY <1>1, SteeringInitially, SteeringStep, PTL DEF Spec

-----------------------------------------------------------------------------
(* What the model is sent has no holes                                     *)

\* A transcript without holes: the results of a message's calls follow it in their
\* order, and there are no others.
Whole(s) ==
  /\ \A i \in DOMAIN s : s[i].role = "assistant" =>
       \A k \in 1..s[i].calls : i + k \in DOMAIN s /\ s[i + k] = Result(k)
  /\ \A i \in DOMAIN s : s[i].role = "tool" =>
       LET by == i - s[i].call
       IN  by \in 1..i - 1 /\ s[by].role = "assistant" /\ s[i].call <= s[by].calls

\* The last response's calls are being answered, `Asked' of them, by the message at `Asker'.
Answering == pc \in {"check", "execute", "reject", "record", "userResult"}
Asked == IF pc = "userResult" THEN 1 ELSE calls
Asker == Len(transcript) - written

\* Only the results of the last response may be missing, those that are to come.
OnlyLastIsOpen ==
  /\ \A i \in DOMAIN transcript : transcript[i].role = "assistant" =>
       \A k \in 1..transcript[i].calls :
         \/ i + k \in DOMAIN transcript /\ transcript[i + k] = Result(k)
         \/ Answering /\ i = Asker /\ k > written
  /\ \A i \in DOMAIN transcript : transcript[i].role = "tool" =>
       LET by == i - transcript[i].call
       IN  /\ by \in 1..i - 1 /\ transcript[by].role = "assistant"
           /\ transcript[i].call <= transcript[by].calls
  /\ Answering => Asker \in DOMAIN transcript /\ transcript[Asker] = Assistant(Asked)

\* Where the turn is says how many results are written.
AnswersDue ==
  /\ pc \in {"execute", "reject", "record"} => written < calls
  /\ pc \notin {"reject", "record", "close", "finish"} => written = 0
  /\ next \in {"idle", "compact", "top"}

\* A compaction does not part results from their call.
CutApart ==
  /\ cut \in Nat /\ cut <= Len(transcript)
  /\ cut = 0 \/ (cut < Len(transcript) /\ transcript[cut + 1].role # "tool")

PairedInv == (threw \/ OnlyLastIsOpen) /\ AnswersDue /\ CutApart

\* An empty transcript has no holes.
LEMMA PairedInitially == Init => PairedInv
<1> SUFFICES ASSUME Init PROVE PairedInv
  OBVIOUS
<1>1. /\ transcript = <<>> /\ DOMAIN transcript = {} /\ Len(transcript) = 0
      /\ pc = "idle" /\ next = "idle" /\ written = 0 /\ cut = 0
  BY DEF Init
<1> QED
  BY <1>1 DEF PairedInv, OnlyLastIsOpen, Answering, AnswersDue, CutApart

\* A step that leaves the transcript alone.
LEMMA QuietPairs ==
  ASSUME SteeringInv, PairedInv, UNCHANGED <<transcript, cut>>, threw => threw',
         \/ threw'
         \/ Answering /\ Answering' /\ Asked' = Asked /\ written' = written
         \/ ~Answering /\ ~Answering'
         \/ Answering /\ Asked = 0 /\ ~Answering'
  PROVE  (threw' \/ OnlyLastIsOpen') /\ CutApart'
<1>1. CutApart'
  BY DEF PairedInv, CutApart
<1>2. CASE threw'
  BY <1>1, <1>2
<1>3. CASE ~threw' /\ Answering /\ Answering' /\ Asked' = Asked /\ written' = written
  BY <1>1, <1>3 DEF PairedInv, OnlyLastIsOpen, Asker
<1>4. CASE ~threw' /\ ~Answering /\ ~Answering'
  BY <1>1, <1>4 DEF PairedInv, OnlyLastIsOpen
<1>5. CASE ~threw' /\ Answering /\ Asked = 0 /\ ~Answering'
  <2>1. transcript[Asker] = Assistant(0) /\ OnlyLastIsOpen
    BY <1>5 DEF PairedInv, OnlyLastIsOpen
  <2>2. transcript[Asker].calls = 0
    BY <2>1 DEF Assistant
  <2>3. \A i \in DOMAIN transcript : transcript[i].role = "assistant" =>
          \A k \in 1..transcript[i].calls :
            i + k \in DOMAIN transcript /\ transcript[i + k] = Result(k)
    BY <2>1, <2>2 DEF OnlyLastIsOpen
  <2> QED
    BY <1>1, <1>5, <2>1, <2>3 DEF OnlyLastIsOpen
<1> QED
  BY <1>2, <1>3, <1>4, <1>5

\* A message is written while no calls are being answered.
LEMMA WritePairs ==
  ASSUME SteeringInv, PairedInv, ~Answering, UNCHANGED <<cut, threw>>,
         NEW m \in Note, Write(m), m.role # "tool", written' \in Nat,
         IF Answering' THEN m = Assistant(Asked') /\ written' = 0
         ELSE m.role = "assistant" => m.calls = 0
  PROVE  (threw' \/ OnlyLastIsOpen') /\ CutApart'
<1>1. PICK n \in Nat : n = Len(transcript)
  BY DEF SteeringInv, SteeringTypes
<1>2. /\ transcript' \in Seq(Note) /\ Len(transcript') = n + 1
      /\ DOMAIN transcript = 1..n /\ DOMAIN transcript' = 1..n + 1
      /\ \A i \in 1..n : transcript'[i] = transcript[i]
      /\ transcript'[n + 1] = m
  BY <1>1, Written DEF SteeringInv, SteeringTypes
<1>3. CutApart'
  <2>1. cut \in Nat /\ cut <= n /\ (cut = 0 \/ (cut < n /\ transcript[cut + 1].role # "tool"))
    BY <1>1 DEF PairedInv, CutApart
  <2>2. cut < n => transcript'[cut + 1] = transcript[cut + 1]
    BY <1>2, <2>1
  <2> QED
    BY <1>2, <2>1, <2>2 DEF CutApart
<1>4. CASE threw
  BY <1>3, <1>4
<1>5. CASE ~threw
  <2>1. OnlyLastIsOpen
    BY <1>5 DEF PairedInv
  <2>2. ASSUME NEW i \in DOMAIN transcript', transcript'[i].role = "assistant",
               NEW k \in 1..transcript'[i].calls
        PROVE  \/ i + k \in DOMAIN transcript' /\ transcript'[i + k] = Result(k)
               \/ Answering' /\ i = Asker' /\ k > written'
    <3>1. CASE i \in 1..n
      <4>1. i + k \in DOMAIN transcript /\ transcript[i + k] = Result(k)
        BY <1>2, <2>1, <2>2, <3>1 DEF OnlyLastIsOpen
      <4> QED
        BY <1>2, <4>1
    <3>2. CASE i = n + 1
      <4>1. m.calls \in Nat /\ m.calls # 0
        BY <1>2, <2>2, <3>2 DEF Note
      <4>2. Answering' /\ written' = 0
        BY <1>2, <2>2, <3>2, <4>1
      <4> QED
        BY <1>2, <2>2, <3>2, <4>2 DEF Asker
    <3> QED
      BY <1>2, <3>1, <3>2
  <2>3. ASSUME NEW i \in DOMAIN transcript', transcript'[i].role = "tool"
        PROVE  LET by == i - transcript'[i].call
               IN  /\ by \in 1..i - 1 /\ transcript'[by].role = "assistant"
                   /\ transcript'[i].call <= transcript'[by].calls
    <3>1. i \in 1..n /\ transcript'[i] = transcript[i]
      BY <1>2, <2>3
    <3>2. PICK by : by = i - transcript[i].call
      OBVIOUS
    <3>3. /\ by \in 1..i - 1 /\ transcript[by].role = "assistant"
          /\ transcript[i].call <= transcript[by].calls
      BY <1>2, <2>1, <2>3, <3>1, <3>2 DEF OnlyLastIsOpen
    <3>4. transcript'[by] = transcript[by]
      BY <1>2, <3>1, <3>3
    <3> QED
      BY <3>1, <3>2, <3>3, <3>4
  <2>4. Answering' => Asker' \in DOMAIN transcript' /\ transcript'[Asker'] = Assistant(Asked')
    <3>1. Answering' => Asker' = n + 1
      BY <1>2 DEF Asker
    <3> QED
      BY <1>2, <3>1
  <2> QED
    BY <1>3, <2>2, <2>3, <2>4 DEF OnlyLastIsOpen
<1> QED
  BY <1>4, <1>5

\* The next result is written, the last or not.
LEMMA ResultPairs ==
  ASSUME SteeringInv, PairedInv, Answering, written < Asked, Asked \in Nat,
         UNCHANGED <<cut, threw>>, Write(Result(written + 1)), written' \in Nat,
         \/ Answering' /\ Asked' = Asked /\ written' = written + 1
         \/ ~Answering' /\ written + 1 = Asked
  PROVE  (threw' \/ OnlyLastIsOpen') /\ CutApart'
<1>0. written \in Nat
  BY DEF SteeringInv, SteeringTypes
<1>1. PICK n \in Nat : n = Len(transcript)
  BY DEF SteeringInv, SteeringTypes
<1>2. PICK m \in Note : m = Result(written + 1) /\ m.role = "tool" /\ m.call = written + 1
  <2>1. Result(written + 1) \in Note
    BY <1>0 DEF Note, Result
  <2> QED
    BY <2>1 DEF Result
<1>3. /\ transcript' \in Seq(Note) /\ Len(transcript') = n + 1
      /\ DOMAIN transcript = 1..n /\ DOMAIN transcript' = 1..n + 1
      /\ \A i \in 1..n : transcript'[i] = transcript[i]
      /\ transcript'[n + 1] = m
  BY <1>1, <1>2, Written DEF SteeringInv, SteeringTypes
<1>4. CutApart'
  <2>1. cut \in Nat /\ cut <= n /\ (cut = 0 \/ (cut < n /\ transcript[cut + 1].role # "tool"))
    BY <1>1 DEF PairedInv, CutApart
  <2>2. cut < n => transcript'[cut + 1] = transcript[cut + 1]
    BY <1>3, <2>1
  <2> QED
    BY <1>3, <2>1, <2>2 DEF CutApart
<1>5. CASE threw
  BY <1>4, <1>5
<1>6. CASE ~threw
  <2>1. OnlyLastIsOpen
    BY <1>6 DEF PairedInv
  <2>2. PICK a \in 1..n : a = Asker /\ a + written = n /\ transcript[a] = Assistant(Asked)
    BY <1>0, <1>1, <1>3, <2>1 DEF OnlyLastIsOpen, Asker
  <2>3. transcript'[a] = transcript[a] /\ transcript[a].role = "assistant" /\ transcript[a].calls = Asked
    BY <1>3, <2>2 DEF Assistant
  <2>4. ASSUME NEW i \in DOMAIN transcript', transcript'[i].role = "assistant",
               NEW k \in 1..transcript'[i].calls
        PROVE  \/ i + k \in DOMAIN transcript' /\ transcript'[i + k] = Result(k)
               \/ Answering' /\ i = Asker' /\ k > written'
    <3>1. i \in 1..n /\ transcript'[i] = transcript[i]
      BY <1>2, <1>3, <2>4
    <3>2. \/ i + k \in 1..n /\ transcript[i + k] = Result(k)
          \/ i = a /\ k > written
      BY <1>3, <2>1, <2>2, <2>4, <3>1 DEF OnlyLastIsOpen
    <3>3. CASE i + k \in 1..n /\ transcript[i + k] = Result(k)
      BY <1>3, <3>3
    <3>4. CASE i = a /\ k = written + 1
      BY <1>0, <1>2, <1>3, <2>2, <3>4
    <3>5. CASE i = a /\ k > written /\ k # written + 1
      <4>1. k \in 1..Asked /\ k > written + 1
        BY <1>0, <2>3, <2>4, <3>1, <3>5
      <4>2. Answering' /\ written' = written + 1
        BY <1>0, <4>1
      <4>3. Asker' = a
        BY <1>0, <1>3, <2>2, <4>2 DEF Asker
      <4> QED
        BY <3>5, <4>1, <4>2, <4>3
    <3> QED
      BY <3>2, <3>3, <3>4, <3>5
  <2>5. ASSUME NEW i \in DOMAIN transcript', transcript'[i].role = "tool"
        PROVE  LET by == i - transcript'[i].call
               IN  /\ by \in 1..i - 1 /\ transcript'[by].role = "assistant"
                   /\ transcript'[i].call <= transcript'[by].calls
    <3>1. CASE i \in 1..n
      <4>1. transcript'[i] = transcript[i]
        BY <1>3, <3>1
      <4>2. PICK by : by = i - transcript[i].call
        OBVIOUS
      <4>3. /\ by \in 1..i - 1 /\ transcript[by].role = "assistant"
            /\ transcript[i].call <= transcript[by].calls
        BY <1>3, <2>1, <2>5, <3>1, <4>1, <4>2 DEF OnlyLastIsOpen
      <4>4. transcript'[by] = transcript[by]
        BY <1>3, <3>1, <4>3
      <4> QED
        BY <4>1, <4>2, <4>3, <4>4
    <3>2. CASE i = n + 1
      <4>1. transcript'[i].call = written + 1 /\ i - (written + 1) = a /\ a \in 1..i - 1
        BY <1>0, <1>2, <1>3, <2>2, <3>2
      <4> QED
        BY <1>0, <2>3, <4>1
    <3> QED
      BY <1>3, <3>1, <3>2
  <2>6. Answering' => Asker' \in DOMAIN transcript' /\ transcript'[Asker'] = Assistant(Asked')
    <3>1. Answering' => Asker' = a
      BY <1>0, <1>3, <2>2 DEF Asker
    <3> QED
      BY <1>3, <2>2, <2>3, <3>1
  <2> QED
    BY <1>4, <2>4, <2>5, <2>6 DEF OnlyLastIsOpen
<1> QED
  BY <1>5, <1>6


\* A set of numbers up to some has a greatest one.
LEMMA GreatestUpTo ==
  ASSUME NEW n \in Nat, NEW T, T \subseteq 0..n, T # {}
  PROVE  \E x \in T : \A y \in T : x >= y
<1> DEFINE R == OpToRel(<, Nat)
           U == {n - x : x \in T}
<1>1. \A x \in T : x \in Nat /\ n - x \in Nat
  OBVIOUS
<1>2. U \subseteq Nat /\ U # {}
  BY <1>1
<1>3. IsWellFoundedOn(R, Nat)
  BY NatLessThanWellFounded
<1>4. \A x, y \in Nat : y < x => <<y, x>> \in R
  BY DEF OpToRel
<1> HIDE DEF R
<1>5. PICK u \in U : \A v \in U : ~(<<v, u>> \in R)
  <2> HIDE DEF U
  <2> QED
    BY <1>2, <1>3, WFMin
<1>6. PICK x \in T : u = n - x
  OBVIOUS
<1>7. \A y \in T : ~(n - y < n - x)
  BY <1>1, <1>4, <1>5, <1>6
<1>8. \A y \in T : x >= y
  BY <1>1, <1>7
<1> QED
  BY <1>8

\* A split is moved to the start, or to a message that answers no call.
LEMMA SplitApart ==
  ASSUME NEW split \in Nat
  PROVE  /\ Split(split) \in 0..split
         /\ Split(split) = 0 \/ transcript[Split(split) + 1].role # "tool"
<1>1. PICK T : T = {s \in 0..split : s = 0 \/ transcript[s + 1].role # "tool"}
  OBVIOUS
<1>2. T \subseteq 0..split /\ T # {}
  BY <1>1
<1>3. \E x \in T : \A y \in T : x >= y
  BY <1>2, GreatestUpTo
<1>4. Split(split) = CHOOSE x \in T : \A y \in T : x >= y
  BY <1>1 DEF Split, Max
<1>5. Split(split) \in T
  BY <1>3, <1>4
<1> QED
  BY <1>1, <1>5

\* A compaction cuts before a message that is no result.
LEMMA CompactPairs ==
  ASSUME SteeringInv, PairedInv, Compact
  PROVE  (threw' \/ OnlyLastIsOpen') /\ CutApart'
<1>1. PICK n \in Nat : n = Len(transcript)
  BY DEF SteeringInv, SteeringTypes
<1>2. PICK split \in 1..n - 1 : Split(split) > 0 /\ cut' = Split(split)
  BY <1>1 DEF Compact
<1>3. split \in Nat /\ split < n
  BY <1>2
<1>4. cut' \in 0..split /\ transcript[cut' + 1].role # "tool"
  BY <1>2, <1>3, SplitApart
<1>5. UNCHANGED <<transcript, threw, calls, written>> /\ pc = "compact" /\ pc' = "complete"
  BY DEF Compact, loopVars, answerVars
<1>6. CutApart'
  <2>1. cut' \in Nat /\ cut' < n /\ cut' <= n
    BY <1>3, <1>4
  <2>2. Len(transcript') = n /\ transcript'[cut' + 1].role # "tool"
    BY <1>1, <1>4, <1>5
  <2> QED
    BY <2>1, <2>2 DEF CutApart
<1>7. threw \/ OnlyLastIsOpen'
  BY <1>5 DEF PairedInv, OnlyLastIsOpen, Answering
<1> QED
  BY <1>5, <1>6, <1>7

\* Results are due while calls are answered, and at no other point of the turn.
LEMMA DueStep == SteeringInv /\ PairedInv /\ [Next]_vars => AnswersDue'
<1> SUFFICES ASSUME SteeringInv, PairedInv, [Next]_vars PROVE AnswersDue'
  OBVIOUS
<1>1. AnswersDue /\ calls \in Nat /\ written \in Nat
  BY DEF PairedInv, SteeringInv, SteeringTypes
<1> USE <1>1 DEF AnswersDue
<1>2. CASE UNCHANGED vars
  BY <1>2 DEF vars
<1>3. CASE Submit
  BY <1>3 DEF Submit, loopVars, userVars, answerVars
<1>4. CASE RunTool
  BY <1>4 DEF RunTool, loopVars, userVars, answerVars
<1>5. CASE Steer
  BY <1>5 DEF Steer, loopVars, userVars, answerVars
<1>6. CASE Unsteer
  BY <1>6 DEF Unsteer, loopVars, userVars, answerVars
<1>7. CASE Abort
  BY <1>7 DEF Abort, loopVars, userVars, answerVars
<1>8. CASE WritePrompt
  BY <1>8 DEF WritePrompt, loopVars, userVars, answerVars
<1>9. CASE LeaveLoop
  BY <1>9 DEF LeaveLoop, loopVars, userVars, answerVars
<1>10. CASE StartRound
  BY <1>10 DEF StartRound, loopVars, userVars, answerVars
<1>11. CASE DeliverItem
  BY <1>11 DEF DeliverItem, loopVars, userVars, answerVars
<1>12. CASE Delivered
  BY <1>12 DEF Delivered, loopVars, userVars, answerVars, NextRound
<1>13. CASE Compact
  BY <1>13 DEF Compact, loopVars, userVars, answerVars
<1>14. CASE CallModel
  BY <1>14 DEF CallModel, loopVars, userVars, answerVars
<1>15. CASE DropResponse
  BY <1>15 DEF DropResponse, loopVars, userVars, answerVars
<1>16. CASE Respond
  BY <1>16 DEF Respond, loopVars, userVars, answerVars
<1>17. CASE ModelFails
  BY <1>17 DEF ModelFails, loopVars, userVars, answerVars, Leave
<1>18. CASE NothingLeft
  BY <1>18 DEF NothingLeft, loopVars, userVars, answerVars
<1>19. CASE FollowUp
  BY <1>19 DEF FollowUp, loopVars, userVars, answerVars
<1>20. CASE SteeringLeft
  BY <1>20 DEF SteeringLeft, loopVars, userVars, answerVars, NextRound
<1>21. CASE HandleCalls
  BY <1>21 DEF HandleCalls, loopVars, userVars, answerVars
<1>22. CASE RejectCall
  BY <1>22 DEF RejectCall, loopVars, userVars, answerVars, NextRound
<1>23. CASE Execute
  BY <1>23 DEF Execute, loopVars, userVars, answerVars
<1>24. CASE ExecuteFails
  BY <1>24 DEF ExecuteFails, loopVars, userVars, answerVars, Leave
<1>25. CASE RecordResult
  BY <1>25 DEF RecordResult, loopVars, userVars, answerVars, NextRound
<1>26. CASE Close
  BY <1>26 DEF Close, loopVars, userVars, answerVars
<1>27. CASE Finish
  BY <1>27 DEF Finish, loopVars, userVars, answerVars, Leave
<1>28. CASE WriteUserTool
  BY <1>28 DEF WriteUserTool, loopVars, userVars, answerVars
<1>29. CASE WriteUserCall
  BY <1>29 DEF WriteUserCall, loopVars, userVars, answerVars
<1>30. CASE WriteUserResult
  BY <1>30 DEF WriteUserResult, loopVars, userVars, answerVars, Leave
<1> QED
  BY <1>2, <1>3, <1>4, <1>5, <1>6, <1>7, <1>8, <1>9, <1>10, <1>11, <1>12, <1>13, <1>14,
     <1>15, <1>16, <1>17, <1>18, <1>19, <1>20, <1>21, <1>22, <1>23, <1>24, <1>25,
     <1>26, <1>27, <1>28, <1>29, <1>30 DEF Next, Proceed

\* Every step keeps the transcript without holes, up to the calls being answered.
LEMMA PairedStep == SteeringInv /\ PairedInv /\ [Next]_vars => PairedInv'
<1> SUFFICES ASSUME SteeringInv, PairedInv, [Next]_vars
             PROVE  (threw' \/ OnlyLastIsOpen') /\ CutApart'
  BY DueStep DEF PairedInv
<1>1. /\ calls \in Nat /\ written \in Nat /\ AnswersDue
      /\ Prompt \in Note /\ Prompt.role = "user"
      /\ \A k \in Nat : /\ Assistant(k) \in Note /\ Assistant(k).role = "assistant"
                        /\ Assistant(k).calls = k
  BY DEF PairedInv, SteeringInv, SteeringTypes, Note, Prompt, User, Assistant
<1>2. CASE UNCHANGED vars
  BY <1>2, QuietPairs DEF vars, Answering, Asked
<1>3. CASE Submit
  BY <1>1, <1>3, QuietPairs DEF Submit, loopVars, userVars, answerVars, Answering, Asked, AnswersDue
<1>4. CASE RunTool
  BY <1>1, <1>4, QuietPairs DEF RunTool, loopVars, userVars, answerVars, Answering, Asked, AnswersDue
<1>5. CASE Steer
  BY <1>1, <1>5, QuietPairs DEF Steer, loopVars, userVars, answerVars, Answering, Asked, AnswersDue
<1>6. CASE Unsteer
  BY <1>1, <1>6, QuietPairs DEF Unsteer, loopVars, userVars, answerVars, Answering, Asked, AnswersDue
<1>7. CASE Abort
  BY <1>1, <1>7, QuietPairs DEF Abort, loopVars, userVars, answerVars, Answering, Asked, AnswersDue
<1>8. CASE LeaveLoop
  BY <1>1, <1>8, QuietPairs DEF LeaveLoop, loopVars, userVars, answerVars, Answering, Asked, AnswersDue
<1>9. CASE StartRound
  BY <1>1, <1>9, QuietPairs DEF StartRound, loopVars, userVars, answerVars, Answering, Asked, AnswersDue
<1>10. CASE Delivered
  BY <1>1, <1>10, QuietPairs DEF Delivered, loopVars, userVars, answerVars, Answering, Asked, NextRound, AnswersDue
<1>11. CASE CallModel
  BY <1>1, <1>11, QuietPairs DEF CallModel, loopVars, userVars, answerVars, Answering, Asked, AnswersDue
<1>12. CASE DropResponse
  BY <1>1, <1>12, QuietPairs DEF DropResponse, loopVars, userVars, answerVars, Answering, Asked, AnswersDue
<1>13. CASE ModelFails
  BY <1>1, <1>13, QuietPairs DEF ModelFails, loopVars, userVars, answerVars, Answering, Asked, Leave, AnswersDue
<1>14. CASE NothingLeft
  BY <1>1, <1>14, QuietPairs DEF NothingLeft, loopVars, userVars, answerVars, Answering, Asked, AnswersDue
<1>15. CASE FollowUp
  BY <1>1, <1>15, QuietPairs DEF FollowUp, loopVars, userVars, answerVars, Answering, Asked, AnswersDue
<1>16. CASE SteeringLeft
  BY <1>1, <1>16, QuietPairs DEF SteeringLeft, loopVars, userVars, answerVars, Answering, Asked, NextRound, AnswersDue
<1>17. CASE HandleCalls
  BY <1>1, <1>17, QuietPairs DEF HandleCalls, loopVars, userVars, answerVars, Answering, Asked, AnswersDue
<1>18. CASE Execute
  BY <1>1, <1>18, QuietPairs DEF Execute, loopVars, userVars, answerVars, Answering, Asked, AnswersDue
<1>19. CASE ExecuteFails
  BY <1>1, <1>19, QuietPairs DEF ExecuteFails, loopVars, userVars, answerVars, Answering, Asked, Leave, AnswersDue
<1>20. CASE Finish
  BY <1>1, <1>20, QuietPairs DEF Finish, loopVars, userVars, answerVars, Answering, Asked, Leave, AnswersDue
<1>21. CASE Compact
  BY <1>21, CompactPairs
<1>22. CASE WritePrompt
  BY <1>1, <1>22, WritePairs DEF WritePrompt, loopVars, userVars, answerVars, Answering, Asked, AnswersDue
<1>23. CASE DeliverItem
  <2>1. drained[1] \in QueueItem
    BY <1>23 DEF DeliverItem, SteeringInv, SteeringTypes
  <2>2. PICK m \in Note : m.role = "user" /\ Write(m)
    BY <1>23, <2>1 DEF DeliverItem, Note, QueueItem, User
  <2> QED
    BY <1>1, <1>23, <2>2, WritePairs DEF DeliverItem, Answering, answerVars
<1>24. CASE Respond
  BY <1>1, <1>24, WritePairs DEF Respond, loopVars, userVars, answerVars, Answering, Asked, AnswersDue
<1>25. CASE Close
  BY <1>1, <1>25, WritePairs DEF Close, loopVars, userVars, answerVars, Answering, Asked, AnswersDue
<1>26. CASE WriteUserTool
  BY <1>1, <1>26, WritePairs DEF WriteUserTool, loopVars, userVars, answerVars, Answering, Asked, AnswersDue
<1>27. CASE WriteUserCall
  BY <1>1, <1>27, WritePairs DEF WriteUserCall, loopVars, userVars, answerVars, Answering, Asked, AnswersDue
<1>28. CASE RejectCall
  BY <1>1, <1>28, ResultPairs DEF RejectCall, loopVars, userVars, answerVars, Answering, Asked, AnswersDue, NextRound
<1>29. CASE RecordResult
  BY <1>1, <1>29, ResultPairs DEF RecordResult, loopVars, userVars, answerVars, Answering, Asked, AnswersDue, NextRound
<1>30. CASE WriteUserResult
  BY <1>1, <1>30, ResultPairs DEF WriteUserResult, loopVars, userVars, answerVars, Answering, Asked, AnswersDue, Leave
<1> QED
  BY <1>2, <1>3, <1>4, <1>5, <1>6, <1>7, <1>8, <1>9, <1>10, <1>11, <1>12, <1>13, <1>14,
     <1>15, <1>16, <1>17, <1>18, <1>19, <1>20, <1>21, <1>22, <1>23, <1>24, <1>25,
     <1>26, <1>27, <1>28, <1>29, <1>30 DEF Next, Proceed

\* What is sent of a transcript without holes has none, if no call is cut off from
\* its results.
LEMMA WholeFrom ==
  ASSUME SteeringInv, PairedInv, pc = "complete", ~threw
  PROVE  Whole(Sent)
<1>1. PICK n \in Nat : n = Len(transcript) /\ DOMAIN transcript = 1..n
  BY DEF SteeringInv, SteeringTypes
<1>2. cut \in Nat /\ cut <= n /\ (cut = 0 \/ (cut < n /\ transcript[cut + 1].role # "tool"))
  BY <1>1 DEF PairedInv, CutApart
<1>3. /\ DOMAIN Sent = 1..n - cut
      /\ \A i \in 1..n - cut : i + cut \in 1..n /\ Sent[i] = transcript[i + cut]
  <2>1. transcript \in Seq(Note)
    BY DEF SteeringInv, SteeringTypes
  <2> QED
    BY <1>1, <1>2, <2>1 DEF Sent
<1>4. ~Answering /\ OnlyLastIsOpen
  BY DEF PairedInv, Answering
<1>5. \A i \in 1..n : transcript[i].role = "assistant" =>
        \A k \in 1..transcript[i].calls : i + k \in 1..n /\ transcript[i + k] = Result(k)
  BY <1>1, <1>4 DEF OnlyLastIsOpen
<1>6. \A i \in 1..n : transcript[i] \in Note
  BY <1>1 DEF SteeringInv, SteeringTypes
<1>7. ASSUME NEW i \in DOMAIN Sent, Sent[i].role = "assistant", NEW k \in 1..Sent[i].calls
      PROVE  i + k \in DOMAIN Sent /\ Sent[i + k] = Result(k)
  <2>1. i + cut \in 1..n /\ transcript[i + cut] = Sent[i]
    BY <1>3, <1>7
  <2>2. (i + cut) + k \in 1..n /\ transcript[(i + cut) + k] = Result(k)
    BY <1>5, <1>7, <2>1
  <2>3. i + k \in 1..n - cut /\ (i + k) + cut = (i + cut) + k
    <3>1. i \in Nat /\ i > 0 /\ k \in Int /\ k > 0
      BY <1>2, <1>3, <1>7
    <3> QED
      BY <1>1, <1>2, <2>2, <3>1
  <2> QED
    BY <1>3, <2>2, <2>3
<1>8. ASSUME NEW i \in DOMAIN Sent, Sent[i].role = "tool"
      PROVE  LET by == i - Sent[i].call
             IN  /\ by \in 1..i - 1 /\ Sent[by].role = "assistant"
                 /\ Sent[i].call <= Sent[by].calls
  <2>1. i \in 1..n - cut /\ i + cut \in 1..n /\ transcript[i + cut] = Sent[i]
    BY <1>3, <1>8
  <2>2. PICK c \in Nat : c = Sent[i].call
    BY <1>6, <1>8, <2>1 DEF Note
  <2>3. PICK a : a = (i + cut) - c
    OBVIOUS
  <2>4. a \in 1..(i + cut) - 1 /\ transcript[a].role = "assistant" /\ c <= transcript[a].calls
    BY <1>1, <1>4, <1>8, <2>1, <2>2, <2>3 DEF OnlyLastIsOpen
  <2>5. transcript[a].calls \in Nat /\ a \in 1..n
    BY <1>6, <2>1, <2>4 DEF Note
  <2>6. a > cut
    <3> SUFFICES ASSUME a <= cut PROVE FALSE
      BY <1>2, <2>5
    <3>1. cut # 0 /\ transcript[cut + 1].role # "tool"
      BY <1>2, <2>5
    <3>2. cut + 1 - a \in 1..transcript[a].calls
      BY <1>2, <2>1, <2>2, <2>3, <2>4, <2>5
    <3>3. transcript[a + (cut + 1 - a)] = Result(cut + 1 - a) /\ a + (cut + 1 - a) = cut + 1
      BY <1>2, <1>5, <2>4, <2>5, <3>2
    <3> QED
      BY <3>1, <3>3 DEF Result
  <2>7. i - c \in 1..n - cut /\ (i - c) + cut = a /\ i - c \in 1..i - 1
    BY <1>2, <2>1, <2>2, <2>3, <2>4, <2>6
  <2>8. Sent[i - c] = transcript[a]
    BY <1>3, <2>7
  <2> QED
    BY <2>2, <2>4, <2>7, <2>8
<1> QED
  BY <1>7, <1>8 DEF Whole

-----------------------------------------------------------------------------
(* What has no holes is accepted in each dialect                           *)

\* What the messages of a whole transcript are to one another: calls of two messages
\* do not overlap.
LEMMA WholeApart ==
  ASSUME NEW s \in Seq(Note), Whole(s)
  PROVE  /\ Len(s) \in Nat /\ DOMAIN s = 1..Len(s)
         /\ \A i \in DOMAIN s : s[i].role = "assistant" =>
              /\ s[i].calls \in Nat
              /\ \A k \in 1..s[i].calls :
                   i + k \in DOMAIN s /\ s[i + k].role = "tool" /\ s[i + k].call = k
         /\ \A i \in DOMAIN s : s[i].role = "tool" =>
              /\ s[i].call \in Nat \ {0} /\ i - s[i].call \in 1..i - 1
              /\ s[i - s[i].call].role = "assistant"
              /\ s[i].call <= s[i - s[i].call].calls
         /\ \A i, j \in DOMAIN s :
              s[i].role = "assistant" /\ i < j /\ s[j].role # "tool" => i + s[i].calls < j
<1>1. Len(s) \in Nat /\ DOMAIN s = 1..Len(s) /\ \A i \in DOMAIN s : s[i] \in Note
  OBVIOUS
<1>2. ASSUME NEW i \in DOMAIN s, s[i].role = "assistant"
      PROVE  /\ s[i].calls \in Nat
             /\ \A k \in 1..s[i].calls :
                  i + k \in DOMAIN s /\ s[i + k].role = "tool" /\ s[i + k].call = k
  <2>1. s[i].calls \in Nat
    BY <1>1, <1>2 DEF Note
  <2>2. \A k \in 1..s[i].calls : i + k \in DOMAIN s /\ s[i + k] = Result(k)
    BY <1>2 DEF Whole
  <2>3. \A k : Result(k).role = "tool" /\ Result(k).call = k
    BY DEF Result
  <2> QED
    BY <2>1, <2>2, <2>3
<1>3. ASSUME NEW i \in DOMAIN s, s[i].role = "tool"
      PROVE  /\ s[i].call \in Nat \ {0} /\ i - s[i].call \in 1..i - 1
             /\ s[i - s[i].call].role = "assistant"
             /\ s[i].call <= s[i - s[i].call].calls
  <2>1. s[i].call \in Nat /\ i \in Nat
    BY <1>1, <1>3 DEF Note
  <2>2. /\ i - s[i].call \in 1..i - 1
        /\ s[i - s[i].call].role = "assistant"
        /\ s[i].call <= s[i - s[i].call].calls
    BY <1>3 DEF Whole
  <2> QED
    BY <2>1, <2>2
<1>4. ASSUME NEW i \in DOMAIN s, NEW j \in DOMAIN s,
             s[i].role = "assistant", i < j, s[j].role # "tool"
      PROVE  i + s[i].calls < j
  <2>1. i \in Nat /\ j \in Nat /\ s[i].calls \in Nat
    BY <1>1, <1>2, <1>4
  <2>2. ~(j - i \in 1..s[i].calls)
    <3> SUFFICES ASSUME j - i \in 1..s[i].calls PROVE FALSE
      OBVIOUS
    <3>1. s[i + (j - i)].role = "tool" /\ i + (j - i) = j
      BY <1>2, <1>4, <2>1
    <3> QED
      BY <1>4, <3>1
  <2> QED
    BY <1>4, <2>1, <2>2
<1> QED
  BY <1>1, <1>2, <1>3, <1>4

\* How the dialects but Anthropic's lay messages out: whoever speaks says something at the
\* first place of a message, a call is at one place, a result at the first one.
LaidOut(items, s) ==
  /\ DOMAIN items \subseteq (DOMAIN s) \X Nat
  /\ \A p \in DOMAIN items :
       /\ \A u \in DOMAIN items[p].uses :
            s[p[1]].role = "assistant" /\ items[p].uses[u] \in 1..s[p[1]].calls
       /\ \A r \in DOMAIN items[p].results :
            /\ s[p[1]].role = "tool" /\ items[p].results[r] = s[p[1]].call
            /\ p[2] = 0 /\ r = 1
       /\ items[p].results = <<>> /\ items[p].role # "call" =>
            p[2] = 0 /\ s[p[1]].role # "tool"
  /\ \A i \in DOMAIN s : <<i, 0>> \in DOMAIN items /\ items[<<i, 0>>].role # "call"
  /\ \A i \in DOMAIN s : s[i].role # "tool" => items[<<i, 0>>].results = <<>>
  /\ \A i \in DOMAIN s : s[i].role = "tool" => 1 \in DOMAIN items[<<i, 0>>].results
  /\ \A i \in DOMAIN s : s[i].role = "assistant" =>
       \A k \in 1..s[i].calls : \E p \in DOMAIN items : \E u \in DOMAIN items[p].uses :
         p[1] = i /\ items[p].uses[u] = k
  /\ \A p, q \in DOMAIN items :
       \A u \in DOMAIN items[p].uses, v \in DOMAIN items[q].uses :
         p[1] = q[1] /\ items[p].uses[u] = items[q].uses[v] => p = q /\ u = v

\* Laid out so, each call has its one answer, and each answer its one call.
LEMMA LaidOutIsAnswered ==
  ASSUME NEW s \in Seq(Note), Whole(s), NEW items, LaidOut(items, s)
  PROVE  Answered(items)
<1> DEFINE Says(p) == items[p].results = <<>> /\ items[p].role # "call"
           SaidBetween(p, q) ==
             \E h \in DOMAIN items : Precedes(p, h) /\ Precedes(h, q) /\ Says(h)
           uses == UNION {{p} \X DOMAIN items[p].uses : p \in DOMAIN items}
           results == UNION {{q} \X DOMAIN items[q].results : q \in DOMAIN items}
           Answers(u, r) == /\ items[u[1]].uses[u[2]] = items[r[1]].results[r[2]]
                            /\ Precedes(u[1], r[1]) /\ ~SaidBetween(u[1], r[1])
<1>1. /\ \A i \in DOMAIN s : i \in Nat
      /\ \A i \in DOMAIN s : s[i].role = "assistant" =>
           /\ s[i].calls \in Nat
           /\ \A k \in 1..s[i].calls :
                i + k \in DOMAIN s /\ s[i + k].role = "tool" /\ s[i + k].call = k
      /\ \A i \in DOMAIN s : s[i].role = "tool" =>
           /\ s[i].call \in Nat \ {0} /\ i - s[i].call \in 1..i - 1
           /\ s[i - s[i].call].role = "assistant"
           /\ s[i].call <= s[i - s[i].call].calls
      /\ \A i, j \in DOMAIN s :
           s[i].role = "assistant" /\ i < j /\ s[j].role # "tool" => i + s[i].calls < j
  BY WholeApart
<1>2. \A i \in DOMAIN s : \A c \in 1..i - 1 : c \in DOMAIN s
  OBVIOUS
<1>3. \A p \in DOMAIN items : p[1] \in DOMAIN s /\ p[1] \in Nat /\ p[2] \in Nat /\ p = <<p[1], p[2]>>
  BY <1>1 DEF LaidOut
\* A call and a result of that number answer one another if the message that calls is
\* the one the result is of, and no others.
<1>4. ASSUME NEW p \in DOMAIN items, NEW u \in DOMAIN items[p].uses,
             NEW q \in DOMAIN items, NEW r \in DOMAIN items[q].results
      PROVE  /\ p[1] + items[p].uses[u] = q[1] => Answers(<<p, u>>, <<q, r>>)
             /\ Answers(<<p, u>>, <<q, r>>) => p[1] + items[p].uses[u] = q[1]
  <2>1. PICK a \in DOMAIN s, j \in DOMAIN s : a = p[1] /\ j = q[1] /\ a \in Nat /\ j \in Nat
    BY <1>3
  <2>2. s[a].role = "assistant" /\ s[a].calls \in Nat /\ s[j].role = "tool" /\ s[j].call \in Nat \ {0}
    BY <1>1, <1>4, <2>1 DEF LaidOut
  <2>3. PICK k \in 1..s[a].calls : k = items[p].uses[u]
    BY <1>4, <2>1 DEF LaidOut
  <2>4. items[q].results[r] = s[j].call /\ q[2] = 0 /\ a # j
    BY <1>4, <2>1, <2>2 DEF LaidOut
  <2>5. ASSUME a + k = j PROVE Answers(<<p, u>>, <<q, r>>)
    <3>1. s[j].call = k /\ a < j
      <4>1. s[a + k].call = k
        BY <1>1, <2>2
      <4> QED
        BY <2>1, <2>5, <4>1
    <3>2. Precedes(p, q)
      BY <2>1, <3>1 DEF Precedes
    <3>3. ASSUME NEW h \in DOMAIN items, Precedes(p, h), Precedes(h, q), Says(h) PROVE FALSE
      <4>1. h[2] = 0 /\ s[h[1]].role # "tool" /\ h[1] \in DOMAIN s /\ h[1] \in Nat
        BY <1>3, <3>3 DEF LaidOut
      <4>2. h[1] # a /\ h[1] # j /\ p[2] \in Nat
        BY <1>3, <2>1, <2>2, <3>3, <4>1 DEF Precedes
      <4>3. a < h[1] /\ h[1] < j
        BY <2>1, <3>3, <4>2 DEF Precedes
      <4>4. a + s[a].calls < h[1]
        BY <1>1, <2>1, <2>2, <4>1, <4>3
      <4> QED
        BY <2>1, <2>2, <2>3, <2>5, <4>1, <4>3, <4>4
    <3> QED
      BY <2>3, <2>4, <3>1, <3>2, <3>3
  <2>6. ASSUME Answers(<<p, u>>, <<q, r>>) PROVE a + k = j
    <3>1. k = s[j].call /\ Precedes(p, q) /\ ~SaidBetween(p, q)
      BY <2>3, <2>4, <2>6
    <3>2. a < j
      BY <2>1, <2>4, <3>1 DEF Precedes
    <3>3. PICK b \in DOMAIN s : b = j - k /\ b \in Nat /\ b < j /\ s[b].role = "assistant" /\ k <= s[b].calls
      <4>1. /\ j - s[j].call \in 1..j - 1
            /\ s[j - s[j].call].role = "assistant" /\ s[j].call <= s[j - s[j].call].calls
        BY <1>1, <2>2
      <4>2. j - k \in DOMAIN s /\ j - k \in 1..j - 1
        BY <1>2, <3>1, <4>1
      <4> QED
        BY <2>1, <3>1, <4>1, <4>2
    <3>4. ~(b < a)
      <4> SUFFICES ASSUME b < a PROVE FALSE
        OBVIOUS
      <4>1. b + s[b].calls < a /\ s[b].calls \in Nat
        BY <1>1, <2>1, <2>2, <3>3
      <4> QED
        BY <2>1, <2>3, <3>2, <3>3, <4>1
    <3>5. ~(a < b)
      <4> SUFFICES ASSUME a < b PROVE FALSE
        OBVIOUS
      <4>1. PICK h \in DOMAIN items : h = <<b, 0>> /\ Says(h)
        <5>1. <<b, 0>> \in DOMAIN items /\ items[<<b, 0>>].role # "call"
          BY DEF LaidOut
        <5>2. items[<<b, 0>>].results = <<>>
          BY <3>3 DEF LaidOut
        <5> QED
          BY <5>1, <5>2
      <4>2. Precedes(p, h) /\ Precedes(h, q)
        BY <2>1, <3>3, <4>1 DEF Precedes
      <4> QED
        BY <3>1, <4>1, <4>2
    <3> QED
      BY <2>1, <2>3, <3>3, <3>4, <3>5
  <2> QED
    BY <2>1, <2>3, <2>5, <2>6
<1>5. \A u \in uses : \E p \in DOMAIN items : \E i \in DOMAIN items[p].uses : u = <<p, i>>
  OBVIOUS
<1>6. \A r \in results : \E q \in DOMAIN items : \E i \in DOMAIN items[q].results : r = <<q, i>>
  OBVIOUS
<1>7. \A p \in DOMAIN items : \A i \in DOMAIN items[p].uses : <<p, i>> \in uses
  OBVIOUS
<1>8. \A q \in DOMAIN items : \A i \in DOMAIN items[q].results : <<q, i>> \in results
  OBVIOUS
<1> HIDE DEF uses, results, Answers
<1>9. ASSUME NEW u \in uses PROVE \E x \in results : {r \in results : Answers(u, r)} = {x}
  <2>0. PICK p \in DOMAIN items : \E i \in DOMAIN items[p].uses : u = <<p, i>>
    BY <1>5
  <2>1. PICK i \in DOMAIN items[p].uses : u = <<p, i>>
    BY <2>0
  <2>2. PICK j \in DOMAIN s : j = p[1] + items[p].uses[i] /\ s[j].role = "tool"
    BY <1>1, <1>3, <2>1 DEF LaidOut
  <2>3. PICK q \in DOMAIN items : q = <<j, 0>> /\ 1 \in DOMAIN items[q].results
    BY <2>2 DEF LaidOut
  <2>4. PICK x \in results : x = <<q, 1>> /\ Answers(u, x)
    BY <1>4, <1>8, <2>1, <2>2, <2>3
  <2>5. ASSUME NEW r \in results, Answers(u, r) PROVE r = x
    <3>0. PICK y \in DOMAIN items : \E k \in DOMAIN items[y].results : r = <<y, k>>
      BY <1>6
    <3>1. PICK k \in DOMAIN items[y].results : r = <<y, k>>
      BY <3>0
    <3>2. y[1] = j
      BY <1>4, <2>1, <2>2, <2>5, <3>1
    <3>3. y[2] = 0 /\ k = 1 /\ y = <<y[1], y[2]>>
      BY <1>3, <3>1 DEF LaidOut
    <3> QED
      BY <2>3, <2>4, <3>1, <3>2, <3>3
  <2> QED
    BY <2>4, <2>5
<1>10. ASSUME NEW r \in results PROVE \E x \in uses : {u \in uses : Answers(u, r)} = {x}
  <2>0. PICK q \in DOMAIN items : \E i \in DOMAIN items[q].results : r = <<q, i>>
    BY <1>6
  <2>1. PICK i \in DOMAIN items[q].results : r = <<q, i>>
    BY <2>0
  <2>2. PICK j \in DOMAIN s : j = q[1] /\ s[j].role = "tool" /\ j \in Nat
    BY <1>3, <2>1 DEF LaidOut
  <2>9. PICK a \in DOMAIN s :
          a + s[j].call = j /\ s[a].role = "assistant" /\ s[j].call \in 1..s[a].calls
    <3>1. j - s[j].call \in DOMAIN s /\ s[j].call \in Nat \ {0}
      BY <1>1, <1>2, <2>2
    <3> QED
      BY <1>1, <2>2, <3>1
  <2>3. PICK k \in 1..s[a].calls : k = s[j].call
    BY <2>9
  <2>7. PICK p \in DOMAIN items : \E w \in DOMAIN items[p].uses : p[1] = a /\ items[p].uses[w] = k
    BY <2>9, <2>3 DEF LaidOut
  <2>4. PICK w \in DOMAIN items[p].uses : p[1] = a /\ items[p].uses[w] = k
    BY <2>7
  <2>5. PICK x \in uses : x = <<p, w>> /\ Answers(x, r)
    <3>1. p[1] + items[p].uses[w] = q[1]
      BY <2>2, <2>9, <2>3, <2>4
    <3>2. Answers(<<p, w>>, <<q, i>>)
      BY <1>4, <3>1
    <3> QED
      BY <1>7, <2>1, <3>2
  <2>6. ASSUME NEW u \in uses, Answers(u, r) PROVE u = x
    <3>0. PICK y \in DOMAIN items : \E v \in DOMAIN items[y].uses : u = <<y, v>>
      BY <1>5
    <3>1. PICK v \in DOMAIN items[y].uses : u = <<y, v>>
      BY <3>0
    <3>2. y[1] + items[y].uses[v] = j
      BY <1>4, <2>1, <2>2, <2>6, <3>1
    <3>6. PICK b \in DOMAIN s : b = y[1] /\ b \in Nat
      BY <1>3, <3>0
    <3>3. PICK l \in 1..s[b].calls : l = items[y].uses[v] /\ s[b].role = "assistant" /\ b + l = j
      BY <3>1, <3>2, <3>6 DEF LaidOut
    <3>4. s[j].call = l
      BY <1>1, <3>6, <3>3
    <3>5. y[1] = p[1] /\ items[y].uses[v] = items[p].uses[w]
      BY <1>1, <2>2, <2>9, <2>3, <2>4, <3>6, <3>3, <3>4
    <3> QED
      BY <2>4, <2>5, <3>1, <3>5 DEF LaidOut
  <2> QED
    BY <2>5, <2>6
<1> USE DEF uses, results, Answers
<1> QED
  BY <1>9, <1>10 DEF Answered

\* What one message holds, for all dialects.
LEMMA CallsAndResults ==
  ASSUME NEW s \in Seq(Note), NEW i \in DOMAIN s
  PROVE  /\ s[i].role = "assistant" =>
              /\ s[i].calls \in Nat /\ DOMAIN CallsOf(s[i]) = 1..s[i].calls
              /\ Len(CallsOf(s[i])) = s[i].calls
              /\ \A k \in 1..s[i].calls : CallsOf(s[i])[k] = k
         /\ s[i].role # "assistant" =>
              CallsOf(s[i]) = <<>> /\ DOMAIN CallsOf(s[i]) = {} /\ Len(CallsOf(s[i])) = 0
         /\ s[i].role = "tool" =>
              /\ ResultsOf(s[i]) = <<s[i].call>> /\ DOMAIN ResultsOf(s[i]) = {1}
              /\ ResultsOf(s[i])[1] = s[i].call /\ ResultsOf(s[i]) # <<>>
         /\ s[i].role # "tool" => ResultsOf(s[i]) = <<>> /\ DOMAIN ResultsOf(s[i]) = {}
         /\ s[i].role \in {"user", "assistant", "tool"}
<1>1. s[i] \in Note
  OBVIOUS
<1>2. s[i].role = "assistant" => s[i].calls \in Nat
  BY <1>1 DEF Note
<1>3. s[i].role \in {"user", "assistant", "tool"}
  BY <1>1 DEF Note
<1>4. ASSUME s[i].role = "assistant"
      PROVE  /\ DOMAIN CallsOf(s[i]) = 1..s[i].calls /\ Len(CallsOf(s[i])) = s[i].calls
             /\ \A k \in 1..s[i].calls : CallsOf(s[i])[k] = k
  <2>1. CallsOf(s[i]) = [k \in 1..s[i].calls |-> k]
    BY <1>4 DEF CallsOf
  <2> QED
    BY <1>2, <1>4, <2>1
<1> QED
  BY <1>2, <1>3, <1>4 DEF CallsOf, ResultsOf

\* One item for each message: OpenAI's and Gemini's dialects.
LEMMA OneItemEach ==
  ASSUME NEW s \in Seq(Note), NEW items,
         DOMAIN items = (DOMAIN s) \X {0},
         \A i \in DOMAIN s :
           /\ items[<<i, 0>>].uses = CallsOf(s[i]) /\ items[<<i, 0>>].results = ResultsOf(s[i])
           /\ items[<<i, 0>>].role # "call"
  PROVE  LaidOut(items, s)
<1>1. \A p \in DOMAIN items : p[1] \in DOMAIN s /\ p[2] = 0 /\ p = <<p[1], 0>>
  OBVIOUS
<1>2. \A i \in DOMAIN s : <<i, 0>> \in DOMAIN items
  OBVIOUS
<1>3. ASSUME NEW p \in DOMAIN items
      PROVE  /\ \A u \in DOMAIN items[p].uses :
                  /\ s[p[1]].role = "assistant"
                  /\ items[p].uses[u] \in 1..s[p[1]].calls /\ items[p].uses[u] = u
             /\ \A r \in DOMAIN items[p].results :
                  s[p[1]].role = "tool" /\ items[p].results[r] = s[p[1]].call /\ r = 1
             /\ items[p].results = <<>> => s[p[1]].role # "tool"
  <2>1. PICK i \in DOMAIN s : i = p[1] /\ p = <<i, 0>>
    BY <1>1
  <2>2. items[p].uses = CallsOf(s[i]) /\ items[p].results = ResultsOf(s[i])
    BY <2>1
  <2> QED
    BY <2>1, <2>2, CallsAndResults
<1>4. \A i \in DOMAIN s : s[i].role # "tool" => items[<<i, 0>>].results = <<>>
  BY CallsAndResults
<1>5. \A i \in DOMAIN s : s[i].role = "tool" => 1 \in DOMAIN items[<<i, 0>>].results
  BY CallsAndResults
<1>6. ASSUME NEW i \in DOMAIN s, s[i].role = "assistant", NEW k \in 1..s[i].calls
      PROVE  \E p \in DOMAIN items : \E u \in DOMAIN items[p].uses :
               p[1] = i /\ items[p].uses[u] = k
  <2>1. PICK p \in DOMAIN items : p = <<i, 0>>
    BY <1>2
  <2>2. items[p].uses = CallsOf(s[i])
    BY <2>1
  <2>3. k \in DOMAIN CallsOf(s[i]) /\ CallsOf(s[i])[k] = k
    BY <1>6, CallsAndResults
  <2> QED
    BY <2>1, <2>2, <2>3
<1> QED
  BY <1>1, <1>2, <1>3, <1>4, <1>5, <1>6 DEF LaidOut

LEMMA OpenAIIsLaidOut ==
  ASSUME NEW s \in Seq(Note)
  PROVE  LaidOut(ToOpenAI(s), s) /\ LaidOut(ToGemini(s), s)
<1>1. \A i \in DOMAIN s : s[i].role # "call"
  BY CallsAndResults
<1>4. \A role, uses, results :
        /\ Item(role, uses, results).uses = uses
        /\ Item(role, uses, results).results = results
        /\ Item(role, uses, results).role = role
  BY DEF Item
<1>2. LaidOut(ToOpenAI(s), s)
  <2>1. DOMAIN ToOpenAI(s) = (DOMAIN s) \X {0}
    BY DEF ToOpenAI
  <2>2. ASSUME NEW i \in DOMAIN s
        PROVE  ToOpenAI(s)[<<i, 0>>] = Item(s[i].role, CallsOf(s[i]), ResultsOf(s[i]))
    BY DEF ToOpenAI
  <2>3. ASSUME NEW i \in DOMAIN s
        PROVE  /\ ToOpenAI(s)[<<i, 0>>].uses = CallsOf(s[i])
               /\ ToOpenAI(s)[<<i, 0>>].results = ResultsOf(s[i])
               /\ ToOpenAI(s)[<<i, 0>>].role # "call"
    <3>1. ToOpenAI(s)[<<i, 0>>] = Item(s[i].role, CallsOf(s[i]), ResultsOf(s[i]))
      BY <2>2
    <3>2. s[i].role # "call"
      BY <1>1
    <3> QED
      BY <1>4, <3>1, <3>2
  <2> QED
    BY <2>1, <2>3, OneItemEach
<1>3. LaidOut(ToGemini(s), s)
  <2> DEFINE speaker(i) == IF s[i].role = "assistant" THEN "model" ELSE "user"
  <2>1. DOMAIN ToGemini(s) = (DOMAIN s) \X {0}
    BY DEF ToGemini
  <2>2. ASSUME NEW i \in DOMAIN s
        PROVE  ToGemini(s)[<<i, 0>>] = Item(speaker(i), CallsOf(s[i]), ResultsOf(s[i]))
    BY DEF ToGemini
  <2>3. ASSUME NEW i \in DOMAIN s
        PROVE  /\ ToGemini(s)[<<i, 0>>].uses = CallsOf(s[i])
               /\ ToGemini(s)[<<i, 0>>].results = ResultsOf(s[i])
               /\ ToGemini(s)[<<i, 0>>].role # "call"
    <3>1. ToGemini(s)[<<i, 0>>] = Item(speaker(i), CallsOf(s[i]), ResultsOf(s[i]))
      BY <2>2
    <3>2. speaker(i) # "call"
      BY <1>1
    <3> QED
      BY <1>4, <3>1, <3>2
  <2> QED
    BY <2>1, <2>3, OneItemEach
<1> QED
  BY <1>2, <1>3

\* The calls of a message each in an item of their own, after what it says.
LEMMA ResponsesIsLaidOut ==
  ASSUME NEW s \in Seq(Note)
  PROVE  LaidOut(ToResponses(s), s)
<1> DEFINE PlacesOf(i) == {i} \X (0..Len(CallsOf(s[i])))
           items == ToResponses(s)
<1>1. DOMAIN items = UNION {PlacesOf(i) : i \in DOMAIN s}
  BY DEF ToResponses
<1>2. ASSUME NEW p \in DOMAIN items
      PROVE  items[p] = IF p[2] = 0 THEN Item(s[p[1]].role, <<>>, ResultsOf(s[p[1]]))
                                    ELSE Item("call", <<p[2]>>, <<>>)
  BY <1>1, <1>2 DEF ToResponses
<1>3. ASSUME NEW p \in DOMAIN items
      PROVE  /\ p[1] \in DOMAIN s /\ p = <<p[1], p[2]>>
             /\ p[2] \in 0..Len(CallsOf(s[p[1]]))
  BY <1>1
<1>4. ASSUME NEW i \in DOMAIN s, NEW k \in 0..Len(CallsOf(s[i]))
      PROVE  <<i, k>> \in DOMAIN items
  BY <1>1
<1> HIDE DEF items, PlacesOf
<1>5. ASSUME NEW p \in DOMAIN items, p[2] = 0
      PROVE  /\ items[p].uses = <<>> /\ items[p].results = ResultsOf(s[p[1]])
             /\ items[p].role = s[p[1]].role /\ items[p].role # "call"
  BY <1>2, <1>3, <1>5, CallsAndResults DEF Item
<1>6. ASSUME NEW p \in DOMAIN items, p[2] # 0
      PROVE  /\ items[p].uses = <<p[2]>> /\ items[p].results = <<>> /\ items[p].role = "call"
             /\ s[p[1]].role = "assistant" /\ p[2] \in 1..s[p[1]].calls
  <2>1. items[p] = Item("call", <<p[2]>>, <<>>)
    BY <1>2, <1>6
  <2>2. s[p[1]].role = "assistant"
    BY <1>3, <1>6, CallsAndResults
  <2>3. p[2] \in 0..s[p[1]].calls /\ s[p[1]].calls \in Nat
    BY <1>3, <2>2, CallsAndResults
  <2> QED
    BY <1>6, <2>1, <2>2, <2>3 DEF Item
<1>7. ASSUME NEW p \in DOMAIN items
      PROVE  /\ \A u \in DOMAIN items[p].uses :
                  /\ s[p[1]].role = "assistant" /\ items[p].uses[u] \in 1..s[p[1]].calls
                  /\ items[p].uses[u] = p[2] /\ u = 1
             /\ \A r \in DOMAIN items[p].results :
                  /\ s[p[1]].role = "tool" /\ items[p].results[r] = s[p[1]].call
                  /\ p[2] = 0 /\ r = 1
             /\ items[p].results = <<>> /\ items[p].role # "call" =>
                  p[2] = 0 /\ s[p[1]].role # "tool"
  <2>1. CASE p[2] = 0
    <3>1. p[1] \in DOMAIN s
      BY <1>3
    <3> QED
      BY <1>5, <2>1, <3>1, CallsAndResults
  <2>2. CASE p[2] # 0
    BY <1>6, <2>2
  <2> QED
    BY <2>1, <2>2
<1>8. ASSUME NEW i \in DOMAIN s
      PROVE  /\ <<i, 0>> \in DOMAIN items /\ items[<<i, 0>>].role # "call"
             /\ s[i].role # "tool" => items[<<i, 0>>].results = <<>>
             /\ s[i].role = "tool" => 1 \in DOMAIN items[<<i, 0>>].results
  <2>1. Len(CallsOf(s[i])) \in Nat
    BY CallsAndResults
  <2>3. <<i, 0>> \in DOMAIN items
    BY <1>4, <2>1
  <2>2. PICK p \in DOMAIN items : p = <<i, 0>> /\ p[1] = i /\ p[2] = 0
    BY <2>3
  <2> QED
    BY <1>5, <2>2, CallsAndResults
<1>9. ASSUME NEW i \in DOMAIN s, s[i].role = "assistant", NEW k \in 1..s[i].calls
      PROVE  \E p \in DOMAIN items : \E u \in DOMAIN items[p].uses :
               p[1] = i /\ items[p].uses[u] = k
  <2>1. k \in 0..Len(CallsOf(s[i])) /\ k # 0
    BY <1>9, CallsAndResults
  <2>2. PICK p \in DOMAIN items : p = <<i, k>> /\ p[1] = i /\ p[2] = k
    BY <1>4, <2>1
  <2>3. items[p].uses = <<k>>
    BY <1>6, <2>1, <2>2
  <2> QED
    BY <2>2, <2>3
<1>10. \A p, q \in DOMAIN items :
         \A u \in DOMAIN items[p].uses, v \in DOMAIN items[q].uses :
           p[1] = q[1] /\ items[p].uses[u] = items[q].uses[v] => p = q /\ u = v
  BY <1>3, <1>7
<1>11. DOMAIN items \subseteq (DOMAIN s) \X Nat
  <2> SUFFICES ASSUME NEW p \in DOMAIN items PROVE p \in (DOMAIN s) \X Nat
    OBVIOUS
  <2>1. Len(CallsOf(s[p[1]])) \in Nat
    BY <1>3, CallsAndResults
  <2> QED
    BY <1>3, <2>1
<1>12. LaidOut(items, s)
  BY <1>7, <1>8, <1>9, <1>10, <1>11 DEF LaidOut
<1> QED
  BY <1>12 DEF items

\* Anthropic's dialect joins the results of a message's calls into the message after it,
\* which holds all of them and nothing else.
LEMMA JoinedAreAnswered ==
  ASSUME NEW s \in Seq(Note), Whole(s)
  PROVE  AnsweredAtOnce(ToAnthropic(s))
<1> DEFINE IsTool(i) == i \in DOMAIN s /\ s[i].role = "tool"
           heads == {i \in DOMAIN s : ~(IsTool(i) /\ IsTool(i - 1))}
           Run(i) == {j \in DOMAIN s : j >= i /\ \A h \in i..j : IsTool(h)}
           Results(i) == [n \in 1..Cardinality(Run(i)) |-> s[i + n - 1].call]
           items == ToAnthropic(s)
<1>1. /\ Len(s) \in Nat /\ DOMAIN s = 1..Len(s)
      /\ \A i \in DOMAIN s : s[i].role = "assistant" =>
           /\ s[i].calls \in Nat
           /\ \A k \in 1..s[i].calls :
                i + k \in DOMAIN s /\ s[i + k].role = "tool" /\ s[i + k].call = k
      /\ \A i \in DOMAIN s : s[i].role = "tool" =>
           /\ s[i].call \in Nat \ {0} /\ i - s[i].call \in 1..i - 1
           /\ s[i - s[i].call].role = "assistant"
           /\ s[i].call <= s[i - s[i].call].calls
      /\ \A i, j \in DOMAIN s :
           s[i].role = "assistant" /\ i < j /\ s[j].role # "tool" => i + s[i].calls < j
  BY WholeApart
<1>2. DOMAIN items = heads \X {0}
  BY DEF ToAnthropic
<1>3. ASSUME NEW i \in heads
      PROVE  items[<<i, 0>>] = Item(IF s[i].role = "tool" THEN "user" ELSE s[i].role,
                                    CallsOf(s[i]), Results(i))
  BY DEF ToAnthropic
<1>4. ASSUME NEW i \in heads
      PROVE  items[<<i, 0>>].uses = CallsOf(s[i]) /\ items[<<i, 0>>].results = Results(i)
  <2> DEFINE speaker == IF s[i].role = "tool" THEN "user" ELSE s[i].role
  <2>1. items[<<i, 0>>] = Item(speaker, CallsOf(s[i]), Results(i))
    BY <1>3
  <2>2. \A role, uses, results :
          Item(role, uses, results).uses = uses /\ Item(role, uses, results).results = results
    BY DEF Item
  <2> HIDE DEF items, Results, speaker
  <2> QED
    BY <2>1, <2>2
<1> HIDE DEF items, Results, Run, heads
\* The results of a message that is not a tool's are none.
<1>5. ASSUME NEW i \in DOMAIN s, s[i].role # "tool" PROVE i \in heads /\ Results(i) = <<>>
  <2>1. i \in heads
    BY <1>5 DEF heads
  <2>2. Run(i) = {}
    <3> SUFFICES ASSUME NEW j \in Run(i) PROVE FALSE
      OBVIOUS
    <3>1. i \in i..j /\ \A h \in i..j : IsTool(h)
      BY <1>1 DEF Run
    <3> QED
      BY <1>5, <3>1
  <2>3. Cardinality(Run(i)) = 0
    BY <2>2, FS_EmptySet
  <2> QED
    BY <2>1, <2>3 DEF Results
\* A tool's message begins a run if it answers the first call of the message before it,
\* and the run is as long as that message has calls.
<1>6. ASSUME NEW a \in DOMAIN s, s[a].role = "assistant", s[a].calls # 0
      PROVE  a + 1 \in heads /\ Results(a + 1) = CallsOf(s[a])
  <2>1. PICK n \in Nat \ {0} : n = s[a].calls
    BY <1>1, <1>6
  <2>2. a \in Nat /\ \A k \in 1..n : a + k \in DOMAIN s /\ s[a + k].role = "tool" /\ s[a + k].call = k
    BY <1>1, <1>6, <2>1
  <2>3. a + 1 \in heads
    <3>1. a + 1 \in DOMAIN s /\ (a + 1) - 1 = a
      BY <2>2
    <3>2. ~IsTool((a + 1) - 1)
      BY <1>6, <3>1
    <3> QED
      BY <3>1, <3>2 DEF heads
  <2>4. ~IsTool(a + n + 1)
    <3> SUFFICES ASSUME a + n + 1 \in DOMAIN s, s[a + n + 1].role = "tool" PROVE FALSE
      OBVIOUS
    <3>0. PICK m \in DOMAIN s : m = a + n + 1 /\ m \in Nat /\ s[m].role = "tool"
      BY <1>1
    <3>1. PICK c \in Nat \ {0} :
            /\ c = s[m].call /\ m - c \in 1..m - 1
            /\ s[m - c].role = "assistant" /\ c <= s[m - c].calls
      BY <1>1, <3>0
    <3>2. PICK b \in DOMAIN s : b = m - c /\ b \in Nat /\ b + c = a + n + 1
      <4>1. m - c \in DOMAIN s /\ m - c \in Nat
        BY <1>1, <3>0, <3>1
      <4>2. (m - c) + c = m
        BY <3>0, <3>1
      <4> QED
        BY <3>0, <4>1, <4>2
    <3>3. s[b].role = "assistant" /\ c <= s[b].calls /\ s[b].calls \in Nat
      BY <1>1, <3>1, <3>2
    <3>7. a \in Nat /\ b \in Nat /\ n \in Nat /\ c \in Nat /\ c >= 1 /\ b + c = a + n + 1
      <4>1. a \in Nat
        BY <1>1
      <4>2. n \in Nat /\ c \in Nat /\ c >= 1
        OBVIOUS
      <4>3. b \in Nat /\ b + c = a + n + 1
        BY <3>2
      <4> QED
        BY <4>1, <4>2, <4>3
    <3>4. ~(a < b)
      <4> SUFFICES ASSUME a < b PROVE FALSE
        OBVIOUS
      <4>1. PICK k \in 1..n : a + k = b
        <5>1. b - a \in 1..n /\ a + (b - a) = b
          BY <3>7
        <5> QED
          BY <5>1
      <4>2. s[a + k].role = "tool"
        BY <2>2
      <4> QED
        BY <3>3, <4>1, <4>2
    <3>5. ~(b < a)
      <4> SUFFICES ASSUME b < a PROVE FALSE
        OBVIOUS
      <4>1. b + s[b].calls < a
        BY <1>1, <1>6, <3>3
      <4> QED
        BY <3>3, <3>7, <4>1
    <3>6. b = a
      BY <2>2, <3>2, <3>4, <3>5
    <3> QED
      BY <2>1, <3>3, <3>6, <3>7
  <2>5. Run(a + 1) = a + 1..a + n
    <3>1. ASSUME NEW j \in a + 1..a + n PROVE j \in Run(a + 1)
      <4>1. \A h \in a + 1..j : h - a \in 1..n /\ a + (h - a) = h
        BY <2>1, <2>2, <3>1
      <4>2. ASSUME NEW h \in a + 1..j PROVE IsTool(h)
        <5>1. PICK k \in 1..n : a + k = h
          BY <4>1
        <5> QED
          BY <2>2, <5>1
      <4>3. j \in a + 1..j /\ j >= a + 1
        BY <2>2, <3>1
      <4> QED
        BY <4>2, <4>3 DEF Run
    <3>2. ASSUME NEW j \in Run(a + 1) PROVE j \in a + 1..a + n
      <4>1. j \in Nat /\ j >= a + 1 /\ \A h \in a + 1..j : IsTool(h)
        BY <1>1 DEF Run
      <4>2. ~(a + n + 1 \in a + 1..j)
        BY <2>4, <4>1
      <4> QED
        BY <2>1, <2>2, <4>1, <4>2
    <3> QED
      BY <3>1, <3>2
  <2>6. Cardinality(Run(a + 1)) = n
    <3>1. a + 1 \in Int /\ a + n \in Int /\ a + 1 <= a + n /\ (a + n) - (a + 1) + 1 = n
      BY <2>1, <2>2
    <3> QED
      BY <2>5, <3>1, FS_Interval
  <2>7. Results(a + 1) = [k \in 1..n |-> k]
    <3>1. \A k \in 1..n : s[(a + 1) + k - 1].call = k
      <4> SUFFICES ASSUME NEW k \in 1..n PROVE s[(a + 1) + k - 1].call = k
        OBVIOUS
      <4>1. (a + 1) + k - 1 = a + k
        BY <2>1, <2>2
      <4> QED
        BY <2>2, <4>1
    <3> QED
      BY <2>6, <3>1 DEF Results
  <2> QED
    BY <1>6, <2>1, <2>3, <2>7 DEF CallsOf
\* Every run begins so.
<1>7. ASSUME NEW i \in heads, s[i].role = "tool"
      PROVE  \E a \in DOMAIN s : i = a + 1 /\ s[a].role = "assistant" /\ s[a].calls # 0
  <2>1. i \in DOMAIN s /\ i \in Nat /\ ~IsTool(i - 1)
    BY <1>1, <1>7 DEF heads
  <2>2. PICK c \in Nat \ {0} : c = s[i].call /\ i - c \in 1..i - 1
                               /\ s[i - c].role = "assistant" /\ c <= s[i - c].calls
    BY <1>1, <1>7, <2>1
  <2>3. PICK a \in DOMAIN s : a = i - c /\ a \in Nat
    BY <1>1, <2>1, <2>2
  <2>4. s[a].role = "assistant" /\ s[a].calls \in Nat /\ c <= s[a].calls
    BY <1>1, <2>2, <2>3
  <2>5. c = 1
    <3> SUFFICES ASSUME c # 1 PROVE FALSE
      OBVIOUS
    <3>1. c - 1 \in 1..s[a].calls /\ a + (c - 1) = i - 1
      BY <2>1, <2>2, <2>3, <2>4
    <3>2. a + (c - 1) \in DOMAIN s /\ s[a + (c - 1)].role = "tool"
      BY <1>1, <2>4, <3>1
    <3> QED
      BY <2>1, <3>1, <3>2
  <2> QED
    BY <2>1, <2>2, <2>3, <2>4, <2>5
<1>8. \A p \in DOMAIN items : p[1] \in heads /\ p[1] \in DOMAIN s /\ p[1] \in Nat /\ p[2] = 0 /\ p = <<p[1], 0>>
  BY <1>1, <1>2 DEF heads
\* An assistant's message with calls is followed by the message with their results.
<1>9. ASSUME NEW a \in DOMAIN s, s[a].role = "assistant", s[a].calls # 0
      PROVE  LET p == <<a, 0>>
                 q == <<a + 1, 0>>
             IN  /\ p \in DOMAIN items /\ q \in DOMAIN items
                 /\ Precedes(p, q)
                 /\ ~\E h \in DOMAIN items : Precedes(p, h) /\ Precedes(h, q)
                 /\ items[p].uses = items[q].results
  <2>1. a \in heads /\ a + 1 \in heads /\ Results(a + 1) = CallsOf(s[a])
    BY <1>5, <1>6, <1>9
  <2>2. <<a, 0>> \in DOMAIN items /\ <<a + 1, 0>> \in DOMAIN items
    BY <1>2, <2>1
  <2>3. items[<<a, 0>>].uses = items[<<a + 1, 0>>].results
    BY <1>4, <2>1
  <2>4. ASSUME NEW h \in DOMAIN items, Precedes(<<a, 0>>, h), Precedes(h, <<a + 1, 0>>)
        PROVE  FALSE
    <3>1. a < h[1] /\ h[1] < a + 1 /\ h[1] \in Nat /\ a \in Nat
      BY <1>1, <1>8, <2>4 DEF Precedes
    <3> QED
      BY <3>1
  <2>5. Precedes(<<a, 0>>, <<a + 1, 0>>)
    BY <1>1 DEF Precedes
  <2> QED
    BY <2>2, <2>3, <2>4, <2>5
<1>10. ASSUME NEW p \in DOMAIN items, items[p].uses # <<>>
       PROVE  \E q \in DOMAIN items :
                /\ Precedes(p, q)
                /\ ~\E h \in DOMAIN items : Precedes(p, h) /\ Precedes(h, q)
                /\ items[p].uses = items[q].results
  <2>1. PICK a \in DOMAIN s : a = p[1] /\ p = <<a, 0>> /\ a \in heads
    BY <1>8
  <2>2. items[p].uses = CallsOf(s[a])
    BY <1>4, <2>1
  <2>3. s[a].role = "assistant"
    BY <1>10, <2>2 DEF CallsOf
  <2>4. s[a].calls # 0
    BY <1>10, <2>2, <2>3 DEF CallsOf
  <2> QED
    BY <1>9, <2>1, <2>3, <2>4
<1>11. ASSUME NEW q \in DOMAIN items, items[q].results # <<>>
       PROVE  \E p \in DOMAIN items :
                /\ Precedes(p, q)
                /\ ~\E h \in DOMAIN items : Precedes(p, h) /\ Precedes(h, q)
                /\ items[p].uses = items[q].results
  <2>1. PICK i \in heads : i = q[1] /\ q = <<i, 0>> /\ i \in DOMAIN s
    BY <1>8
  <2>2. s[i].role = "tool"
    BY <1>4, <1>5, <1>11, <2>1
  <2>3. PICK a \in DOMAIN s : i = a + 1 /\ s[a].role = "assistant" /\ s[a].calls # 0
    BY <1>7, <2>2
  <2>4. /\ <<a, 0>> \in DOMAIN items /\ Precedes(<<a, 0>>, q)
        /\ ~\E h \in DOMAIN items : Precedes(<<a, 0>>, h) /\ Precedes(h, q)
        /\ items[<<a, 0>>].uses = items[q].results
    BY <1>9, <2>1, <2>3
  <2> QED
    BY <2>4
<1>12. AnsweredAtOnce(items)
  BY <1>10, <1>11 DEF AnsweredAtOnce
<1> QED
  BY <1>12 DEF items

\* In each dialect.
LEMMA WholeIsAccepted ==
  ASSUME NEW s \in Seq(Note), Whole(s), NEW dialect \in Dialect
  PROVE  Accepted(dialect, s)
<1>1. CASE dialect = "anthropic"
  BY <1>1, JoinedAreAnswered DEF Accepted, Wire
<1>2. CASE dialect = "openai"
  BY <1>2, OpenAIIsLaidOut, LaidOutIsAnswered DEF Accepted, Wire
<1>3. CASE dialect = "gemini"
  BY <1>3, OpenAIIsLaidOut, LaidOutIsAnswered DEF Accepted, Wire
<1>4. CASE dialect = "responses"
  BY <1>4, ResponsesIsLaidOut, LaidOutIsAnswered DEF Accepted, Wire
<1> QED
  BY <1>1, <1>2, <1>3, <1>4 DEF Dialect

\* Where what is sent has no holes, it is well formed in each dialect.
LEMMA SentFits == SteeringInv /\ PairedInv => SentPaired
<1> SUFFICES ASSUME SteeringInv, PairedInv, pc = "complete", ~threw, NEW dialect \in Dialect
             PROVE  Accepted(dialect, Sent)
  BY DEF SentPaired
<1>1. Whole(Sent)
  BY WholeFrom
<1>2. PICK n \in Nat : n = Len(transcript) /\ DOMAIN transcript = 1..n
  BY DEF SteeringInv, SteeringTypes
<1>3. transcript \in Seq(Note) /\ cut \in Nat /\ cut <= n
  BY <1>2 DEF SteeringInv, SteeringTypes, PairedInv, CutApart
<1>4. Sent \in Seq(Note)
  BY <1>2, <1>3 DEF Sent
<1> QED
  BY <1>1, <1>4, WholeIsAccepted

\* What the model is sent has every call answered and no answer without its call, in
\* the layout of each provider (agent.ts:853-855, context.ts:364-368), and holds what the
\* user steers with once and in its turn, for any limits.
THEOREM TranscriptsAreSound == Spec => []TranscriptSound
<1>1. SteeringInv /\ PairedInv => TranscriptSound
  BY SentFits DEF TranscriptSound, SteeringInv
<1>2. SteeringInv /\ PairedInv /\ [Next]_vars => (SteeringInv /\ PairedInv)'
  BY SteeringStep, PairedStep
<1>3. Init => SteeringInv /\ PairedInv
  BY SteeringInitially, PairedInitially
<1> QED
  BY <1>1, <1>2, <1>3, PTL DEF Spec

-----------------------------------------------------------------------------
(* What the agent is told of its edits                                     *)

\* A text of a file, by its version, no older than the pass.
Fresh(f, about) == about \in Nat /\ about >= dgSince[f]

ServerRecord ==
  [up : BOOLEAN, held : BOOLEAN, noticed : BOOLEAN, opened : [DgFile -> Nat], pushed : Nat]
PushRecord == [file : DgFile, about : Nat, errors : BOOLEAN]

DiagnosticsTypes ==
  /\ dgText \in [DgFile -> Nat] /\ dgSince \in [DgFile -> Nat]
  /\ \A f \in DgFile : dgSince[f] <= dgText[f]
  /\ dgServer \in ServerRecord
  /\ dgPipe \in Seq(PushRecord)
  /\ dgCache \in [DgFile -> [about : Nat, errors : BOOLEAN]]
  /\ dgTodo \in Seq(DgFile)
  /\ dgFound \in SUBSET [file : DgFile, about : Nat]
  /\ dgShown \in SUBSET [file : DgFile, about : Nat]
  /\ dgPc = "wait" => dgTodo # <<>>

\* The pass has a server, or had one.
Reading == dgPc \notin {"idle", "compiler"}

\* What came from the server of this pass is about its texts; what an earlier pass
\* left is not read before it is thrown away.
FromThisPass ==
  /\ Reading => \A f \in DgFile : dgServer.opened[f] # 0 => Fresh(f, dgServer.opened[f])
  /\ \A i \in DOMAIN dgPipe : Fresh(dgPipe[i].file, dgPipe[i].about)
  /\ Reading => \A f \in DgFile : dgCache[f].errors => Fresh(f, dgCache[f].about)
  /\ \A d \in dgFound \cup dgShown : Fresh(d.file, d.about)
  /\ ~Reading => dgPipe = <<>> /\ ~dgServer.up /\ dgServer.noticed

DiagnosticsInv == DiagnosticsTypes /\ FromThisPass

\* Before the first edit nothing was pushed.
LEMMA DiagnosticsInitially == DiagnosticsInit => DiagnosticsInv
<1> SUFFICES ASSUME DiagnosticsInit PROVE DiagnosticsInv
  OBVIOUS
<1>1. /\ dgPipe = <<>> /\ DOMAIN dgPipe = {} /\ dgPipe \in Seq(PushRecord)
      /\ dgTodo = <<>> /\ dgTodo \in Seq(DgFile) /\ dgPc = "idle"
      /\ dgFound = {} /\ dgShown = {}
  BY DEF DiagnosticsInit
<1>2. dgServer \in ServerRecord /\ ~dgServer.up /\ dgServer.noticed
  BY DEF DiagnosticsInit, NoServer, Unopened, ServerRecord
<1>3. /\ dgText \in [DgFile -> Nat] /\ dgSince = dgText
      /\ dgCache \in [DgFile -> [about : Nat, errors : BOOLEAN]]
  BY DEF DiagnosticsInit, NoDiags
<1>4. \A f \in DgFile : dgSince[f] <= dgText[f]
  BY <1>3
<1> QED
  BY <1>1, <1>2, <1>3, <1>4 DEF DiagnosticsInv, DiagnosticsTypes, FromThisPass, Reading

\* What a step of the agent or of the server sees of a file is fresh when it was.
LEMMA FoundKeeps ==
  ASSUME DiagnosticsInv, NEW d \in [about : Nat, errors : BOOLEAN], Taken(d),
         dgTodo # <<>>, d.errors => Fresh(Head(dgTodo), d.about)
  PROVE  /\ dgFound' \in SUBSET [file : DgFile, about : Nat]
         /\ \A e \in dgFound' : Fresh(e.file, e.about)
         /\ dgTodo' \in Seq(DgFile) /\ dgPc' = "files"
<1>1. dgTodo \in Seq(DgFile) /\ Head(dgTodo) \in DgFile
  BY DEF DiagnosticsInv, DiagnosticsTypes
<1>2. dgTodo' \in Seq(DgFile) /\ dgPc' = "files"
  BY <1>1 DEF Taken
<1>3. PICK new \in [file : DgFile, about : Nat] : new = [file |-> Head(dgTodo), about |-> d.about]
  BY <1>1
<1>4. dgFound' = IF d.errors THEN dgFound \cup {new} ELSE dgFound
  BY <1>3 DEF Taken
<1>5. dgFound \in SUBSET [file : DgFile, about : Nat] /\ \A e \in dgFound : Fresh(e.file, e.about)
  BY DEF DiagnosticsInv, DiagnosticsTypes, FromThisPass
<1> QED
  BY <1>2, <1>3, <1>4, <1>5

\* Every step keeps what came from the server about texts of this pass.
LEMMA DiagnosticsStep == DiagnosticsInv /\ [DiagnosticsNext]_dgVars => DiagnosticsInv'
<1> SUFFICES ASSUME DiagnosticsInv, [DiagnosticsNext]_dgVars PROVE DiagnosticsInv'
  OBVIOUS
<1> USE DEF DiagnosticsInv, DiagnosticsTypes, FromThisPass, Reading, Fresh
<1>0. \A f \in DgFile : dgText[f] \in Nat /\ dgSince[f] \in Nat
  OBVIOUS
<1>1. CASE UNCHANGED dgVars
  BY <1>1 DEF dgVars
<1>2. CASE Connect
  <2>1. /\ dgTodo' \in Seq(DgFile)
        /\ dgPipe' \in Seq(PushRecord) /\ DOMAIN dgPipe' = {}
    <3>1. dgTodo' = DgFiles /\ dgPipe' = <<>>
      BY <1>2 DEF Connect
    <3> QED
      BY <3>1, DgFilesAssumption
  <2>2. PICK up \in BOOLEAN, held \in BOOLEAN :
          dgServer' = [NoServer EXCEPT !.up = up, !.held = up /\ held, !.noticed = FALSE]
    BY <1>2 DEF Connect
  <2>3. dgServer' \in ServerRecord /\ \A f \in DgFile : dgServer'.opened[f] = 0
    BY <2>2 DEF NoServer, Unopened, ServerRecord
  <2>4. /\ dgCache' \in [DgFile -> [about : Nat, errors : BOOLEAN]]
        /\ \A f \in DgFile : ~dgCache'[f].errors
    BY <1>2 DEF Connect, NewCache, NoDiags
  <2>5. UNCHANGED <<dgText, dgSince, dgEdits, dgFound, dgShown>> /\ dgPc' = "connect"
    BY <1>2 DEF Connect
  <2> QED
    BY <2>1, <2>3, <2>4, <2>5
<1>3. CASE OpenFileNext
  <2>1. PICK f \in DgFile : f = Head(dgTodo)
    BY <1>3 DEF OpenFileNext
  <2>2. UNCHANGED <<dgText, dgSince, dgEdits, dgPipe, dgCache, dgShown>> /\ dgPc = "files" /\ dgTodo # <<>>
    BY <1>3 DEF OpenFileNext
  <2>3. dgServer' = IF dgServer.up THEN [dgServer EXCEPT !.opened[f] = dgText[f]] ELSE dgServer
    BY <1>3, <2>1 DEF OpenFileNext
  <2>4. /\ dgServer' \in ServerRecord
        /\ \A g \in DgFile : dgServer'.opened[g] # 0 => Fresh(g, dgServer'.opened[g])
    <3>1. dgServer \in ServerRecord /\ dgText[f] \in Nat /\ Fresh(f, dgText[f])
      BY <1>0
    <3>2. \A g \in DgFile : dgServer.opened[g] # 0 => Fresh(g, dgServer.opened[g])
      BY <2>2
    <3> QED
      BY <2>3, <3>1, <3>2 DEF ServerRecord
  <2>5. CASE dgCache[f] # NoDiags
    <3>1. dgCache[f] \in [about : Nat, errors : BOOLEAN] /\ Taken(dgCache[f])
      BY <1>3, <2>1, <2>5 DEF OpenFileNext
    <3>2. dgCache[f].errors => Fresh(Head(dgTodo), dgCache[f].about)
      BY <2>1, <2>2
    <3>3. /\ dgFound' \in SUBSET [file : DgFile, about : Nat]
          /\ \A e \in dgFound' : Fresh(e.file, e.about)
          /\ dgTodo' \in Seq(DgFile) /\ dgPc' = "files"
      BY <2>2, <3>1, <3>2, FoundKeeps
    <3> QED
      BY <2>2, <2>4, <3>3
  <2>6. CASE dgCache[f] = NoDiags
    <3>1. dgPc' = "wait" /\ UNCHANGED <<dgTodo, dgFound>>
      BY <1>3, <2>1, <2>6 DEF OpenFileNext
    <3> QED
      BY <2>2, <2>4, <3>1
  <2> QED
    BY <2>5, <2>6
<1>4. CASE ReadPush
  <2>1. PICK push \in PushRecord :
          push = Head(dgPipe) /\ Fresh(push.file, push.about)
    <3>1. dgPipe # <<>> /\ dgPipe \in Seq(PushRecord)
      BY <1>4 DEF ReadPush
    <3>2. Head(dgPipe) \in PushRecord /\ 1 \in DOMAIN dgPipe /\ Head(dgPipe) = dgPipe[1]
      BY <3>1
    <3> QED
      BY <3>2
  <2>2. dgPipe' \in Seq(PushRecord)
        /\ \A i \in DOMAIN dgPipe' : Fresh(dgPipe'[i].file, dgPipe'[i].about)
    <3>1. dgPipe # <<>> /\ dgPipe \in Seq(PushRecord) /\ dgPipe' = Tail(dgPipe)
      BY <1>4 DEF ReadPush
    <3>2. /\ dgPipe' \in Seq(PushRecord)
          /\ \A i \in DOMAIN dgPipe' : i + 1 \in DOMAIN dgPipe /\ dgPipe'[i] = dgPipe[i + 1]
      BY <3>1
    <3> QED
      BY <3>2
  <2>3. PICK d \in [about : Nat, errors : BOOLEAN] : d = [about |-> push.about, errors |-> push.errors]
    BY <2>1 DEF PushRecord
  <2>4. /\ dgCache' = [dgCache EXCEPT ![push.file] = d]
        /\ IF dgPc = "wait" /\ push.file = Head(dgTodo) THEN Taken(d)
           ELSE UNCHANGED <<dgPc, dgTodo, dgFound>>
        /\ UNCHANGED <<dgText, dgSince, dgEdits, dgServer, dgShown>>
        /\ dgPipe # <<>>
    BY <1>4, <2>1, <2>3 DEF ReadPush
  <2>5. /\ dgCache' \in [DgFile -> [about : Nat, errors : BOOLEAN]]
        /\ Reading => \A f \in DgFile : dgCache'[f].errors => Fresh(f, dgCache'[f].about)
    BY <2>1, <2>3, <2>4
  <2>6. CASE dgPc = "wait" /\ push.file = Head(dgTodo)
    <3>1. /\ dgFound' \in SUBSET [file : DgFile, about : Nat]
          /\ \A e \in dgFound' : Fresh(e.file, e.about)
          /\ dgTodo' \in Seq(DgFile) /\ dgPc' = "files"
      BY <2>1, <2>3, <2>4, <2>6, FoundKeeps
    <3> QED
      BY <2>2, <2>4, <2>5, <2>6, <3>1
  <2>7. CASE ~(dgPc = "wait" /\ push.file = Head(dgTodo))
    BY <2>2, <2>4, <2>5, <2>7
  <2> QED
    BY <2>6, <2>7
<1>5. CASE DgTimeOut
  <2>1. UNCHANGED <<dgText, dgSince, dgEdits, dgServer, dgPipe, dgCache, dgShown>> /\ dgPc \in Timed
    BY <1>5 DEF DgTimeOut
  <2>2. CASE dgPc = "connect"
    BY <1>5, <2>1, <2>2 DEF DgTimeOut
  <2>3. CASE dgPc = "wait"
    <3>1. PICK f \in DgFile : f = Head(dgTodo)
      BY <2>3
    <3>2. dgCache[f] \in [about : Nat, errors : BOOLEAN] /\ Taken(dgCache[f])
      BY <1>5, <2>3, <3>1 DEF DgTimeOut
    <3>3. /\ dgFound' \in SUBSET [file : DgFile, about : Nat]
          /\ \A e \in dgFound' : Fresh(e.file, e.about)
          /\ dgTodo' \in Seq(DgFile) /\ dgPc' = "files"
      BY <2>3, <3>1, <3>2, FoundKeeps
    <3> QED
      BY <2>1, <2>3, <3>3 DEF ServerRecord
  <2> QED
    BY <2>1, <2>2, <2>3 DEF Timed
<1>6. CASE DeathNoticed
  <2>1. /\ dgServer' = [dgServer EXCEPT !.noticed = TRUE]
        /\ UNCHANGED <<dgText, dgSince, dgEdits, dgPipe, dgCache, dgShown>>
    BY <1>6 DEF DeathNoticed
  <2>2. CASE dgPc = "connect"
    <3>1. dgPc' = "close" /\ dgTodo' = <<>> /\ UNCHANGED dgFound
      BY <1>6, <2>2 DEF DeathNoticed
    <3>2. dgServer' \in ServerRecord /\ dgServer'.opened = dgServer.opened
      BY <2>1 DEF ServerRecord
    <3>3. dgTodo' \in Seq(DgFile)
      BY <3>1
    <3> QED
      BY <2>1, <2>2, <3>1, <3>2, <3>3
  <2>3. CASE dgPc = "wait"
    <3>1. NoDiags \in [about : Nat, errors : BOOLEAN] /\ ~NoDiags.errors
      BY DEF NoDiags
    <3>2. Taken(NoDiags)
      BY <1>6, <2>3 DEF DeathNoticed
    <3>3. /\ dgFound' \in SUBSET [file : DgFile, about : Nat]
          /\ \A e \in dgFound' : Fresh(e.file, e.about)
          /\ dgTodo' \in Seq(DgFile) /\ dgPc' = "files"
      BY <2>3, <3>1, <3>2, FoundKeeps
    <3> QED
      BY <2>1, <2>3, <3>3 DEF ServerRecord
  <2>4. CASE dgPc \notin {"connect", "wait"}
    BY <1>6, <2>1, <2>4 DEF DeathNoticed, ServerRecord
  <2> QED
    BY <2>2, <2>3, <2>4
<1>7. CASE FilesShown \/ KillServer \/ PassEnds \/ Connected \/ ProcessEnds \/ ServerEnds
  BY <1>7 DEF FilesShown, KillServer, PassEnds, PipesFree, Connected, ProcessEnds, ServerEnds,
              ServerRecord
<1>8. ASSUME NEW f \in DgFile, EditMade(f) PROVE DiagnosticsInv'
  BY <1>0, <1>8 DEF EditMade
<1>9. ASSUME NEW f \in DgFile, OthersEdit(f) PROVE DiagnosticsInv'
  <2>1. /\ UNCHANGED <<dgPc, dgSince, dgServer, dgPipe, dgCache, dgTodo, dgFound, dgShown>>
        /\ dgText' = [dgText EXCEPT ![f] = @ + 1]
    BY <1>9 DEF OthersEdit
  <2>2. dgText' \in [DgFile -> Nat] /\ \A g \in DgFile : dgSince[g] <= dgText'[g]
    BY <1>0, <2>1
  <2> QED
    BY <2>1, <2>2
<1>10. ASSUME NEW f \in DgFile, NEW errors \in BOOLEAN, Push(f, errors) PROVE DiagnosticsInv'
  <2>1. PICK push \in PushRecord :
          /\ push = [file |-> f, about |-> dgServer.opened[f], errors |-> errors]
          /\ dgPipe' = Append(dgPipe, push)
    BY <1>10 DEF Push, PushRecord, ServerRecord
  <2>2. Fresh(push.file, push.about)
    BY <1>10, <2>1 DEF Push, ServerRecord
  <2>3. dgPipe' \in Seq(PushRecord)
        /\ \A i \in DOMAIN dgPipe' : Fresh(dgPipe'[i].file, dgPipe'[i].about)
    BY <2>1, <2>2
  <2> QED
    <3>1. dgServer.up /\ dgServer' = [dgServer EXCEPT !.pushed = @ + 1]
      BY <1>10 DEF Push
    <3>2. dgServer' \in ServerRecord /\ dgServer'.opened = dgServer.opened
      <4>1. dgServer \in ServerRecord
        OBVIOUS
      <4>2. dgServer.pushed + 1 \in Nat
        BY <4>1 DEF ServerRecord
      <4> HIDE DEF DiagnosticsInv, DiagnosticsTypes, FromThisPass, Reading, Fresh
      <4> QED
        BY <3>1, <4>1, <4>2 DEF ServerRecord
    <3>3. UNCHANGED <<dgPc, dgText, dgSince, dgEdits, dgCache, dgTodo, dgFound, dgShown>>
      BY <1>10 DEF Push
    <3> QED
      BY <2>3, <3>1, <3>2, <3>3
<1> QED
  BY <1>1, <1>2, <1>3, <1>4, <1>5, <1>6, <1>7, <1>8, <1>9, <1>10 DEF DiagnosticsNext, DgProceed

\* What the agent is shown after an edit is about a text no older than the edit, and a
\* pass leaves no server behind (agent.ts, withDiagnostics), for any number of files.
THEOREM DiagnosticsAreFresh == DiagnosticsSpec => []DiagnosticsSound
<1>1. DiagnosticsInv => DiagnosticsSound
  BY DEF DiagnosticsInv, DiagnosticsTypes, FromThisPass, Fresh, Reading, DiagnosticsSound
<1> QED
  BY <1>1, DiagnosticsInitially, DiagnosticsStep, PTL DEF DiagnosticsSpec

-----------------------------------------------------------------------------
(* What the model is told, where the user talks to all parts               *)

\* A step of the whole is a step of the part, or leaves it alone.
LEMMA PartsStep ==
  ASSUME [ConversationNext]_<<part, vars, editorVars, uiVars, siVars, dgVars>>
  PROVE  [Next]_vars /\ [DiagnosticsNext]_dgVars
<1>1. CASE UNCHANGED <<part, vars, editorVars, uiVars, siVars, dgVars>>
  BY <1>1
<1>2. CASE ConversationNext
  <2>1. part = "turn" => Next /\ UNCHANGED dgVars
    BY <1>2 DEF ConversationNext, Moves, Still
  <2>2. part = "diagnostics" => DiagnosticsNext /\ UNCHANGED vars
    BY <1>2 DEF ConversationNext, Moves, Still
  <2>3. part \notin {"turn", "diagnostics"} => UNCHANGED vars /\ UNCHANGED dgVars
    BY <1>2 DEF ConversationNext, Still
  <2> QED
    BY <2>1, <2>2, <2>3
<1> QED
  BY <1>1, <1>2

\* What the model is sent is whole, well formed and in order, and what it is told of an
\* edit is no older than the edit, for any limits and any files.
THEOREM TheModelIsToldAll == ConversationSpec => []TheModelIsTold
<1> DEFINE Told == SteeringInv /\ PairedInv /\ DiagnosticsInv
<1>1. ConversationInit => Told
  BY SteeringInitially, PairedInitially, DiagnosticsInitially DEF ConversationInit
<1>2. Told /\ [ConversationNext]_<<part, vars, editorVars, uiVars, siVars, dgVars>> => Told'
  BY PartsStep, SteeringStep, PairedStep, DiagnosticsStep
<1>3. Told => TheModelIsTold
  <2>1. SteeringInv /\ PairedInv => TranscriptSound
    BY SentFits DEF TranscriptSound, SteeringInv
  <2>2. DiagnosticsInv => DiagnosticsSound
    BY DEF DiagnosticsInv, DiagnosticsTypes, FromThisPass, Fresh, Reading, DiagnosticsSound
  <2> QED
    BY <2>1, <2>2 DEF TheModelIsTold
<1> QED
  BY <1>1, <1>2, <1>3, PTL DEF ConversationSpec

-----------------------------------------------------------------------------
(* The undo history                                                        *)

\* How many of a set of numbers are below and above one of them, and how many are
\* among its least.
LEMMA Ranked ==
  ASSUME NEW n \in Nat, NEW S \in SUBSET (1..n)
  PROVE  /\ IsFiniteSet(S) /\ Cardinality(S) \in Nat
         /\ \A s \in S : Cardinality({t \in S : t < s}) + Cardinality({t \in S : t > s}) + 1
                           = Cardinality(S)
         /\ \A s \in S : Cardinality({t \in S : t < s}) \in Nat
         /\ \A m \in 0..Cardinality(S) :
              Cardinality({s \in S : Cardinality({t \in S : t < s}) < m}) = m
<1>1. IsFiniteSet(S) /\ Cardinality(S) \in Nat /\ \A s \in S : s \in Nat
  <2>1. IsFiniteSet(1..n)
    BY FS_Interval
  <2>2. IsFiniteSet(S)
    BY <2>1, FS_Subset
  <2> QED
    BY <2>2, FS_CardinalityType
<1>2. PICK c \in Nat : c = Cardinality(S)
  BY <1>1
<1>3. PICK at \in [1..c -> S] :
        /\ \A k, m \in 1..c : k < m => at[k] < at[m]
        /\ \A i \in S : \E k \in 1..c : at[k] = i
  <2>1. \E at \in [1..Cardinality(S) -> S] :
          /\ \A k, m \in 1..Cardinality(S) : k < m => at[k] < at[m]
          /\ \A i \in S : \E k \in 1..Cardinality(S) : at[k] = i
    BY Ranks
  <2> QED
    BY <1>2, <2>1
<1>9. \A k \in 1..c : at[k] \in S /\ at[k] \in Nat /\ k \in Nat
  <2>1. \A k \in 1..c : at[k] \in S
    BY <1>3
  <2>2. \A k \in 1..c : k \in Nat
    BY <1>2
  <2> QED
    BY <1>1, <2>1, <2>2
<1> DEFINE Least(m) == {at[j] : j \in 1..m}
<1>4. \A k, m \in 1..c : at[k] < at[m] <=> k < m
  <2> SUFFICES ASSUME NEW k \in 1..c, NEW m \in 1..c, at[k] < at[m] PROVE k < m
    BY <1>3
  <2>1. at[k] \in Nat /\ at[m] \in Nat /\ k \in Nat /\ m \in Nat
    BY <1>9
  <2>2. CASE k = m
    BY <2>1, <2>2
  <2>3. CASE m < k
    <3>1. at[m] < at[k]
      BY <1>3, <2>3
    <3> QED
      BY <2>1, <3>1
  <2> QED
    BY <2>1, <2>2, <2>3
<1>5. ASSUME NEW m \in 0..c PROVE Cardinality(Least(m)) = m /\ IsFiniteSet(Least(m))
  <2> DEFINE f == [j \in 1..m |-> at[j]]
  <2>1. 1..m \subseteq 1..c
    BY <1>2
  <2>2. \A j, k \in 1..m : at[j] = at[k] => j = k
    <3> SUFFICES ASSUME NEW j \in 1..m, NEW k \in 1..m, at[j] = at[k] PROVE j = k
      OBVIOUS
    <3>1. ~(at[j] < at[k]) /\ ~(at[k] < at[j])
      BY <1>9, <2>1
    <3>2. ~(j < k) /\ ~(k < j)
      BY <1>4, <2>1, <3>1
    <3> QED
      BY <3>2
  <2>3. f \in Bijection(1..m, Least(m))
    <3>1. f \in [1..m -> Least(m)]
      OBVIOUS
    <3>2. f \in Injection(1..m, Least(m))
      BY <2>2, <3>1 DEF Injection, IsInjective
    <3>3. f \in Surjection(1..m, Least(m))
      BY <3>1 DEF Surjection
    <3> QED
      BY <3>2, <3>3 DEF Bijection
  <2>4. IsFiniteSet(1..m) /\ Cardinality(1..m) = m
    BY <1>2, FS_Interval
  <2>5. ExistsBijection(1..m, Least(m))
    BY <2>3 DEF ExistsBijection
  <2> QED
    BY <2>4, <2>5, FS_Bijection
<1>6. ASSUME NEW k \in 1..c
      PROVE  /\ {t \in S : t < at[k]} = Least(k - 1)
             /\ {t \in S : t > at[k]} = S \ Least(k)
             /\ Least(k) \subseteq S
  <2>1. ASSUME NEW t \in S PROVE t < at[k] <=> t \in Least(k - 1)
    <3>1. PICK j \in 1..c : at[j] = t
      BY <1>3
    <3>2. t < at[k] <=> j < k
      BY <1>4, <3>1
    <3>3. ASSUME NEW i \in 1..k - 1, at[i] = t PROVE i = j
      <4>1. i \in 1..c /\ ~(at[i] < at[j]) /\ ~(at[j] < at[i])
        BY <1>1, <1>2, <1>3, <3>1, <3>3
      <4>2. ~(i < j) /\ ~(j < i)
        BY <1>4, <4>1
      <4> QED
        BY <4>2
    <3> QED
      BY <3>1, <3>2, <3>3
  <2>2. Least(k - 1) \subseteq S /\ Least(k) \subseteq S
    BY <1>2, <1>3
  <2>3. ASSUME NEW t \in S PROVE t > at[k] <=> t \notin Least(k)
    <3>1. t \in Least(k) <=> t \in Least(k - 1) \/ t = at[k]
      BY <1>2
    <3>2. t \in Nat /\ at[k] \in Nat
      BY <1>1, <1>3
    <3> QED
      BY <2>1, <3>1, <3>2
  <2> QED
    BY <2>1, <2>2, <2>3
<1> HIDE DEF Least
<1>7. ASSUME NEW s \in S
      PROVE  \E k \in 1..c : /\ s = at[k] /\ Cardinality({t \in S : t < s}) = k - 1
                             /\ Cardinality({t \in S : t > s}) = c - k
  <2>1. PICK k \in 1..c : s = at[k]
    BY <1>3
  <2>2. k - 1 \in 0..c /\ k \in 0..c
    BY <1>2
  <2>3. Cardinality({t \in S : t < s}) = k - 1
    BY <1>5, <1>6, <2>1, <2>2
  <2>4. S \cap Least(k) = Least(k) /\ Cardinality(Least(k)) = k
    BY <1>5, <1>6, <2>2
  <2>5. Cardinality(S \ Least(k)) = c - k
    <3>1. Cardinality(S \ Least(k)) = Cardinality(S) - Cardinality(S \cap Least(k))
      BY <1>1, FS_Difference
    <3> QED
      BY <1>2, <2>4, <3>1
  <2> QED
    BY <1>6, <2>1, <2>3, <2>5
<1>8. ASSUME NEW m \in 0..c
      PROVE  Cardinality({s \in S : Cardinality({t \in S : t < s}) < m}) = m
  <2>1. \A k \in 1..c : Cardinality({t \in S : t < at[k]}) = k - 1
    <3> TAKE k \in 1..c
    <3>1. k - 1 \in 0..c
      BY <1>2
    <3> QED
      BY <1>5, <1>6, <3>1
  <2>2. {s \in S : Cardinality({t \in S : t < s}) < m} = Least(m)
    <3>1. ASSUME NEW s \in S, Cardinality({t \in S : t < s}) < m PROVE s \in Least(m)
      <4>1. PICK k \in 1..c : s = at[k]
        BY <1>3
      <4>2. k - 1 < m
        BY <2>1, <3>1, <4>1
      <4> QED
        BY <1>2, <4>1, <4>2 DEF Least
    <3>2. ASSUME NEW s \in Least(m) PROVE s \in S /\ Cardinality({t \in S : t < s}) < m
      <4>1. PICK k \in 1..m : s = at[k]
        BY DEF Least
      <4>2. k \in 1..c
        BY <1>2
      <4> QED
        BY <1>3, <2>1, <4>1, <4>2
    <3> QED
      BY <3>1, <3>2
  <2> QED
    BY <1>5, <2>2
<1>10. ASSUME NEW s \in S
       PROVE  /\ Cardinality({t \in S : t < s}) + Cardinality({t \in S : t > s}) + 1 = c
              /\ Cardinality({t \in S : t < s}) \in Nat
  <2>1. PICK k \in 1..c : /\ Cardinality({t \in S : t < s}) = k - 1
                          /\ Cardinality({t \in S : t > s}) = c - k
    BY <1>7
  <2> QED
    BY <1>2, <2>1
<1>11. \A m \in 0..Cardinality(S) :
         Cardinality({s \in S : Cardinality({t \in S : t < s}) < m}) = m
  BY <1>2, <1>8
<1> QED
  BY <1>1, <1>2, <1>10, <1>11

Saved == UNION {[D -> Nat] : D \in SUBSET WorkFile}
CpDirectory == [manifest : BOOLEAN, entries : Saved]

CheckpointTypes ==
  /\ workFiles \in [WorkFile -> Nat] /\ cpEdits \in Nat /\ cpCaptures \in Nat
  /\ Captures \subseteq 1..cpCaptures /\ cpDirs \in [Captures -> CpDirectory]
  /\ cpHistory \in Seq(Saved)
  /\ cpJob \in [pc : {"idle", "copy", "evict", "restore"}, seq : Nat, todo : SUBSET WorkFile]
  /\ cpJob.pc = "idle" => cpJob = NoJob

\* A capture is at work at the newest directory, an undo takes it from the newest one.
AtNewest ==
  cpJob.pc \in {"copy", "restore"} =>
    /\ cpJob.seq \in Captures /\ \A s \in Captures : s <= cpJob.seq
    /\ cpDirs[cpJob.seq].manifest <=> cpJob.pc = "restore"
    /\ cpJob.pc = "restore" => cpJob.todo \subseteq DOMAIN cpDirs[cpJob.seq].entries

\* The capture that is in progress is the last of the history.
InProgress == IF cpJob.pc = "copy" THEN 1 ELSE 0

LengthsAgree ==
  /\ cpJob.pc = "copy" => Len(cpHistory) > 0
  /\ \A s \in Finished : Newer(s) < Len(cpHistory) - InProgress
EntriesAgree ==
  ~cpUnread /\ ~cpCut =>
    /\ cpJob.pc = "copy" => cpDirs[cpJob.seq].entries = cpHistory[Len(cpHistory)]
    /\ \A s \in Finished : cpDirs[s].entries = cpHistory[Len(cpHistory) - InProgress - Newer(s)]

\* Unless something was cut short, every directory is a checkpoint, but the one that is
\* being captured, and the history has no others.
NoneMissing ==
  ~cpInterrupted =>
    /\ \A s \in Captures : cpDirs[s].manifest \/ (cpJob.pc = "copy" /\ s = cpJob.seq)
    /\ Cardinality(Captures) = Len(cpHistory)

CheckpointInv == CheckpointTypes /\ AtNewest /\ LengthsAgree /\ EntriesAgree /\ NoneMissing

\* The directories are finitely many, of numbers.
LEMMA DirsFinite ==
  ASSUME CheckpointTypes
  PROVE  /\ IsFiniteSet(Captures) /\ Cardinality(Captures) \in Nat
         /\ Finished \subseteq Captures /\ IsFiniteSet(Finished)
         /\ \A s \in Captures : s \in Nat
         /\ \A s : IsFiniteSet({t \in Finished : t > s}) /\ Newer(s) \in Nat
         /\ \A s \in Captures : (\A t \in Captures : t <= s) => Newer(s) = 0
<1>1. Captures \subseteq 1..cpCaptures /\ cpCaptures \in Nat
  BY DEF CheckpointTypes
<1>2. IsFiniteSet(1..cpCaptures)
  BY <1>1, FS_Interval
<1>3. IsFiniteSet(Captures)
  BY <1>1, <1>2, FS_Subset
<1>4. Finished \subseteq Captures
  BY DEF Finished
<1>5. IsFiniteSet(Finished)
  BY <1>3, <1>4, FS_Subset
<1>6. \A s \in Captures : s \in Nat
  BY <1>1
<1>7. ASSUME NEW s PROVE IsFiniteSet({t \in Finished : t > s}) /\ Newer(s) \in Nat
  <2>1. IsFiniteSet({t \in Finished : t > s})
    BY <1>5, FS_Subset
  <2> QED
    BY <2>1, FS_CardinalityType DEF Newer
<1>8. ASSUME NEW s \in Captures, \A t \in Captures : t <= s PROVE Newer(s) = 0
  <2>1. {t \in Finished : t > s} = {}
    BY <1>4, <1>6, <1>8
  <2> QED
    BY <2>1, FS_EmptySet DEF Newer
<1> QED
  BY <1>3, <1>4, <1>5, <1>6, <1>7, <1>8, FS_CardinalityType

\* The newest directory.
LEMMA LatestIsNewest ==
  ASSUME CheckpointTypes
  PROVE  /\ LatestSeq \in Nat /\ LatestSeq <= cpCaptures
         /\ LatestSeq # 0 => LatestSeq \in Captures
         /\ \A s \in Captures : s <= LatestSeq
<1>1. Captures \subseteq 1..cpCaptures /\ cpCaptures \in Nat
  BY DEF CheckpointTypes
<1>2. PICK T : T = {0} \cup Captures
  OBVIOUS
<1>3. T \subseteq 0..cpCaptures /\ T # {}
  BY <1>1, <1>2
<1>4. \E x \in T : \A y \in T : x >= y
  BY <1>1, <1>3, GreatestUpTo
<1>5. LatestSeq \in T /\ \A y \in T : LatestSeq >= y
  BY <1>2, <1>4 DEF LatestSeq, Max
<1> QED
  BY <1>1, <1>2, <1>3, <1>5

LEMMA CheckpointInitially == CheckpointInit => CheckpointInv
<1> SUFFICES ASSUME CheckpointInit PROVE CheckpointInv
  OBVIOUS
<1>1. Captures = {} /\ Finished = {}
  BY DEF CheckpointInit, Captures, Finished
<1>2. cpHistory = <<>> /\ Len(cpHistory) = 0 /\ cpJob = NoJob /\ cpJob.pc = "idle"
  BY DEF CheckpointInit, NoJob, Job
<1>3. cpDirs \in [{} -> CpDirectory]
  BY DEF CheckpointInit
<1>4. CheckpointTypes
  BY <1>1, <1>2, <1>3 DEF CheckpointTypes, CheckpointInit, NoJob, Job
<1>5. Cardinality(Captures) = 0
  BY <1>1, FS_EmptySet
<1> QED
  BY <1>1, <1>2, <1>4, <1>5 DEF CheckpointInv, AtNewest, LengthsAgree, EntriesAgree, NoneMissing

\* What is saved of one more file.
LEMMA SavedMore ==
  ASSUME NEW entries \in Saved, NEW f \in WorkFile, NEW content \in Nat
  PROVE  AlsoSaved(entries, f, content) \in Saved
<1>1. PICK D \in SUBSET WorkFile : entries \in [D -> Nat]
  BY DEF Saved
<1>2. AlsoSaved(entries, f, content) \in [D \cup {f} -> Nat]
  BY <1>1 DEF AlsoSaved
<1> QED
  BY <1>2 DEF Saved

\* Of the same finished directories as many are newer.
LEMMA NewerStays == ASSUME Finished' = Finished PROVE \A s : Newer(s)' = Newer(s)
  BY DEF Newer

\* What changes neither the directories nor the history keeps the invariant, if it does
\* not begin or end a capture.
LEMMA NothingMoves ==
  ASSUME CheckpointInv, CheckpointTypes', AtNewest', UNCHANGED <<cpDirs, cpHistory>>,
         cpJob.pc = "copy" <=> cpJob'.pc = "copy",
         cpJob.pc = "copy" => cpJob'.seq = cpJob.seq,
         cpUnread => cpUnread', cpCut => cpCut', cpInterrupted => cpInterrupted'
  PROVE  CheckpointInv'
<1>1. Captures' = Captures /\ Finished' = Finished /\ InProgress' = InProgress
  BY DEF Captures, Finished, InProgress
<1>2. \A s : Newer(s)' = Newer(s)
  BY <1>1, NewerStays
<1>3. LengthsAgree'
  BY <1>1, <1>2 DEF CheckpointInv, LengthsAgree
<1>4. EntriesAgree'
  BY <1>1, <1>2 DEF CheckpointInv, EntriesAgree
<1>5. NoneMissing'
  BY <1>1 DEF CheckpointInv, NoneMissing
<1> QED
  BY <1>3, <1>4, <1>5 DEF CheckpointInv

LEMMA StartCaptureKeeps ==
  ASSUME CheckpointInv, NEW files \in SUBSET WorkFile, StartCapture(files)
  PROVE  CheckpointInv'
<1>1. PICK n \in Nat : n = Len(cpHistory)
  BY DEF CheckpointInv, CheckpointTypes
<1>2. PICK q \in Nat : /\ q = NextSeq /\ q \notin Captures /\ q \in 1..cpCaptures + 1
                       /\ \A s \in Captures : s < q /\ s \in Nat
  <2>1. CheckpointTypes /\ cpCaptures \in Nat
    BY DEF CheckpointInv, CheckpointTypes
  <2>2. \A s \in Captures : s \in Nat
    BY <2>1, DirsFinite
  <2> QED
    BY <2>1, <2>2, LatestIsNewest DEF NextSeq
<1>3. /\ cpJob = NoJob /\ cpJob.pc = "idle" /\ cpJob' = Job("copy", q, files)
      /\ cpJob'.pc = "copy" /\ cpJob'.seq = q
      /\ cpCaptures' = cpCaptures + 1
      /\ cpDirs' = [s \in Captures \cup {q} |->
                      IF s \in Captures THEN cpDirs[s] ELSE [manifest |-> FALSE, entries |-> <<>>]]
      /\ cpHistory' = Append(cpHistory, <<>>)
      /\ UNCHANGED <<workFiles, cpEdits, cpUnread, cpInterrupted, cpCut>>
  BY <1>2 DEF StartCapture, NoJob, Job, cpFlags
<1>4. /\ Captures' = Captures \cup {q}
      /\ \A s \in Captures : cpDirs'[s] = cpDirs[s]
      /\ cpDirs'[q] = [manifest |-> FALSE, entries |-> <<>>]
  BY <1>2, <1>3 DEF Captures
<1>5. Finished' = Finished
  BY <1>2, <1>4 DEF Finished
<1>6. \A s : Newer(s)' = Newer(s) /\ Newer(s) \in Nat
  BY <1>5, NewerStays, DirsFinite DEF CheckpointInv
<1>7. <<>> \in Saved
  <2>1. <<>> \in [{} -> Nat]
    OBVIOUS
  <2> QED
    BY <2>1 DEF Saved
<1>8. /\ cpHistory' \in Seq(Saved) /\ Len(cpHistory') = n + 1 /\ cpHistory'[n + 1] = <<>>
      /\ \A i \in 1..n : cpHistory'[i] = cpHistory[i]
  BY <1>1, <1>3, <1>7 DEF CheckpointInv, CheckpointTypes
<1>9. CheckpointTypes'
  <2>1. /\ workFiles' \in [WorkFile -> Nat] /\ cpEdits' \in Nat /\ cpCaptures' \in Nat
        /\ Captures' \subseteq 1..cpCaptures'
    BY <1>2, <1>3, <1>4 DEF CheckpointInv, CheckpointTypes
  <2>2. cpDirs' \in [Captures' -> CpDirectory]
    <3>1. \A s \in Captures : cpDirs[s] \in CpDirectory
      BY DEF CheckpointInv, CheckpointTypes
    <3>2. [manifest |-> FALSE, entries |-> <<>>] \in CpDirectory
      BY <1>7 DEF CpDirectory
    <3> QED
      BY <1>3, <1>4, <3>1, <3>2
  <2>3. cpJob' \in [pc : {"idle", "copy", "evict", "restore"}, seq : Nat, todo : SUBSET WorkFile]
    BY <1>2, <1>3 DEF Job
  <2> QED
    BY <1>3, <1>8, <2>1, <2>2, <2>3 DEF CheckpointTypes
<1>10. AtNewest'
  <2>1. cpDirs'[q].manifest = FALSE
    BY <1>4
  <2> QED
    BY <1>2, <1>3, <1>4, <2>1 DEF AtNewest
<1>11. InProgress = 0 /\ InProgress' = 1
  BY <1>3 DEF InProgress
<1>12. \A s \in Finished : Newer(s) < n /\ n - Newer(s) \in 1..n
  BY <1>1, <1>6, <1>11 DEF CheckpointInv, LengthsAgree
<1>13. LengthsAgree'
  BY <1>1, <1>5, <1>6, <1>8, <1>11, <1>12 DEF LengthsAgree
<1>14. EntriesAgree'
  <2> SUFFICES ASSUME ~cpUnread, ~cpCut
               PROVE  /\ cpDirs'[q].entries = cpHistory'[n + 1]
                      /\ \A s \in Finished : cpDirs'[s].entries = cpHistory'[n - Newer(s)]
    <3>1. \A s \in Finished : (n + 1) - 1 - Newer(s) = n - Newer(s)
      BY <1>6
    <3> QED
      BY <1>3, <1>5, <1>6, <1>8, <1>11, <3>1 DEF EntriesAgree
  <2>1. \A s \in Finished : s \in Captures /\ cpDirs[s].entries = cpHistory[n - Newer(s)]
    <3>1. \A s \in Finished : n - 0 - Newer(s) = n - Newer(s)
      BY <1>6
    <3> QED
      BY <1>1, <1>11, <3>1 DEF CheckpointInv, EntriesAgree, Finished
  <2> QED
    BY <1>4, <1>8, <1>12, <2>1
<1>15. NoneMissing'
  <2> SUFFICES ASSUME ~cpInterrupted
               PROVE  /\ \A s \in Captures \cup {q} : cpDirs'[s].manifest \/ s = q
                      /\ Cardinality(Captures \cup {q}) = n + 1
    BY <1>3, <1>4, <1>8 DEF NoneMissing
  <2>1. \A s \in Captures : cpDirs[s].manifest
    BY <1>3 DEF CheckpointInv, NoneMissing
  <2>2. Cardinality(Captures) = n
    BY <1>1 DEF CheckpointInv, NoneMissing
  <2>3. IsFiniteSet(Captures)
    BY DirsFinite DEF CheckpointInv
  <2>4. Cardinality(Captures \cup {q}) = n + 1
    BY <1>2, <2>2, <2>3, FS_AddElement
  <2> QED
    BY <1>4, <2>1, <2>4
<1> QED
  BY <1>9, <1>10, <1>13, <1>14, <1>15 DEF CheckpointInv

LEMMA CopyEntryKeeps ==
  ASSUME CheckpointInv, NEW f \in WorkFile, CopyEntry(f)
  PROVE  CheckpointInv'
<1>1. PICK n \in Nat : n = Len(cpHistory) /\ n > 0
  BY DEF CheckpointInv, CheckpointTypes, LengthsAgree, CopyEntry
<1>2. PICK q \in Captures : q = cpJob.seq /\ ~cpDirs[q].manifest /\ \A s \in Captures : s <= q
  BY DEF CheckpointInv, AtNewest, CopyEntry
<1>3. PICK failed \in BOOLEAN :
        /\ cpUnread' = (cpUnread \/ failed)
        /\ cpDirs' = [cpDirs EXCEPT ![q].entries =
                        AlsoSaved(cpDirs[q].entries, f, IF failed THEN 0 ELSE workFiles[f])]
  BY <1>2 DEF CopyEntry
<1>4. /\ cpJob.pc = "copy" /\ cpJob' = [cpJob EXCEPT !.todo = cpJob.todo \ {f}]
      /\ cpHistory' = [cpHistory EXCEPT ![n] = AlsoSaved(cpHistory[n], f, workFiles[f])]
      /\ UNCHANGED <<workFiles, cpCaptures, cpEdits, cpInterrupted, cpCut>>
  BY <1>1 DEF CopyEntry
<1>5. cpJob'.pc = "copy" /\ cpJob'.seq = q
  BY <1>2, <1>4 DEF CheckpointInv, CheckpointTypes
<1>6. \A s \in Captures : cpDirs[s] \in CpDirectory
  BY DEF CheckpointInv, CheckpointTypes
<1>7. /\ Captures' = Captures
      /\ \A s \in Captures : s # q => cpDirs'[s] = cpDirs[s]
      /\ cpDirs'[q].manifest = cpDirs[q].manifest
      /\ cpDirs'[q].entries = AlsoSaved(cpDirs[q].entries, f, IF failed THEN 0 ELSE workFiles[f])
  BY <1>2, <1>3, <1>6 DEF Captures, CpDirectory
<1>8. Finished' = Finished /\ q \notin Finished
  BY <1>2, <1>7 DEF Finished
<1>9. \A s : Newer(s)' = Newer(s) /\ Newer(s) \in Nat
  BY <1>8, NewerStays, DirsFinite DEF CheckpointInv
<1>10. workFiles[f] \in Nat /\ (IF failed THEN 0 ELSE workFiles[f]) \in Nat
  BY DEF CheckpointInv, CheckpointTypes
<1>11. /\ cpHistory' \in Seq(Saved) /\ Len(cpHistory') = n
       /\ cpHistory'[n] = AlsoSaved(cpHistory[n], f, workFiles[f])
       /\ \A i \in 1..n - 1 : cpHistory'[i] = cpHistory[i]
  <2>1. cpHistory \in Seq(Saved) /\ cpHistory[n] \in Saved
    BY <1>1 DEF CheckpointInv, CheckpointTypes
  <2>2. AlsoSaved(cpHistory[n], f, workFiles[f]) \in Saved
    BY <1>10, <2>1, SavedMore
  <2> QED
    BY <1>1, <1>4, <2>1, <2>2
<1>12. CheckpointTypes'
  <2>1. cpDirs[q].entries \in Saved /\ cpDirs[q].manifest \in BOOLEAN
    BY <1>2, <1>6 DEF CpDirectory
  <2>2. PICK e \in Saved : e = AlsoSaved(cpDirs[q].entries, f, IF failed THEN 0 ELSE workFiles[f])
    BY <1>10, <2>1, SavedMore
  <2>3. cpDirs' = [cpDirs EXCEPT ![q] = [cpDirs[q] EXCEPT !.entries = e]]
    BY <1>2, <1>3, <2>2
  <2>4. [cpDirs[q] EXCEPT !.entries = e] \in CpDirectory
    BY <1>2, <1>6 DEF CpDirectory
  <2>5. cpDirs' \in [Captures -> CpDirectory]
    BY <2>3, <2>4 DEF CheckpointInv, CheckpointTypes
  <2>6. cpJob' \in [pc : {"idle", "copy", "evict", "restore"}, seq : Nat, todo : SUBSET WorkFile]
    BY <1>4 DEF CheckpointInv, CheckpointTypes
  <2> QED
    BY <1>4, <1>5, <1>7, <1>11, <2>5, <2>6 DEF CheckpointInv, CheckpointTypes
<1>13. AtNewest'
  BY <1>2, <1>5, <1>7 DEF AtNewest
<1>14. InProgress = 1 /\ InProgress' = 1
  BY <1>4, <1>5 DEF InProgress
<1>15. LengthsAgree'
  BY <1>1, <1>8, <1>9, <1>11, <1>14 DEF CheckpointInv, LengthsAgree
<1>16. EntriesAgree'
  <2> SUFFICES ASSUME ~cpUnread, ~failed, ~cpCut
               PROVE  /\ cpDirs'[q].entries = cpHistory'[n]
                      /\ \A s \in Finished : cpDirs'[s].entries = cpHistory'[n - 1 - Newer(s)]
    BY <1>3, <1>4, <1>5, <1>8, <1>9, <1>11, <1>14 DEF EntriesAgree
  <2>1. cpDirs'[q].entries = cpHistory'[n]
    BY <1>1, <1>2, <1>4, <1>7, <1>11 DEF CheckpointInv, EntriesAgree
  <2>2. ASSUME NEW s \in Finished PROVE cpDirs'[s].entries = cpHistory'[n - 1 - Newer(s)]
    <3>1. n - 1 - Newer(s) \in 1..n - 1
      BY <1>1, <1>9, <1>14 DEF CheckpointInv, LengthsAgree
    <3>2. cpDirs[s].entries = cpHistory[n - 1 - Newer(s)]
      BY <1>1, <1>14 DEF CheckpointInv, EntriesAgree
    <3>3. cpDirs'[s] = cpDirs[s]
      BY <1>7, <1>8 DEF Finished
    <3> QED
      BY <1>11, <3>1, <3>2, <3>3
  <2> QED
    BY <2>1, <2>2
<1>17. NoneMissing'
  BY <1>1, <1>2, <1>4, <1>5, <1>7, <1>11 DEF CheckpointInv, NoneMissing
<1> QED
  BY <1>12, <1>13, <1>15, <1>16, <1>17 DEF CheckpointInv

\* The capture in progress becomes a checkpoint, newer than all others.
LEMMA ManifestKeeps == ASSUME CheckpointInv, WriteManifest PROVE CheckpointInv'
<1>1. PICK n \in Nat : n = Len(cpHistory) /\ n > 0
  BY DEF CheckpointInv, CheckpointTypes, LengthsAgree, WriteManifest
<1>2. PICK q \in Captures : q = cpJob.seq /\ ~cpDirs[q].manifest /\ \A s \in Captures : s <= q
  BY DEF CheckpointInv, AtNewest, WriteManifest
<1>3. /\ cpJob.pc = "copy" /\ cpJob' = Job("evict", 0, {}) /\ cpJob'.pc = "evict"
      /\ cpDirs' = [cpDirs EXCEPT ![q].manifest = TRUE]
      /\ UNCHANGED <<workFiles, cpCaptures, cpEdits, cpHistory, cpUnread, cpInterrupted, cpCut>>
  BY <1>2 DEF WriteManifest, Job, cpBounds, cpFlags
<1>4. \A s \in Captures : cpDirs[s] \in CpDirectory /\ s \in Nat
  BY DirsFinite DEF CheckpointInv, CheckpointTypes
<1>5. /\ Captures' = Captures
      /\ \A s \in Captures : s # q => cpDirs'[s] = cpDirs[s]
      /\ \A s \in Captures : cpDirs'[s].entries = cpDirs[s].entries
      /\ cpDirs'[q].manifest
  BY <1>2, <1>3, <1>4 DEF Captures, CpDirectory
<1>6. Finished' = Finished \cup {q} /\ q \notin Finished /\ Finished \subseteq Captures
  BY <1>2, <1>5 DEF Finished
<1>7. ASSUME NEW s \in Finished PROVE Newer(s)' = Newer(s) + 1 /\ Newer(s) \in Nat
  <2>1. s < q /\ s \in Nat
    BY <1>2, <1>4, <1>6
  <2>2. {t \in Finished' : t > s} = {t \in Finished : t > s} \cup {q} /\ q \notin {t \in Finished : t > s}
    BY <1>2, <1>4, <1>6, <2>1
  <2>3. IsFiniteSet({t \in Finished : t > s}) /\ Newer(s) \in Nat
    BY DirsFinite DEF CheckpointInv
  <2>4. Cardinality({t \in Finished : t > s} \cup {q}) = Newer(s) + 1
    BY <2>2, <2>3, FS_AddElement DEF Newer
  <2> QED
    BY <2>2, <2>3, <2>4 DEF Newer
<1>8. Newer(q)' = 0
  <2>1. {t \in Finished' : t > q} = {}
    BY <1>2, <1>4, <1>6
  <2> QED
    BY <2>1, FS_EmptySet DEF Newer
<1>9. CheckpointTypes'
  <2>1. cpDirs' \in [Captures -> CpDirectory]
    <3>1. cpDirs' = [cpDirs EXCEPT ![q] = [cpDirs[q] EXCEPT !.manifest = TRUE]]
      BY <1>2, <1>3
    <3>2. [cpDirs[q] EXCEPT !.manifest = TRUE] \in CpDirectory
      BY <1>2, <1>4 DEF CpDirectory
    <3> QED
      BY <3>1, <3>2 DEF CheckpointInv, CheckpointTypes
  <2>2. cpJob' \in [pc : {"idle", "copy", "evict", "restore"}, seq : Nat, todo : SUBSET WorkFile]
    BY <1>3 DEF Job
  <2> QED
    BY <1>3, <1>5, <2>1, <2>2 DEF CheckpointInv, CheckpointTypes
<1>10. AtNewest'
  BY <1>3 DEF AtNewest
<1>11. InProgress = 1 /\ InProgress' = 0
  BY <1>3 DEF InProgress
<1>12. \A s \in Finished : Newer(s) < n - 1
  BY <1>1, <1>11 DEF CheckpointInv, LengthsAgree
<1>13. LengthsAgree'
  <2>1. \A s \in Finished' : Newer(s)' < n - 0
    BY <1>1, <1>6, <1>7, <1>8, <1>12
  <2> QED
    BY <1>1, <1>3, <1>11, <2>1 DEF LengthsAgree
<1>14. EntriesAgree'
  <2> SUFFICES ASSUME ~cpUnread, ~cpCut, NEW s \in Finished'
               PROVE  cpDirs'[s].entries = cpHistory[n - 0 - Newer(s)']
    BY <1>1, <1>3, <1>11 DEF EntriesAgree
  <2>1. CASE s = q
    <3>1. cpDirs[q].entries = cpHistory[n] /\ n - 0 - 0 = n
      BY <1>1, <1>2, <1>3 DEF CheckpointInv, EntriesAgree
    <3> QED
      BY <1>2, <1>5, <1>8, <2>1, <3>1
  <2>2. CASE s \in Finished
    <3>1. cpDirs[s].entries = cpHistory[n - 1 - Newer(s)]
      BY <1>1, <1>11, <2>2 DEF CheckpointInv, EntriesAgree
    <3>2. n - 1 - Newer(s) = n - 0 - (Newer(s) + 1)
      BY <1>7, <2>2
    <3> QED
      BY <1>5, <1>6, <1>7, <2>2, <3>1, <3>2
  <2> QED
    BY <1>6, <2>1, <2>2
<1>15. NoneMissing'
  BY <1>1, <1>2, <1>3, <1>5 DEF CheckpointInv, NoneMissing
<1> QED
  BY <1>9, <1>10, <1>13, <1>14, <1>15 DEF CheckpointInv

\* What happens to the history when its last entry goes.
LEMMA LastGone ==
  ASSUME CheckpointTypes, Len(cpHistory) > 0
  PROVE  /\ Front(cpHistory) \in Seq(Saved) /\ Len(Front(cpHistory)) = Len(cpHistory) - 1
         /\ \A i \in 1..Len(cpHistory) - 1 : Front(cpHistory)[i] = cpHistory[i]
<1>1. cpHistory \in Seq(Saved)
  BY DEF CheckpointTypes
<1>2. PICK n \in Nat : n = Len(cpHistory) /\ n > 0
  BY <1>1
<1>3. Front(cpHistory) = SubSeq(cpHistory, 1, n - 1)
  BY <1>2 DEF Front
<1> QED
  BY <1>1, <1>2, <1>3

\* The newest checkpoint is no longer one, the history loses its last entry.
LEMMA NewestGone ==
  ASSUME CheckpointInv, cpJob.pc = "restore", cpJob'.pc # "copy",
         Finished' = Finished \ {cpJob.seq},
         \A s \in Finished' : cpDirs'[s].entries = cpDirs[s].entries,
         cpHistory' = Front(cpHistory), UNCHANGED <<cpUnread, cpCut>>
  PROVE  /\ Len(cpHistory) > 0 /\ cpHistory' \in Seq(Saved)
         /\ Len(cpHistory') = Len(cpHistory) - 1
         /\ LengthsAgree' /\ EntriesAgree'
<1>1. CheckpointTypes
  BY DEF CheckpointInv
<1>2. PICK q \in Captures : /\ q = cpJob.seq /\ q \in Finished /\ \A s \in Captures : s <= q
  BY DEF CheckpointInv, AtNewest, Finished
<1>3. InProgress = 0 /\ InProgress' = 0
  BY DEF InProgress
<1>4. PICK n \in Nat : n = Len(cpHistory)
  BY <1>1 DEF CheckpointTypes
<1>5. \A s \in Finished : Newer(s) \in Nat /\ Newer(s) < n
  <2>1. \A s \in Finished : Newer(s) < n - 0
    BY <1>3, <1>4 DEF CheckpointInv, LengthsAgree
  <2>2. \A s : Newer(s) \in Nat
    BY <1>1, DirsFinite
  <2> QED
    BY <2>1, <2>2
<1>6. n > 0
  BY <1>2, <1>5
<1>7. /\ cpHistory' \in Seq(Saved) /\ Len(cpHistory') = n - 1
      /\ \A i \in 1..n - 1 : cpHistory'[i] = cpHistory[i]
  BY <1>1, <1>4, <1>6, LastGone
<1>8. ASSUME NEW s \in Finished' PROVE Newer(s)' = Newer(s) - 1 /\ n - 1 - 0 - Newer(s)' \in 1..n - 1
  <2>1. s \in Finished /\ s < q
    <3>1. s \in Finished /\ s \in Captures /\ s # q
      BY <1>2, DirsFinite, <1>1
    <3>2. s <= q /\ s \in Nat /\ q \in Nat
      BY <1>1, <1>2, <3>1, DirsFinite
    <3> QED
      BY <3>1, <3>2
  <2>2. {t \in Finished' : t > s} = {t \in Finished : t > s} \ {q} /\ q \in {t \in Finished : t > s}
    <3>1. q > s
      BY <1>1, <1>2, <2>1, DirsFinite
    <3> QED
      BY <1>2, <3>1
  <2>3. IsFiniteSet({t \in Finished : t > s})
    BY <1>1, DirsFinite
  <2>4. Cardinality({t \in Finished : t > s} \ {q}) = Cardinality({t \in Finished : t > s}) - 1
    BY <2>2, <2>3, FS_RemoveElement
  <2>5. Newer(s)' = Newer(s) - 1
    BY <2>2, <2>4 DEF Newer
  <2>6. Cardinality({t \in Finished : t > s} \ {q}) \in Nat
    BY <2>3, FS_RemoveElement, FS_CardinalityType
  <2>7. Newer(s) - 1 \in Nat
    BY <2>4, <2>6 DEF Newer
  <2> QED
    BY <1>5, <2>1, <2>5, <2>7
<1>9. LengthsAgree'
  <2>1. \A s \in Finished' : Newer(s)' < n - 1 - 0
    BY <1>5, <1>8
  <2> QED
    BY <1>3, <1>7, <2>1 DEF LengthsAgree
<1>10. EntriesAgree'
  <2> SUFFICES ASSUME ~cpUnread, ~cpCut, NEW s \in Finished'
               PROVE  cpDirs'[s].entries = cpHistory'[n - 1 - 0 - Newer(s)']
    BY <1>3, <1>7 DEF EntriesAgree
  <2>1. s \in Finished
    OBVIOUS
  <2>2. cpDirs[s].entries = cpHistory[n - 0 - Newer(s)]
    BY <1>3, <1>4, <2>1 DEF CheckpointInv, EntriesAgree
  <2>3. n - 0 - Newer(s) = n - 1 - 0 - (Newer(s) - 1)
    BY <1>5, <2>1
  <2> QED
    BY <1>7, <1>8, <2>2, <2>3
<1> QED
  BY <1>4, <1>6, <1>7, <1>9, <1>10

LEMMA RestoreKeeps ==
  ASSUME CheckpointInv, StartRestore \/ \E f \in WorkFile : RestoreEntry(f) \/ EditFile(f)
  PROVE  CheckpointInv'
<1>1. CheckpointTypes /\ \A s \in Captures : cpDirs[s] \in CpDirectory
  BY DEF CheckpointInv, CheckpointTypes
<1>2. CASE StartRestore
  <2>1. PICK q \in Captures : /\ q = LatestSeq /\ q \in Nat /\ cpDirs[q].manifest
                              /\ \A s \in Captures : s <= q
    BY <1>1, <1>2, LatestIsNewest DEF StartRestore
  <2>2. /\ cpJob = NoJob /\ cpJob.pc = "idle" /\ cpJob' = Job("restore", q, DOMAIN cpDirs[q].entries)
        /\ UNCHANGED <<workFiles, cpDirs, cpCaptures, cpEdits, cpHistory, cpUnread, cpInterrupted, cpCut>>
    BY <1>2, <2>1 DEF StartRestore, NoJob, Job, cpBounds, cpFlags
  <2>3. cpJob'.pc = "restore" /\ cpJob'.seq = q /\ cpJob'.todo = DOMAIN cpDirs[q].entries
    BY <2>2 DEF Job
  <2>4. DOMAIN cpDirs[q].entries \subseteq WorkFile
    <3>1. cpDirs[q].entries \in Saved
      BY <1>1, <2>1 DEF CpDirectory
    <3>2. PICK D \in SUBSET WorkFile : cpDirs[q].entries \in [D -> Nat]
      BY <3>1 DEF Saved
    <3> QED
      BY <3>2
  <2>5. Captures' = Captures
    BY <2>2 DEF Captures
  <2>6. CheckpointTypes'
    <3>1. cpJob' \in [pc : {"idle", "copy", "evict", "restore"}, seq : Nat, todo : SUBSET WorkFile]
      BY <2>1, <2>2, <2>4 DEF Job
    <3> QED
      BY <1>1, <2>2, <2>3, <2>5, <3>1 DEF CheckpointTypes
  <2>7. AtNewest'
    BY <2>1, <2>2, <2>3, <2>5 DEF AtNewest
  <2> QED
    BY <2>2, <2>3, <2>6, <2>7, NothingMoves
<1>3. ASSUME NEW f \in WorkFile, RestoreEntry(f) PROVE CheckpointInv'
  <2>1. /\ cpJob.pc = "restore" /\ cpJob' = [cpJob EXCEPT !.todo = cpJob.todo \ {f}]
        /\ workFiles' = [workFiles EXCEPT ![f] = cpDirs[cpJob.seq].entries[f]]
        /\ f \in cpJob.todo
        /\ UNCHANGED <<cpDirs, cpCaptures, cpEdits, cpHistory, cpUnread, cpInterrupted, cpCut>>
    BY <1>3 DEF RestoreEntry, cpBounds, cpFlags
  <2>2. cpJob'.pc = "restore" /\ cpJob'.seq = cpJob.seq /\ cpJob'.todo = cpJob.todo \ {f}
    BY <1>1, <2>1 DEF CheckpointTypes
  <2>3. Captures' = Captures
    BY <2>1 DEF Captures
  <2>4. cpDirs[cpJob.seq].entries[f] \in Nat
    <3>1. cpJob.seq \in Captures /\ f \in DOMAIN cpDirs[cpJob.seq].entries
      BY <2>1 DEF CheckpointInv, AtNewest
    <3>2. cpDirs[cpJob.seq].entries \in Saved
      BY <1>1, <3>1 DEF CpDirectory
    <3>3. PICK D \in SUBSET WorkFile : cpDirs[cpJob.seq].entries \in [D -> Nat]
      BY <3>2 DEF Saved
    <3> QED
      BY <3>1, <3>3
  <2>5. CheckpointTypes'
    <3>1. cpJob' \in [pc : {"idle", "copy", "evict", "restore"}, seq : Nat, todo : SUBSET WorkFile]
      BY <1>1, <2>1 DEF CheckpointTypes
    <3>2. workFiles' \in [WorkFile -> Nat]
      BY <1>1, <2>1, <2>4 DEF CheckpointTypes
    <3> QED
      BY <1>1, <2>1, <2>2, <2>3, <3>1, <3>2 DEF CheckpointTypes
  <2>6. AtNewest'
    BY <2>1, <2>2, <2>3 DEF CheckpointInv, AtNewest
  <2> QED
    BY <2>1, <2>2, <2>5, <2>6, NothingMoves
<1>4. ASSUME NEW f \in WorkFile, EditFile(f) PROVE CheckpointInv'
  <2>1. PICK content \in {0, cpEdits + 1} : workFiles' = [workFiles EXCEPT ![f] = content]
    BY <1>4 DEF EditFile
  <2>2. /\ cpEdits' = cpEdits + 1
        /\ UNCHANGED <<cpDirs, cpJob, cpCaptures, cpHistory, cpUnread, cpInterrupted, cpCut>>
    BY <1>4 DEF EditFile, cpFlags
  <2>3. Captures' = Captures
    BY <2>2 DEF Captures
  <2>4. CheckpointTypes'
    <3>1. content \in Nat /\ cpEdits' \in Nat
      BY <1>1, <2>2 DEF CheckpointTypes
    <3>2. workFiles' \in [WorkFile -> Nat]
      BY <1>1, <2>1, <3>1 DEF CheckpointTypes
    <3> QED
      BY <1>1, <2>2, <2>3, <3>1, <3>2 DEF CheckpointTypes
  <2>5. AtNewest'
    BY <2>2, <2>3 DEF CheckpointInv, AtNewest
  <2> QED
    BY <2>2, <2>4, <2>5, NothingMoves
<1> QED
  BY <1>2, <1>3, <1>4

\* The types stay when nothing runs any more and directories only go.
LEMMA TypesWithFewer ==
  ASSUME CheckpointInv, cpJob' = NoJob, UNCHANGED <<workFiles, cpEdits, cpCaptures>>,
         Captures' \subseteq Captures, cpDirs' \in [Captures' -> CpDirectory],
         cpHistory' \in Seq(Saved)
  PROVE  CheckpointTypes' /\ AtNewest' /\ cpJob'.pc = "idle" /\ InProgress' = 0
<1>1. cpJob'.pc = "idle"
  BY DEF NoJob, Job
<1>2. cpJob' \in [pc : {"idle", "copy", "evict", "restore"}, seq : Nat, todo : SUBSET WorkFile]
  BY DEF NoJob, Job
<1>3. NoJob' = NoJob
  BY DEF NoJob, Job
<1> QED
  BY <1>1, <1>2, <1>3 DEF CheckpointInv, CheckpointTypes, AtNewest, InProgress

LEMMA RemoveKeeps == ASSUME CheckpointInv, RemoveRestored PROVE CheckpointInv'
<1>1. PICK q \in Captures : q = cpJob.seq
  BY DEF CheckpointInv, AtNewest, RemoveRestored
<1>2. /\ cpJob.pc = "restore" /\ cpJob' = NoJob /\ cpHistory' = Front(cpHistory)
      /\ cpDirs' = [s \in Captures \ {q} |-> cpDirs[s]]
      /\ UNCHANGED <<workFiles, cpCaptures, cpEdits, cpUnread, cpInterrupted, cpCut>>
  BY <1>1 DEF RemoveRestored, WithoutDirs, cpBounds, cpFlags
<1>3. Captures' = Captures \ {q} /\ \A s \in Captures' : cpDirs'[s] = cpDirs[s]
  BY <1>2 DEF Captures
<1>4. Finished' = Finished \ {q} /\ \A s \in Finished' : cpDirs'[s].entries = cpDirs[s].entries
  BY <1>3 DEF Finished
<1>5. cpJob'.pc # "copy"
  BY <1>2 DEF NoJob, Job
<1>6. PICK n \in Nat : n = Len(cpHistory)
  BY DEF CheckpointInv, CheckpointTypes
<1>7. /\ cpHistory' \in Seq(Saved) /\ Len(cpHistory') = n - 1 /\ LengthsAgree' /\ EntriesAgree'
  BY <1>1, <1>2, <1>4, <1>5, <1>6, NewestGone
<1>8. cpDirs' \in [Captures' -> CpDirectory]
  <2>1. \A s \in Captures : cpDirs[s] \in CpDirectory
    BY DEF CheckpointInv, CheckpointTypes
  <2> QED
    BY <1>2, <1>3, <2>1
<1>9. CheckpointTypes' /\ AtNewest'
  BY <1>2, <1>3, <1>7, <1>8, TypesWithFewer
<1>10. NoneMissing'
  <2>1. IsFiniteSet(Captures)
    BY DirsFinite DEF CheckpointInv
  <2>2. Cardinality(Captures \ {q}) = Cardinality(Captures) - 1
    BY <1>1, <2>1, FS_RemoveElement
  <2>3. ~cpInterrupted => \A s \in Captures : cpDirs[s].manifest
    BY <1>2 DEF CheckpointInv, NoneMissing
  <2>4. ~cpInterrupted => Cardinality(Captures) = n
    BY <1>6 DEF CheckpointInv, NoneMissing
  <2>5. ~cpInterrupted' => /\ \A s \in Captures' : cpDirs'[s].manifest
                           /\ Cardinality(Captures') = n - 1
    BY <1>2, <1>3, <2>2, <2>3, <2>4
  <2> QED
    BY <1>7, <2>5 DEF NoneMissing
<1> QED
  BY <1>7, <1>9, <1>10 DEF CheckpointInv

LEMMA InterruptKeeps == ASSUME CheckpointInv, Interrupt PROVE CheckpointInv'
<1>1. /\ cpJob' = NoJob /\ UNCHANGED <<workFiles, cpCaptures, cpEdits, cpUnread>>
      /\ cpJob'.pc = "idle"
  BY DEF Interrupt, NoJob, Job
<1>2. PICK n \in Nat : n = Len(cpHistory)
  BY DEF CheckpointInv, CheckpointTypes
<1>3. CheckpointTypes /\ cpDirs \in [Captures -> CpDirectory] /\ cpHistory \in Seq(Saved)
  BY DEF CheckpointInv, CheckpointTypes
<1>4. CASE cpJob.pc = "copy"
  <2>1. UNCHANGED <<cpDirs, cpCut>> /\ cpInterrupted' /\ cpHistory' = Front(cpHistory)
    BY <1>4 DEF Interrupt
  <2>2. n > 0
    BY <1>2, <1>4 DEF CheckpointInv, LengthsAgree
  <2>3. /\ cpHistory' \in Seq(Saved) /\ Len(cpHistory') = n - 1
        /\ \A i \in 1..n - 1 : cpHistory'[i] = cpHistory[i]
    BY <1>2, <1>3, <2>1, <2>2, LastGone
  <2>4. Captures' = Captures /\ Finished' = Finished
    BY <2>1 DEF Captures, Finished
  <2>5. CheckpointTypes' /\ AtNewest' /\ InProgress' = 0
    BY <1>1, <1>3, <2>1, <2>3, <2>4, TypesWithFewer
  <2>6. InProgress = 1
    BY <1>4 DEF InProgress
  <2>7. \A s \in Finished : Newer(s)' = Newer(s) /\ Newer(s) \in Nat /\ Newer(s) < n - 1
    BY <1>2, <1>3, <2>4, <2>6, NewerStays, DirsFinite DEF CheckpointInv, LengthsAgree
  <2>8. LengthsAgree'
    <3>1. \A s \in Finished' : Newer(s)' < n - 1 - 0
      BY <2>4, <2>7
    <3> QED
      BY <1>1, <2>3, <2>5, <3>1 DEF LengthsAgree
  <2>9. EntriesAgree'
    <3> SUFFICES ASSUME ~cpUnread, ~cpCut, NEW s \in Finished
                 PROVE  cpDirs[s].entries = cpHistory'[n - 1 - 0 - Newer(s)']
      BY <1>1, <2>1, <2>3, <2>4, <2>5 DEF EntriesAgree
    <3>1. cpDirs[s].entries = cpHistory[n - 1 - Newer(s)]
      BY <1>2, <2>6 DEF CheckpointInv, EntriesAgree
    <3>2. n - 1 - 0 - Newer(s)' = n - 1 - Newer(s) /\ n - 1 - Newer(s) \in 1..n - 1
      BY <2>7
    <3> QED
      BY <2>3, <3>1, <3>2
  <2> QED
    BY <2>1, <2>5, <2>8, <2>9 DEF CheckpointInv, NoneMissing
<1>5. CASE /\ cpJob.pc # "copy" /\ UNCHANGED <<cpDirs, cpHistory>>
           /\ (cpCut => cpCut') /\ (cpInterrupted => cpInterrupted')
  <2>1. Captures' = Captures
    BY <1>5 DEF Captures
  <2>2. CheckpointTypes' /\ AtNewest'
    BY <1>1, <1>3, <1>5, <2>1, TypesWithFewer
  <2> QED
    BY <1>1, <1>5, <2>2, NothingMoves
<1>6. CASE /\ cpJob.pc = "restore" /\ cpInterrupted' /\ UNCHANGED cpCut
           /\ cpDirs' = [cpDirs EXCEPT ![cpJob.seq].manifest = FALSE]
           /\ cpHistory' = Front(cpHistory)
  <2>1. PICK q \in Captures : q = cpJob.seq
    BY <1>6 DEF CheckpointInv, AtNewest
  <2>2. [cpDirs[q] EXCEPT !.manifest = FALSE] \in CpDirectory
    BY <1>3, <2>1 DEF CpDirectory
  <2>3. cpDirs' = [cpDirs EXCEPT ![q] = [cpDirs[q] EXCEPT !.manifest = FALSE]]
    BY <1>6, <2>1
  <2>4. cpDirs' \in [Captures -> CpDirectory] /\ Captures' = Captures
    BY <1>3, <2>2, <2>3 DEF Captures
  <2>5. ~cpDirs'[q].manifest /\ \A s \in Captures : s # q => cpDirs'[s] = cpDirs[s]
    <3>1. cpDirs[q] \in CpDirectory
      BY <1>3, <2>1
    <3> QED
      BY <1>3, <2>1, <2>3, <3>1 DEF CpDirectory
  <2>6. Finished' = Finished \ {q} /\ \A s \in Finished' : cpDirs'[s].entries = cpDirs[s].entries
    BY <2>4, <2>5 DEF Finished
  <2>7. cpHistory' \in Seq(Saved) /\ LengthsAgree' /\ EntriesAgree'
    BY <1>1, <1>6, <2>1, <2>6, NewestGone
  <2>8. CheckpointTypes' /\ AtNewest'
    BY <1>1, <2>4, <2>7, TypesWithFewer
  <2> QED
    BY <1>6, <2>7, <2>8 DEF CheckpointInv, NoneMissing
<1>7. \/ UNCHANGED <<cpDirs, cpCut>> /\ cpInterrupted' = (cpInterrupted \/ cpJob.pc = "copy")
         /\ cpHistory' = IF cpJob.pc = "copy" THEN Front(cpHistory) ELSE cpHistory
      \/ /\ cpJob.pc = "restore" /\ cpInterrupted' /\ UNCHANGED cpCut
         /\ cpDirs' = [cpDirs EXCEPT ![cpJob.seq].manifest = FALSE]
         /\ cpHistory' = Front(cpHistory)
      \/ cpJob.pc = "restore" /\ cpInterrupted' /\ cpCut' /\ UNCHANGED <<cpDirs, cpHistory>>
  BY DEF Interrupt
<1>8. CASE /\ cpJob.pc # "copy" /\ UNCHANGED <<cpDirs, cpCut>>
           /\ cpInterrupted' = (cpInterrupted \/ cpJob.pc = "copy")
           /\ cpHistory' = IF cpJob.pc = "copy" THEN Front(cpHistory) ELSE cpHistory
  BY <1>5, <1>8
<1>9. CASE cpJob.pc = "restore" /\ cpInterrupted' /\ cpCut' /\ UNCHANGED <<cpDirs, cpHistory>>
  BY <1>5, <1>9
<1> QED
  BY <1>4, <1>6, <1>7, <1>8, <1>9

\* How many entries are before the last m of a list, and the last m.
CutOff(list, m) == IF Len(list) > m THEN Len(list) - m ELSE 0

LEMMA LastOnesOf ==
  ASSUME NEW S, NEW list \in Seq(S), NEW m \in Nat, m > 0
  PROVE  /\ CutOff(list, m) \in Nat
         /\ LastOnes(list, m) \in Seq(S)
         /\ Len(LastOnes(list, m)) = Len(list) - CutOff(list, m)
         /\ \A i \in 1..Len(list) - CutOff(list, m) :
              LastOnes(list, m)[i] = list[i + CutOff(list, m)]
<1>0. PICK n \in Nat : n = Len(list)
  OBVIOUS
<1>1. \A a, b \in Nat : \E d \in Nat : d = (IF a > b THEN a - b ELSE 0)
  <2> SUFFICES ASSUME NEW a \in Nat, NEW b \in Nat
               PROVE  (IF a > b THEN a - b ELSE 0) \in Nat
    OBVIOUS
  <2> QED
    OBVIOUS
<1>2. PICK d \in Nat : d = (IF n > m THEN n - m ELSE 0)
  BY <1>1
<1>3. PICK k \in Int : k = n - m + 1
  <2>1. \A a, b \in Nat : a - b + 1 \in Int
    OBVIOUS
  <2> QED
    BY <2>1
<1>4. Max({1, k}) = d + 1
  <2>1. d + 1 \in {1, k} /\ \A x \in {1, k} : d + 1 >= x
    BY <1>2, <1>3
  <2>2. \A y \in {1, k} : (\A x \in {1, k} : y >= x) => y = d + 1
    BY <2>1
  <2>3. Max({1, k}) \in {1, k} /\ \A x \in {1, k} : Max({1, k}) >= x
    BY <2>1 DEF Max
  <2> QED
    BY <2>2, <2>3
<1>5. LastOnes(list, m) = SubSeq(list, d + 1, n)
  BY <1>0, <1>3, <1>4 DEF LastOnes
<1>6. PICK h : h = SubSeq(list, d + 1, n)
  OBVIOUS
<1>7. h \in Seq(S) /\ Len(h) = n - d /\ \A i \in 1..n - d : h[i] = list[i + d]
  <2>1. d <= n
    BY <1>2
  <2> QED
    BY <1>0, <1>6, <2>1
<1>8. CutOff(list, m) = d
  BY <1>0, <1>2 DEF CutOff
<1> QED
  BY <1>0, <1>5, <1>6, <1>7, <1>8

LEMMA EvictKeeps == ASSUME CheckpointInv, Evict PROVE CheckpointInv'
<1>1. /\ CheckpointTypes /\ Captures \in SUBSET (1..cpCaptures) /\ cpCaptures \in Nat
      /\ \A s \in Captures : cpDirs[s] \in CpDirectory
  BY DEF CheckpointInv, CheckpointTypes
<1>2. MaxCheckpoints \in Nat /\ MaxCheckpoints > 0
  BY CheckpointAssumption
<1>3. PICK n \in Nat : n = Len(cpHistory)
  BY <1>1 DEF CheckpointTypes
<1>4. PICK d \in Nat :
        /\ n > MaxCheckpoints => d = n - MaxCheckpoints
        /\ n <= MaxCheckpoints => d = 0
        /\ LastOnes(cpHistory, MaxCheckpoints) \in Seq(Saved)
        /\ Len(LastOnes(cpHistory, MaxCheckpoints)) = n - d
        /\ \A i \in 1..n - d : LastOnes(cpHistory, MaxCheckpoints)[i] = cpHistory[i + d]
  <2>1. cpHistory \in Seq(Saved)
    BY <1>1 DEF CheckpointTypes
  <2>2. PICK d : d = CutOff(cpHistory, MaxCheckpoints)
    OBVIOUS
  <2>3. (n > MaxCheckpoints => d = n - MaxCheckpoints) /\ (n <= MaxCheckpoints => d = 0)
    BY <1>2, <1>3, <2>2 DEF CutOff
  <2>4. /\ d \in Nat
        /\ LastOnes(cpHistory, MaxCheckpoints) \in Seq(Saved)
        /\ Len(LastOnes(cpHistory, MaxCheckpoints)) = Len(cpHistory) - d
        /\ \A i \in 1..Len(cpHistory) - d :
             LastOnes(cpHistory, MaxCheckpoints)[i] = cpHistory[i + d]
    BY <1>2, <2>1, <2>2, LastOnesOf
  <2> QED
    BY <1>3, <2>3, <2>4
<1>5. PICK c \in Nat : c = Cardinality(Captures)
  BY <1>1, DirsFinite
<1> DEFINE Rank(s) == Cardinality({t \in Captures : t < s})
           oldest == {s \in Captures : Rank(s) < c - MaxCheckpoints}
<1>6. /\ cpJob.pc = "evict" /\ cpDirs' = [s \in Captures \ oldest |-> cpDirs[s]]
      /\ cpHistory' = LastOnes(cpHistory, MaxCheckpoints) /\ cpJob' = NoJob
      /\ UNCHANGED <<workFiles, cpCaptures, cpEdits, cpUnread, cpInterrupted, cpCut>>
  BY <1>5 DEF Evict, WithoutDirs, cpBounds, cpFlags
<1>7. /\ IsFiniteSet(Captures)
      /\ \A s \in Captures : /\ Rank(s) \in Nat
                             /\ Rank(s) + Cardinality({t \in Captures : t > s}) + 1 = c
      /\ \A m \in 0..c : Cardinality({s \in Captures : Rank(s) < m}) = m
  BY <1>1, <1>5, Ranked
<1>8. /\ Captures' = Captures \ oldest /\ \A s \in Captures' : cpDirs'[s] = cpDirs[s]
      /\ cpDirs' \in [Captures' -> CpDirectory]
  BY <1>1, <1>6 DEF Captures
<1>9. /\ cpHistory' \in Seq(Saved) /\ Len(cpHistory') = n - d
      /\ \A i \in 1..n - d : cpHistory'[i] = cpHistory[i + d]
  BY <1>4, <1>6
<1>10. CheckpointTypes' /\ AtNewest' /\ cpJob'.pc = "idle" /\ InProgress' = 0
  BY <1>6, <1>8, <1>9, TypesWithFewer
<1>11. InProgress = 0
  BY <1>6 DEF InProgress
<1>12. \A s \in Captures : s \in Nat
  BY <1>1
<1>13. Finished' = Finished \ oldest /\ Finished \subseteq Captures
  BY <1>8 DEF Finished
<1>14. ASSUME NEW s \in Captures, NEW t \in Captures, s < t PROVE Rank(s) <= Rank(t)
  <2>1. {r \in Captures : r < s} \subseteq {r \in Captures : r < t}
    BY <1>12, <1>14
  <2>2. IsFiniteSet({r \in Captures : r < t})
    BY <1>7, FS_Subset
  <2> QED
    BY <2>1, <2>2, FS_Subset
<1>15. ASSUME NEW s \in Finished' PROVE Newer(s)' = Newer(s)
  <2>1. s \in Captures /\ Rank(s) \in Nat /\ ~(Rank(s) < c - MaxCheckpoints)
    BY <1>7, <1>13
  <2>2. ASSUME NEW t \in Finished, t > s PROVE t \notin oldest
    <3>1. t \in Captures /\ s < t
      BY <1>12, <1>13, <2>1, <2>2
    <3>2. Rank(s) <= Rank(t) /\ Rank(t) \in Nat
      BY <1>7, <1>14, <2>1, <3>1
    <3> HIDE DEF Rank
    <3> QED
      BY <1>2, <2>1, <3>2
  <2>3. {t \in Finished' : t > s} = {t \in Finished : t > s}
    BY <1>13, <2>2
  <2> QED
    BY <2>3 DEF Newer
<1>16. ASSUME NEW s \in Finished'
       PROVE  s \in Finished /\ Newer(s) \in Nat /\ Newer(s) < n /\ Newer(s) < MaxCheckpoints
  <2>1. s \in Finished /\ s \in Captures /\ Rank(s) \in Nat /\ ~(Rank(s) < c - MaxCheckpoints)
    BY <1>7, <1>13
  <2>2. {t \in Finished : t > s} \subseteq {t \in Captures : t > s}
    BY <1>13
  <2>3. IsFiniteSet({t \in Captures : t > s})
    BY <1>7, FS_Subset
  <2>4. Newer(s) <= Cardinality({t \in Captures : t > s})
    BY <2>2, <2>3, FS_Subset DEF Newer
  <2>5. PICK a \in Nat : a = Cardinality({t \in Captures : t > s})
    BY <2>3, FS_CardinalityType
  <2>6. Rank(s) + a + 1 = c
    BY <1>7, <2>1, <2>5
  <2>7. Newer(s) \in Nat
    BY <1>1, DirsFinite
  <2>8. Newer(s) < n - 0
    BY <1>3, <1>11, <2>1 DEF CheckpointInv, LengthsAgree
  <2> HIDE DEF Rank
  <2>9. a < MaxCheckpoints
    BY <1>2, <2>1, <2>6
  <2> QED
    BY <1>2, <2>1, <2>4, <2>5, <2>7, <2>8, <2>9
<1>17. \A s \in Finished' : Newer(s)' < n - d - 0
  BY <1>2, <1>4, <1>15, <1>16
<1>18. LengthsAgree'
  BY <1>9, <1>10, <1>17 DEF LengthsAgree
<1>19. EntriesAgree'
  <2> SUFFICES ASSUME ~cpUnread, ~cpCut, NEW s \in Finished'
               PROVE  cpDirs'[s].entries = cpHistory'[n - d - 0 - Newer(s)']
    BY <1>6, <1>9, <1>10 DEF EntriesAgree
  <2>1. cpDirs[s].entries = cpHistory[n - 0 - Newer(s)]
    BY <1>3, <1>11, <1>16 DEF CheckpointInv, EntriesAgree
  <2>2. n - d - 0 - Newer(s) \in 1..n - d /\ n - d - 0 - Newer(s) + d = n - 0 - Newer(s)
    BY <1>15, <1>16, <1>17
  <2>3. cpDirs'[s] = cpDirs[s]
    BY <1>8, <1>13, <1>16
  <2> QED
    BY <1>9, <1>15, <2>1, <2>2, <2>3
<1>20. NoneMissing'
  <2> SUFFICES ASSUME ~cpInterrupted
               PROVE  (\A s \in Captures' : cpDirs'[s].manifest) /\ Cardinality(Captures') = n - d
    BY <1>6, <1>9 DEF NoneMissing
  <2>1. (\A s \in Captures : cpDirs[s].manifest) /\ c = n
    BY <1>3, <1>5, <1>6 DEF CheckpointInv, NoneMissing
  <2>2. \A s \in Captures' : cpDirs'[s].manifest
    BY <1>8, <2>1
  <2>3. d \in 0..c
    BY <1>2, <1>4, <2>1
  <2>4. oldest = {s \in Captures : Rank(s) < d}
    <3> HIDE DEF Rank
    <3>1. \A r \in Nat : r < c - MaxCheckpoints <=> r < d
      BY <1>2, <1>4, <2>1
    <3>2. \A s \in Captures : Rank(s) \in Nat
      BY <1>7
    <3> QED
      BY <3>1, <3>2
  <2>5. Cardinality(oldest) = d
    BY <1>7, <2>3, <2>4
  <2>6. Captures \cap oldest = oldest
    OBVIOUS
  <2>7. Cardinality(Captures \ oldest) = Cardinality(Captures) - Cardinality(Captures \cap oldest)
    BY <1>7, FS_Difference
  <2>8. Cardinality(Captures') = c - d
    BY <1>5, <1>8, <2>5, <2>6, <2>7
  <2> QED
    BY <2>1, <2>2, <2>8
<1> QED
  BY <1>10, <1>18, <1>19, <1>20 DEF CheckpointInv

LEMMA CheckpointStep == CheckpointInv /\ [CheckpointNext]_cpVars => CheckpointInv'
<1> SUFFICES ASSUME CheckpointInv, [CheckpointNext]_cpVars PROVE CheckpointInv'
  OBVIOUS
<1>1. CASE UNCHANGED cpVars
  <2>1. /\ UNCHANGED <<workFiles, cpDirs, cpJob, cpCaptures, cpEdits, cpHistory>>
        /\ UNCHANGED <<cpUnread, cpInterrupted, cpCut>>
    BY <1>1 DEF cpVars, cpBounds, cpFlags
  <2>2. Captures' = Captures
    BY <2>1 DEF Captures
  <2>3. CheckpointTypes' /\ AtNewest'
    BY <2>1, <2>2 DEF CheckpointInv, CheckpointTypes, AtNewest
  <2> QED
    BY <2>1, <2>3, NothingMoves
<1>2. ASSUME NEW f \in WorkFile, CopyEntry(f) PROVE CheckpointInv'
  BY <1>2, CopyEntryKeeps
<1>3. ASSUME NEW files \in SUBSET WorkFile, StartCapture(files) PROVE CheckpointInv'
  BY <1>3, StartCaptureKeeps
<1>4. CASE StartRestore \/ \E f \in WorkFile : RestoreEntry(f) \/ EditFile(f)
  BY <1>4, RestoreKeeps
<1>5. CASE WriteManifest \/ Evict
  BY <1>5, ManifestKeeps, EvictKeeps
<1>6. CASE RemoveRestored \/ Interrupt
  BY <1>6, RemoveKeeps, InterruptKeeps
<1> QED
  BY <1>1, <1>2, <1>3, <1>4, <1>5, <1>6 DEF CheckpointNext

\* Undo goes back capture by capture, whatever was evicted, undone or cut short before
\* (checkpoints.ts:77, 138).
THEOREM UndoesInOrder == CheckpointSpec => []UndoInOrder
<1>1. CheckpointInv => UndoInOrder
  <2> SUFFICES ASSUME CheckpointInv, cpJob = NoJob, ~cpUnread, ~cpCut
               PROVE  /\ \A s \in Finished :
                           /\ Newer(s) < Len(cpHistory)
                           /\ cpDirs[s].entries = cpHistory[Len(cpHistory) - Newer(s)]
                      /\ ~cpInterrupted =>
                           Finished = Captures /\ Cardinality(Captures) = Len(cpHistory)
    BY DEF UndoInOrder
  <2>1. cpJob.pc = "idle" /\ InProgress = 0
    BY DEF NoJob, Job, InProgress
  <2>2. PICK n \in Nat : n = Len(cpHistory)
    BY DEF CheckpointInv, CheckpointTypes
  <2>3. \A s \in Finished : Newer(s) < n - 0 /\ cpDirs[s].entries = cpHistory[n - 0 - Newer(s)]
    BY <2>1, <2>2 DEF CheckpointInv, LengthsAgree, EntriesAgree
  <2>4. \A s \in Finished : n - 0 = n
    BY <2>2
  <2>5. ~cpInterrupted => Finished = Captures /\ Cardinality(Captures) = Len(cpHistory)
    BY <2>1 DEF CheckpointInv, NoneMissing, Finished
  <2> QED
    BY <2>2, <2>3, <2>4, <2>5
<1> QED
  BY CheckpointInitially, CheckpointStep, <1>1, PTL DEF CheckpointSpec
=============================================================================
