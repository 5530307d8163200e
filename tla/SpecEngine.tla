------------------------------ MODULE SpecEngine ------------------------------
(***************************************************************************)
(* SpecEngine.clarify (agent-runtime/src/spec-engine.ts) as CodingAgent    *)
(* runs it before a turn (agent.ts, submit): the stages that turn a prompt *)
(* into a specification, and the confirmation that critical and major      *)
(* decisions wait for.                                                     *)
(*                                                                         *)
(* A stage is abstracted to whether it succeeds in the end, on its own     *)
(* model or on the main one; what it produces to whether the decisions     *)
(* found block.  The front end learns a specification's id from the event  *)
(* and may answer it at any time from then on, once it was given up too.   *)
(***************************************************************************)
EXTENDS Integers, FiniteSets

CONSTANT MaxSpecs    \* bound: drafts made

VARIABLES
  specPc,          \* the stage clarify is in; "idle" when the agent does not run
                   \* and "turn" when the turn it prepared does
  specTrigger,     \* "raw", "forced" (/spec), "auto" or "always" (autoTrigger off)
  specHandled,     \* is there a specConfirmationHandler?
  specAborted,     \* the external signal
  specDraft,       \* the id of the latest draft
  specBlocking,    \* it has critical or major decisions
  specResolvers,   \* confirmationResolvers: the ids waited for
  specAnnounced,   \* the ids of spec_confirmation_required events
  specApplied,     \* the specifications whose enhanced prompt the agent runs
  specDocs,        \* the specifications SpecStore has, all "confirmed"
  specResolved     \* history: the ids resolveDecisions was called with

specConfig == <<specTrigger, specHandled>>
specProducts == <<specDraft, specBlocking>>
specOutputs == <<specApplied, specDocs>>
specVars == <<specPc, specConfig, specAborted, specProducts, specResolvers, specAnnounced,
              specOutputs, specResolved>>

SpecInit ==
  /\ specPc = "idle"
  /\ specTrigger = "raw" /\ specHandled \in BOOLEAN
  /\ specAborted = FALSE
  /\ specDraft = 0 /\ specBlocking = FALSE
  /\ specResolvers = {} /\ specAnnounced = {}
  /\ specApplied = {} /\ specDocs = {} /\ specResolved = {}

InStage(from, to) == specPc = from /\ specPc' = to

\* submit: a prompt while the agent runs throws.  Without autoTrigger there is
\* no classifier to skip a prompt.
SubmitPrompt ==
  /\ specPc = "idle" /\ specDraft < MaxSpecs
  /\ specTrigger' \in {"raw", "forced", "auto", "always"}
  /\ specAborted' \in BOOLEAN
  /\ specPc' = IF specAborted' THEN "idle"
               ELSE IF specTrigger' = "raw" THEN "turn"
               ELSE IF specTrigger' = "auto" THEN "classify" ELSE "explore"
  /\ UNCHANGED <<specHandled, specProducts, specResolvers, specAnnounced, specOutputs, specResolved>>

\* The classifier sends a clear prompt to the turn, and one it fails on.
Classify ==
  /\ InStage("classify", "explore") \/ InStage("classify", "turn")
  /\ UNCHANGED <<specConfig, specAborted, specProducts, specResolvers, specAnnounced,
                 specOutputs, specResolved>>

\* exploreCodebase, which may come back empty.
Explore ==
  /\ InStage("explore", "draft")
  /\ UNCHANGED <<specConfig, specAborted, specProducts, specResolvers, specAnnounced,
                 specOutputs, specResolved>>

\* draftSpec; without a draft the prompt runs as it is.
DraftSpec ==
  /\ \/ /\ InStage("draft", "detect")
        /\ specDraft' = specDraft + 1
     \/ /\ InStage("draft", "turn")
        /\ UNCHANGED specDraft
  /\ UNCHANGED <<specConfig, specAborted, specBlocking, specResolvers, specAnnounced,
                 specOutputs, specResolved>>

\* detectDecisions; when it fails nothing blocks.  spec_confirmation_required is
\* emitted, and awaited, before the answer is waited for.
Detect ==
  /\ \/ /\ InStage("detect", "announce")
        /\ specBlocking' = TRUE
        /\ specAnnounced' = specAnnounced \cup {specDraft}
     \/ /\ InStage("detect", "enhance")
        /\ specBlocking' = FALSE
        /\ UNCHANGED specAnnounced
  /\ UNCHANGED <<specConfig, specAborted, specDraft, specResolvers, specOutputs, specResolved>>

\* waitForConfirmation.  A signal that was aborted before never fires again.
WaitForConfirmation ==
  /\ InStage("announce", "wait")
  /\ specResolvers' = specResolvers \cup {specDraft}
  /\ UNCHANGED <<specConfig, specAborted, specProducts, specAnnounced, specOutputs, specResolved>>

\* Mutant: an answer goes to whatever specification is waited for.
AnswerPending(id, next) ==
  /\ id \in specAnnounced
  /\ specResolved' = IF next = "enhance" THEN specResolved \cup {id} ELSE specResolved
  /\ specPc' = IF specResolvers # {} THEN next ELSE specPc
  /\ specResolvers' = {}
  /\ UNCHANGED <<specConfig, specAborted, specProducts, specAnnounced, specOutputs>>

\* resolveDecisions(id) goes on to the enhancer, declineSpec(id) back to idle;
\* an id nobody waits for is ignored, also one whose wait is still to come.
AnswerSpec(id, next) ==
  /\ id \in specAnnounced
  /\ specResolved' = IF next = "enhance" THEN specResolved \cup {id} ELSE specResolved
  /\ specPc' = IF id \in specResolvers THEN next ELSE specPc
  /\ specResolvers' = specResolvers \ {id}
  /\ UNCHANGED <<specConfig, specAborted, specProducts, specAnnounced, specOutputs>>

\* enhancePrompt or its fallback, and SpecStore.save, whose failure is ignored;
\* the agent takes the prompt and the todos of the specification.
Enhance ==
  /\ InStage("enhance", "turn")
  /\ specApplied' = specApplied \cup {specDraft}
  /\ \/ specDocs' = specDocs \cup {specDraft}
     \/ UNCHANGED specDocs
  /\ UNCHANGED <<specConfig, specAborted, specProducts, specResolvers, specAnnounced, specResolved>>

EndSpecTurn ==
  /\ InStage("turn", "idle")
  /\ UNCHANGED <<specConfig, specAborted, specProducts, specResolvers, specAnnounced,
                 specOutputs, specResolved>>

\* The external signal; CodingAgent.abort does not reach clarify, for there is no
\* activeController yet.
AbortSpec ==
  /\ ~specAborted
  /\ specAborted' = TRUE
  /\ specPc' = IF specPc = "wait" THEN "idle" ELSE specPc
  /\ specResolvers' = {}
  /\ UNCHANGED <<specConfig, specProducts, specAnnounced, specOutputs, specResolved>>

SpecProceed ==
  Classify \/ Explore \/ DraftSpec \/ Detect \/ WaitForConfirmation \/ Enhance \/ EndSpecTurn

SpecNext ==
  \/ SubmitPrompt \/ SpecProceed \/ AbortSpec
  \/ \E id \in specAnnounced, next \in {"enhance", "idle"} : ~specHandled /\ AnswerSpec(id, next)

SpecEngineSpec == SpecInit /\ [][SpecNext]_specVars /\ WF_specVars(SpecProceed)

-----------------------------------------------------------------------------
(* Properties *)

\* The agent works on a specification with critical or major decisions, and one
\* is on disk as confirmed, only after somebody confirmed that specification:
\* an answer that comes late, for one that was aborted or declined meanwhile,
\* does not confirm the next.
ConfirmedByItsOwnAnswer ==
  (specApplied \cup specDocs) \cap specAnnounced \subseteq specResolved
=============================================================================
