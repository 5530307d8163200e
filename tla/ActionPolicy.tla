---------------------------- MODULE ActionPolicy ----------------------------
(***************************************************************************)
(* The decision of PolicyEngine.evaluate (action-domain/src/policy.ts) as  *)
(* a constant-level operator.  An intent is abstracted to what the rules   *)
(* look at: its tool, the effects it claims, the risk class of its shell   *)
(* command, whether it names a protected resource (or its arguments did    *)
(* not parse, which the session matrix rules on in the same way), the      *)
(* prefix rule its command matches and whether a trusted project's         *)
(* verification command matches.  The texts of the reasons are left out,   *)
(* and with them the order of tests that end in the same disposition.      *)
(***************************************************************************)
EXTENDS Integers

EffectClass == {"read", "file_write", "command", "git", "network", "secret", "delegation"}

\* How many effects of each class: the expectedEffects of an intent or the
\* observedEffects of a receipt.
Effects == [EffectClass -> Nat]

NoEffect == [class \in EffectClass |-> 0]

\* The risk that EffectLedger.projectedRisk foresees and record counts.
Risk(effects) ==
  2 * effects["file_write"] + 3 * effects["command"] + 5 * effects["git"]
    + 10 * (effects["network"] + effects["secret"]) + 4 * effects["delegation"]

Classes(effects) == {class \in EffectClass : effects[class] > 0}

\* "kernel" is the envelope without an approvalMode.
ApprovalMode == {"kernel", "ask", "auto-edit", "full-auto", "deny"}
ShellRisk == {"none", "low", "medium", "high", "critical"}
PrefixRule == {"none", "allow", "deny"}

-----------------------------------------------------------------------------
\* What denies in every mode.  The kernel's hard denial of protected paths is
\* the last conjunct; tool is [id, classes], config the PolicyConfig.
CoreDenies(intent, tool, config, mode, ledger, risk) ==
  \/ ~(Classes(intent.claims) \subseteq tool.classes)
  \/ intent.claims["network"] > 0 /\ ~config.allowNetwork
  \/ intent.claims["secret"] > 0 /\ ~config.allowSecrets
  \/ risk > config.maxRisk
  \/ ledger.files >= config.maxFiles
  \/ ledger.lines >= config.maxLines
  \/ mode = "kernel" /\ intent.guarded

AutoGranted(tool, config) ==
  \/ tool.id = "run_registered_command" /\ config.autoCommands
  \/ tool.id = "apply_edit_ir" /\ config.autoWrites

\* The session matrix lets a shell command run without asking ...
ShellGranted(intent, config, mode) ==
  \/ intent.shell = "low"
  \/ intent.shell = "medium" /\ mode = "full-auto"
  \/ intent.shell # "critical" /\ mode = "auto-edit" /\ config.trusted /\ intent.verifies

\* ... and any other tool.
ToolGranted(tool, mode) ==
  \/ "read" \in tool.classes
  \/ tool.id \in {"git_status", "git_diff"}
  \/ mode = "full-auto"
  \/ mode = "auto-edit" /\ "file_write" \in tool.classes

\* evaluateSessionRules; what is neither granted nor critical is asked about
\* in mode "ask" and denied in the others.
SessionRuling(intent, tool, config, mode) ==
  IF ~intent.guarded /\ (IF tool.id = "bash" THEN ShellGranted(intent, config, mode)
                                             ELSE ToolGranted(tool, mode))
  THEN "grant"
  ELSE IF mode = "ask" /\ intent.shell # "critical" THEN "approval_required" ELSE "deny"

KernelRuling(tool) ==
  IF tool.classes \subseteq {"read"} THEN "grant" ELSE "approval_required"

CoreRuling(intent, tool, config, mode, ledger, risk) ==
  IF CoreDenies(intent, tool, config, mode, ledger, risk) THEN "deny"
  ELSE IF AutoGranted(tool, config) THEN "grant"
  ELSE IF mode = "kernel" THEN KernelRuling(tool)
  ELSE SessionRuling(intent, tool, config, mode)

\* PolicyEngine.evaluate: a prefix rule that denies wins over everything, one
\* that allows over everything but a denial.
Disposition(intent, tool, config, mode, ledger, risk) ==
  LET rule == IF tool.id = "bash" THEN intent.prefix ELSE "none"
      core == CoreRuling(intent, tool, config, mode, ledger, risk)
  IN  IF rule = "deny" \/ core = "deny" THEN "deny"
      ELSE IF rule = "allow" THEN "grant"
      ELSE core
=============================================================================
