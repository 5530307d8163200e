------------------------------ MODULE AgentConfig ------------------------------
(***************************************************************************)
(* The configuration of an agent (agent-runtime/src/config.ts): the user's *)
(* file, the project's and the local one are read, checked and merged with *)
(* the command line's overrides into a chain of models and the settings of *)
(* a session; meanwhile commands and the terminal edit the user's file, by *)
(* reading it, changing it and writing it again (editGlobalConfig,         *)
(* platform-command.ts:474-494).                                           *)
(*                                                                         *)
(* A file is a function from the keys it has, one that is not there has    *)
(* none; a section is a value that is a function itself.  Bad stands for   *)
(* any value that validation refuses.  Of the settings a few of each kind  *)
(* are kept: the choice of a model, a bounded number, sections merged field*)
(* by field and replaced as a whole, and all that an enterprise's policy   *)
(* looks at.                                                               *)
(***************************************************************************)
EXTENDS Naturals, Sequences, FiniteSets, TLC, SequencesExt

CONSTANTS
  CfgJob,    \* those who resolve the configuration or edit the user's file
  CfgCase,   \* what there is to begin with, see CfgInit
  NoConfig, TornFile, Bad

(* What a file says of fallbacks is a list (validateAgentConfig).          *)
ListsFallbacks(file) ==
  file # TornFile /\ "fallbacks" \in DOMAIN file => file.fallbacks \in Seq(ToSet(file.fallbacks))
ASSUME CfgAssumption ==
  \A c \in CfgCase : /\ \A file \in {c.user, c.project, c.local, c.overrides} : ListsFallbacks(file)
                     /\ c.overrides # TornFile

VARIABLES
  cfgCase,   \* [task, user, project, local, overrides, trusted, inside, env, keys]
  cfgUser,   \* the user's file: TornFile or a configuration
  cfgPc,     \* each job's point
  cfgRead,   \* what each job has read: the layers so far, or the file to change
  cfgResult, \* what resolveAgentConfig returned, or NoConfig if it threw
  cfgLog     \* the reads and writes of edits, in order

cfgVars == <<cfgCase, cfgUser, cfgPc, cfgRead, cfgResult, cfgLog>>

CfgInit ==
  /\ cfgCase \in CfgCase
  /\ cfgUser = cfgCase.user
  /\ cfgPc = [j \in CfgJob |-> "idle"]
  /\ cfgRead = [j \in CfgJob |-> <<>>]
  /\ cfgResult = [j \in CfgJob |-> NoConfig]
  /\ cfgLog = <<>>

-----------------------------------------------------------------------------
(* Reading and merging *)

Value(config, key, default) == IF key \in DOMAIN config THEN config[key] ELSE default

\* What validation refuses, in a setting ...
MalformedSetting(config) ==
  \E key \in DOMAIN config \cap {"provider", "model", "revision", "window", "rounds", "signatures"} :
    config[key] = Bad

\* ... in a section ...
MalformedSection(config) ==
  \E key \in DOMAIN config \cap {"sandbox", "loop", "enterprise", "tui", "media", "extensions"} :
    config[key] = Bad \/ \E field \in DOMAIN config[key] : config[key][field] = Bad

\* A virtual machine has to be named where it is chosen.
VmWithoutHost(config) ==
  LET sandbox == Value(config, "sandbox", <<>>)
  IN  Value(sandbox, "kind", "auto") = "vm" /\ "vmHost" \notin DOMAIN sandbox

\* ... and in the lists of providers and models.
MalformedModels(config) ==
  \/ \E key \in DOMAIN config \cap {"providers", "models"} :
       \E id \in DOMAIN config[key] :
         \E field \in DOMAIN config[key][id] : config[key][id][field] = Bad
  \/ \E i \in DOMAIN Value(config, "fallbacks", <<>>) : config.fallbacks[i].model = Bad

Malformed(config) ==
  \/ MalformedSetting(config) \/ MalformedSection(config) \/ VmWithoutHost(config)
  \/ MalformedModels(config)

Unreadable(file) == file = TornFile \/ Malformed(file)

SettingSources(user) == Value(user, "sources", {"user", "project", "local"})

\* A file inside the project is read if the project is trusted.
MayRead(layer, user) ==
  /\ layer \in SettingSources(user)
  /\ cfgCase.trusted \/ (layer = "local" /\ ~cfgCase.inside)

MergedSections == {"sandbox", "tui", "media", "extensions", "enterprise", "providers", "models"}

\* What one says, over what the other says.
Overlaid(layer, config) ==
  [key \in DOMAIN config \cup DOMAIN layer |-> Value(layer, key, Value(config, key, NoConfig))]

\* One step of mergeConfig: later settings win, some sections field by field.
Merge(config, layer) ==
  [key \in DOMAIN config \cup DOMAIN layer |->
     IF key \notin DOMAIN layer THEN config[key]
     ELSE IF key \in MergedSections \cap DOMAIN config THEN Overlaid(layer[key], config[key])
     ELSE layer[key]]

\* The user's file, the project's, the local one, the overrides.
MergeConfig(layers) == Merge(Merge(Merge(Merge(<<>>, layers[1]), layers[2]), layers[3]), layers[4])

-----------------------------------------------------------------------------
(* The models *)

\* The built-in providers: one whose model has to be named, one that has a model.
Presets ==
  [openai   |-> [window |-> 3, key |-> "openai"],
   deepseek |-> [window |-> 8, key |-> "deepseek", model |-> "v4", revision |-> "r1"]]

Bounded(value, fallback, low, high) ==
  IF value = NoConfig THEN fallback
  ELSE IF value < low THEN low ELSE IF value > high THEN high ELSE value

ProviderId(merged) ==
  Value(merged, "provider",
        IF cfgCase.env = <<>> THEN "openai" ELSE Head(cfgCase.env))

\* The provider as built in, changed by the configuration; no function if there
\* is neither.
Provider(merged, id) ==
  Value(Value(merged, "providers", <<>>), id, <<>>)
    @@ (IF id \in DOMAIN Presets THEN Presets[id] ELSE <<>>)

KnownProvider(merged, id) ==
  id \in DOMAIN Presets \/ id \in DOMAIN Value(merged, "providers", <<>>)

ModelId(merged) ==
  Value(merged, "model", Value(Provider(merged, ProviderId(merged)), "model", NoConfig))

\* What the configuration says of a model by its name.
ModelPreset(merged, id) == Value(Value(merged, "models", <<>>), id, <<>>)

KeyMissing(preset) ==
  "key" \in DOMAIN preset /\ preset.key \notin cfgCase.keys

\* resolveModelProfile, with what was said of the model in particular.
ModelProfile(provider, preset, model, revision, window) ==
  [provider |-> provider, model |-> model, revision |-> revision,
   window |-> Bounded(window, Value(preset, "window", 3), 1, 9)]

Primary(merged) ==
  LET id     == ProviderId(merged)
      preset == Provider(merged, id)
      model  == ModelId(merged)
      said   == ModelPreset(merged, model)
  IN  ModelProfile(id, preset, model,
              Value(merged, "revision",
                    Value(said, "revision", Value(preset, "revision", NoConfig))),
              Value(merged, "window", Value(said, "window", NoConfig)))

\* A fallback says what it is itself; the settings of the first model are not
\* for it.
Fallback(merged, entry) ==
  LET preset == Provider(merged, entry.provider)
  IN  ModelProfile(entry.provider, preset, entry.model,
              Value(entry, "revision", Value(preset, "revision", NoConfig)),
              Value(entry, "window", NoConfig))

Fallbacks(merged) ==
  LET entries == Value(merged, "fallbacks", <<>>)
  IN  [i \in DOMAIN entries |-> Fallback(merged, entries[i])]

-----------------------------------------------------------------------------
(* The policy of an enterprise *)

Enterprise(merged) == Value(merged, "enterprise", <<>>)
Enforced(merged) == Value(Enterprise(merged), "enabled", FALSE) = TRUE

AllowedProvider(merged, profile) ==
  LET providers == Value(Enterprise(merged), "providers", {})
  IN  providers = {} \/ profile.provider \in providers

\* An entry names a model, perhaps of one provider and of one revision.
AllowedModel(merged, profile) ==
  LET entries == Value(Enterprise(merged), "models", {})
  IN  entries = {} \/ \E e \in entries :
        /\ e.model = profile.model
        /\ "provider" \in DOMAIN e => e.provider = profile.provider
        /\ "revision" \in DOMAIN e => e.revision = profile.revision

DeniedModel(merged) ==
  /\ Enforced(merged)
  /\ \E p \in {Primary(merged)} \cup ToSet(Fallbacks(merged)) :
       ~AllowedProvider(merged, p) \/ ~AllowedModel(merged, p)

\* A machine of its own needs no pinned image.
DeniedSandbox(merged) ==
  LET sandbox == Value(merged, "sandbox", <<>>)
      kind    == Value(sandbox, "kind", "auto")
  IN  /\ Enforced(merged)
      /\ \/ /\ Value(Enterprise(merged), "isolated", TRUE) = TRUE
            /\ kind = "host" \/ Value(sandbox, "fallback", FALSE) = TRUE
         \/ /\ Value(sandbox, "digest", TRUE) = TRUE
            /\ kind # "vm" /\ Value(sandbox, "pinned", FALSE) # TRUE

\* What a layer may not switch off, or on.
DeniedSetting(merged) ==
  /\ Enforced(merged)
  /\ \/ Value(merged, "signatures", TRUE) = FALSE
     \/ Value(Value(merged, "extensions", <<>>), "host", "process") = "in-process"
     \/ Value(Value(merged, "media", <<>>), "remote", FALSE) = TRUE

\* What resolveAgentConfig refuses.
Refused(merged) ==
  \/ Malformed(merged)
  \/ ~KnownProvider(merged, ProviderId(merged))
  \/ ModelId(merged) = NoConfig
  \/ KeyMissing(Provider(merged, ProviderId(merged)))
  \/ \E i \in DOMAIN Value(merged, "fallbacks", <<>>) :
       ~KnownProvider(merged, merged.fallbacks[i].provider)
  \/ DeniedModel(merged) \/ DeniedSandbox(merged) \/ DeniedSetting(merged)

\* Every other setting has a default.
Resolved(merged) ==
  [chain      |-> <<Primary(merged)>> \o Fallbacks(merged),
   rounds     |-> Bounded(Value(merged, "rounds", NoConfig), 4, 1, 9),
   loop       |-> Bounded(Value(Value(merged, "loop", <<>>), "iterations", NoConfig), 2, 1, 9),
   sandbox    |-> Value(Value(merged, "sandbox", <<>>), "kind", "auto"),
   fallback   |-> Value(Value(merged, "sandbox", <<>>), "fallback", FALSE),
   pinned     |-> Value(Value(merged, "sandbox", <<>>), "pinned", FALSE),
   digest     |-> Value(Value(merged, "sandbox", <<>>), "digest", Enforced(merged)),
   skin       |-> Value(Value(merged, "tui", <<>>), "skin", "foxglow"),
   mascot     |-> Value(Value(merged, "tui", <<>>), "mascot", "foxy"),
   remote     |-> Value(Value(merged, "media", <<>>), "remote", ~Enforced(merged)),
   host       |-> Value(Value(merged, "extensions", <<>>), "host",
                        IF Enforced(merged) THEN "process" ELSE "in-process"),
   signatures |-> Value(merged, "signatures", TRUE),
   enterprise |-> Enforced(merged)]

-----------------------------------------------------------------------------
(* resolveAgentConfig *)

Task(j) == Value(cfgCase.task, j, [kind |-> "none"])

ConfigThrows(j) == cfgPc' = [cfgPc EXCEPT ![j] = "threw"] /\ UNCHANGED <<cfgRead, cfgResult>>

ReadLayer(j, file, next) ==
  IF Unreadable(file) THEN ConfigThrows(j)
  ELSE /\ cfgPc' = [cfgPc EXCEPT ![j] = next]
       /\ cfgRead' = [cfgRead EXCEPT ![j] = Append(@, file)]
       /\ UNCHANGED cfgResult

ReadUser(j) ==
  /\ Task(j).kind = "resolve" /\ cfgPc[j] = "idle"
  /\ ReadLayer(j, cfgUser, "project")
  /\ UNCHANGED <<cfgCase, cfgUser, cfgLog>>

ReadProject(j) ==
  /\ cfgPc[j] = "project"
  /\ ReadLayer(j, IF MayRead("project", cfgRead[j][1]) THEN cfgCase.project ELSE <<>>, "local")
  /\ UNCHANGED <<cfgCase, cfgUser, cfgLog>>

ReadLocal(j) ==
  /\ cfgPc[j] = "local"
  /\ ReadLayer(j, IF MayRead("local", cfgRead[j][1]) THEN cfgCase.local ELSE <<>>, "merge")
  /\ UNCHANGED <<cfgCase, cfgUser, cfgLog>>

Resolve(j) ==
  /\ cfgPc[j] = "merge"
  /\ LET merged == MergeConfig(Append(cfgRead[j], cfgCase.overrides))
     IN  IF Refused(merged) THEN ConfigThrows(j)
         ELSE /\ cfgPc' = [cfgPc EXCEPT ![j] = "done"]
              /\ cfgResult' = [cfgResult EXCEPT ![j] = Resolved(merged)]
              /\ UNCHANGED cfgRead
  /\ UNCHANGED <<cfgCase, cfgUser, cfgLog>>

-----------------------------------------------------------------------------
(* editGlobalConfig, and the commands that do the same *)

Logged(j, what) == cfgLog' = Append(cfgLog, [job |-> j, what |-> what])

\* The file is parsed and not validated.
ReadToEdit(j) ==
  /\ Task(j).kind = "edit" /\ cfgPc[j] = "idle"
  /\ IF cfgUser = TornFile THEN ConfigThrows(j) /\ UNCHANGED cfgLog
     ELSE /\ cfgPc' = [cfgPc EXCEPT ![j] = "truncate"]
          /\ cfgRead' = [cfgRead EXCEPT ![j] = <<cfgUser>>]
          /\ Logged(j, "read")
          /\ UNCHANGED cfgResult
  /\ UNCHANGED <<cfgCase, cfgUser>>

\* Mutant: the other fields of the section are forgotten.
EditAlone(config, edit) ==
  Overlaid([section \in {"tui"} |-> [field \in {edit.field} |-> edit.value]], config)

\* The file as one edit changes it: a field of tui.
EditWith(config, edit) ==
  LET tui == Overlaid([field \in {edit.field} |-> edit.value], Value(config, "tui", <<>>))
  IN  Overlaid([section \in {"tui"} |-> tui], config)

\* writeFile: the file is opened and emptied ...
TruncateToEdit(j) ==
  /\ cfgPc[j] = "truncate"
  /\ cfgUser' = TornFile
  /\ cfgPc' = [cfgPc EXCEPT ![j] = "write"]
  /\ UNCHANGED <<cfgCase, cfgRead, cfgResult, cfgLog>>

\* ... and written.
WriteEdit(j) ==
  /\ cfgPc[j] = "write"
  /\ cfgUser' = EditWith(cfgRead[j][1], Task(j))
  /\ Logged(j, "write")
  /\ cfgPc' = [cfgPc EXCEPT ![j] = "done"]
  /\ UNCHANGED <<cfgCase, cfgRead, cfgResult>>

\* The process dies in mid-write.
DieEditing(j) ==
  /\ cfgPc[j] = "write"
  /\ cfgPc' = [cfgPc EXCEPT ![j] = "dead"]
  /\ UNCHANGED <<cfgCase, cfgUser, cfgRead, cfgResult, cfgLog>>

CfgNext ==
  \E j \in CfgJob :
    \/ ReadUser(j) \/ ReadProject(j) \/ ReadLocal(j) \/ Resolve(j)
    \/ ReadToEdit(j) \/ TruncateToEdit(j) \/ WriteEdit(j) \/ DieEditing(j)

CfgSpec == CfgInit /\ [][CfgNext]_cfgVars

-----------------------------------------------------------------------------
\* The layers that job j has read, the overrides last.
Layers(j) == Append(cfgRead[j], cfgCase.overrides)

\* What the last layer to say so says of a setting, or of a field of a section.
LastSaid(layers, key, default) ==
  LET says == {i \in DOMAIN layers : key \in DOMAIN layers[i]}
  IN  IF says = {} THEN default ELSE layers[Max(says)][key]
LastField(layers, section, field, default) ==
  LET says == {i \in DOMAIN layers : field \in DOMAIN Value(layers[i], section, <<>>)}
  IN  IF says = {} THEN default ELSE layers[Max(says)][section][field]

\* What an enterprise's policy, put together from the layers, asks of a session:
\* models of its lists only, the ones to fall back on too, an isolated and
\* pinned sandbox, signed extensions in a process, no remote images
\* (config.ts:1757-1800, 1945-1952).
UnderPolicy(layers, result) ==
  LET providers == LastField(layers, "enterprise", "providers", {})
      models    == LastField(layers, "enterprise", "models", {})
      chain     == result.chain
  IN  /\ providers # {} => \A i \in DOMAIN chain : chain[i].provider \in providers
      /\ models # {} =>
           \A i \in DOMAIN chain : \E e \in models :
             /\ e.model = chain[i].model
             /\ Value(e, "provider", chain[i].provider) = chain[i].provider
             /\ Value(e, "revision", chain[i].revision) = chain[i].revision
      /\ LastField(layers, "enterprise", "isolated", TRUE) = TRUE =>
           result.sandbox # "host" /\ result.fallback # TRUE
      /\ result.digest = TRUE /\ result.sandbox # "vm" => result.pinned = TRUE
      /\ result.host # "in-process" /\ result.signatures # FALSE /\ result.remote # TRUE

\* A session runs with what the last layer that speaks of a setting says, field
\* by field where sections are merged (config.ts:979-1040), and as the policy
\* asks if the last layer that speaks of it has it enforced.
Decided(layers, result) ==
  LET first == result.chain[1]
  IN  /\ first.model = LastSaid(layers, "model", first.model)
      /\ LastSaid(layers, "revision", first.revision) = first.revision
      /\ result.sandbox = LastField(layers, "sandbox", "kind", "auto")
      /\ result.skin = LastField(layers, "tui", "skin", "foxglow")
      /\ result.loop = Bounded(Value(LastSaid(layers, "loop", <<>>), "iterations", NoConfig), 2, 1, 9)
      /\ result.enterprise = (LastField(layers, "enterprise", "enabled", FALSE) = TRUE)
      /\ Len(result.chain) = 1 + Len(LastSaid(layers, "fallbacks", <<>>))
      /\ result.enterprise => UnderPolicy(layers, result)
ResolvedByLayers == \A j \in CfgJob : cfgResult[j] # NoConfig => Decided(Layers(j), cfgResult[j])

\* The edits that returned: what each wrote is in the file, was changed by a
\* later one, or was lost to a later one that had read the file before.
Edits == {i \in DOMAIN cfgLog : cfgLog[i].what = "write"}
EditIn(file, i) ==
  /\ "tui" \in DOMAIN file
  /\ Value(file.tui, Task(cfgLog[i].job).field, NoConfig) = Task(cfgLog[i].job).value
Overwritten(i) ==
  \E k \in Edits : k > i /\ Task(cfgLog[k].job).field = Task(cfgLog[i].job).field
ReadBefore(j, i) == \E r \in 1..i : cfgLog[r] = [job |-> j, what |-> "read"]
Overlapped(i) == \E k \in Edits : k > i /\ ReadBefore(cfgLog[k].job, i)

\* An edit that returned is in the user's file unless a later one changed the
\* same field, or the two overlapped: one edit after the other loses nothing,
\* whatever it changes (editGlobalConfig, config.ts:2081-2105).  That edits may
\* overlap at no loss is EditsNeverRace, which the code does not keep.
EditsKept ==
  cfgUser # TornFile => \A i \in Edits : EditIn(cfgUser, i) \/ Overwritten(i) \/ Overlapped(i)

\* editGlobalConfig "avoids the last-write-wins race" (config.ts:2072-2080): no
\* edit of another field takes away what an edit that returned has written.
EditsNeverRace ==
  cfgUser # TornFile => \A i \in Edits : EditIn(cfgUser, i) \/ Overwritten(i)

\* What a session is given, and what is left of what was said.
ConfigSound == ResolvedByLayers /\ EditsKept
=============================================================================
