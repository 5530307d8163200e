----------------------------- MODULE SessionTree -----------------------------
(***************************************************************************)
(* What is in the sessions: each is a tree of entries with an active leaf  *)
(* and the last compaction, a summary of a branch up to one of its         *)
(* entries.  Agents of several processes work on them: their turns append, *)
(* they compact, go on from an earlier entry, start, resume and fork       *)
(* sessions and import shared ones.  A mutation is atomic here: it runs    *)
(* under the session's lock (SessionStore).  A copy is many mutations.     *)
(*                                                                         *)
(* A message is [role, id], role "user", "text", "calls" or "tool"; the    *)
(* parent of an entry is its position, 0 for none.                         *)
(***************************************************************************)
EXTENDS Naturals, Sequences, SequencesExt

CONSTANTS TreeAgent, InitialSessions,
          MaxTrees, TreeBudgets  \* bounds: what each agent may [say, command]

VARIABLES
  trSessions,  \* [cwd, entries, leaf, compaction]
  trAgents,    \* each agent: [sid, pc, snapshot, pending, job]: its session,
               \* where it is, the session as last loaded, the compaction it
               \* will save, the copy it makes
  trBudget,
  trTouched,   \* history: sessions others wrote to while they were filled
  trMisplaced, \* history: those of them that got a summary then, and imports of these
  trInherited  \* history: sessions with a summary that took over one of another branch

treeVars == <<trSessions, trAgents, trBudget, trTouched, trMisplaced, trInherited>>

NoCompaction == [upTo |-> 0, covers |-> {}]
NoCopyJob == [kind |-> "none", source |-> 0, target |-> 0, all |-> <<>>, copied |-> 0,
          compaction |-> NoCompaction]
EmptySession(cwd) == [cwd |-> cwd, entries |-> <<>>, leaf |-> 0, compaction |-> NoCompaction]
TreeIdle(sid) == [sid |-> sid, pc |-> "idle", snapshot |-> EmptySession("here"),
                  pending |-> NoCompaction, job |-> NoCopyJob]

\* The agents' workspace is "here", another one "there".  A parent comes before its
\* children; a summary is of the branch up to where it is.
TreeMessage == [role : {"user", "text", "calls", "tool"}, id : (TreeAgent \cup STRING) \X Nat]
TreeSession ==
  [cwd : {"here", "there"}, entries : Seq([msg : TreeMessage, parent : Nat]), leaf : Nat,
   compaction : [upTo : Nat, covers : SUBSET TreeMessage]]
IsTree(session) ==
  /\ session \in TreeSession
  /\ session.leaf <= Len(session.entries) /\ session.compaction.upTo <= Len(session.entries)
  /\ \A e \in DOMAIN session.entries : session.entries[e].parent < e

\* What earlier runs left; the agents are started on the last one.
SessionTreeInit ==
  /\ trSessions = InitialSessions
  /\ trAgents = [a \in TreeAgent |-> TreeIdle(Len(InitialSessions))]
  /\ trBudget \in TreeBudgets
  /\ trTouched = {} /\ trMisplaced = {} /\ trInherited = {}

-----------------------------------------------------------------------------
(* Reading a session *)

\* activeBranch: the positions from the root to a leaf.
BranchTo(session, leaf) ==
  LET path[i \in 0..Len(session.entries)] ==
        IF i = 0 THEN <<>> ELSE Append(path[session.entries[i].parent], i)
  IN  path[leaf]
ActiveBranch(session) == BranchTo(session, session.leaf)
MessagesAt(session, positions) ==
  [k \in DOMAIN positions |-> session.entries[positions[k]].msg]

\* A session that earlier runs left has a summary of its own branch, as one has
\* here that is in neither trInherited nor trMisplaced.
ASSUME TreeAssumption ==
  /\ InitialSessions # <<>> /\ InitialSessions \in Seq(TreeSession)
  /\ TreeBudgets \subseteq [TreeAgent -> [say : Nat, command : Nat]]
  /\ \A s \in DOMAIN InitialSessions :
       LET session == InitialSessions[s] IN
       /\ IsTree(session)
       /\ session.compaction.covers = ToSet(MessagesAt(session, BranchTo(session, session.compaction.upTo)))

\* The place of the compaction on the branch, 0 if it is not on it; where the
\* branch goes on behind it.
SummaryPlace(session) ==
  SelectInSeq(ActiveBranch(session), LAMBDA e : e = session.compaction.upTo)
Behind(session) == SummaryPlace(session) + 1
NotSummarized(session) ==
  MessagesAt(session, SubSeq(ActiveBranch(session), Behind(session), Len(ActiveBranch(session))))

\* Mutant: the summary is sent with a branch that it is not about.
CompileAnyway(session) ==
  [messages |-> NotSummarized(session), covers |-> session.compaction.covers]

\* What is sent: the branch, or the summary and the branch behind it.
Compile(session) ==
  [messages |-> NotSummarized(session),
   covers |-> IF Behind(session) = 1 THEN {} ELSE session.compaction.covers]

\* adjustSplitForToolPairs
KeepPairs(messages, split) ==
  IF split >= Len(messages) THEN split
  ELSE CHOOSE s \in 0..split :
         /\ s = 0 \/ messages[s + 1].role # "tool"
         /\ \A t \in s + 1..split : messages[t + 1].role = "tool"

\* A compaction of the branch before a split; the summary there is goes into
\* the new one, whichever branch it is about.
Summarized(session, split) ==
  LET branch == SubSeq(ActiveBranch(session), 1, split) IN
  [upTo |-> branch[split],
   covers |-> ToSet(MessagesAt(session, branch)) \cup session.compaction.covers]

\* The summary there was is about more than what is compacted now: another
\* branch, or this one further on.
TookOver(session, pending) ==
  session.compaction.upTo \notin ToSet(BranchTo(session, pending.upTo)) \cup {0}

-----------------------------------------------------------------------------
(* Writing to a session *)

TreeLocked(s) == \E b \in TreeAgent : trAgents[b].job.kind = "fork" /\ trAgents[b].job.source = s
FilledByOther(s, a) == \E b \in TreeAgent \ {a} : trAgents[b].job.target = s
Touches(a, s) == trTouched' = (IF FilledByOther(s, a) THEN trTouched \cup {s} ELSE trTouched)

Appended(session, msg) ==
  [session EXCEPT !.entries = Append(@, [msg |-> msg, parent |-> session.leaf]),
                  !.leaf = Len(session.entries) + 1]

\* appendMessage, moveLeaf or saveCompaction
MutateTree(a, s, session) ==
  /\ ~TreeLocked(s)
  /\ trSessions' = [trSessions EXCEPT ![s] = session]
  /\ Touches(a, s)

TreeAt(a, pc) == trAgents[a].pc = pc
TreeGoto(a, pc) ==
  trAgents' = [trAgents EXCEPT ![a].pc = pc, ![a].snapshot = TreeIdle(0).snapshot]
SidOf(a) == trAgents[a].sid
SessionOf(a) == trSessions[SidOf(a)]

\* An agent appends a message of its own to its session.
TreeSays(a, role) ==
  /\ trBudget[a].say > 0
  /\ trBudget' = [trBudget EXCEPT ![a].say = @ - 1]
  /\ MutateTree(a, SidOf(a), Appended(SessionOf(a), [role |-> role, id |-> <<a, trBudget[a].say>>]))
  /\ UNCHANGED <<trMisplaced, trInherited>>

-----------------------------------------------------------------------------
(* A turn *)

SubmitPrompt(a) == TreeAt(a, "idle") /\ TreeSays(a, "user") /\ TreeGoto(a, "compile")

\* autoCompact loads the session and compiles it.
AutoCompact(a) ==
  /\ TreeAt(a, "compile")
  /\ LET session == SessionOf(a)
         messages == MessagesAt(session, ActiveBranch(session)) IN
     \/ trAgents' = [trAgents EXCEPT ![a].pc = "ask", ![a].snapshot = session]
     \/ \E split \in 1..Len(messages) - 1 :
          /\ KeepPairs(messages, split) > 0
          /\ trAgents' = [trAgents EXCEPT ![a].pc = "save", ![a].snapshot = session,
               ![a].pending = Summarized(session, KeepPairs(messages, split))]
  /\ UNCHANGED <<trSessions, trBudget, trTouched, trMisplaced, trInherited>>

\* What was compiled from may have been overtaken by now.
SaveCompaction(a) ==
  /\ TreeAt(a, "save") \/ TreeAt(a, "saveManually")
  /\ LET session == [SessionOf(a) EXCEPT !.compaction = trAgents[a].pending] IN
     /\ MutateTree(a, SidOf(a), session)
     /\ trAgents' = [trAgents EXCEPT ![a].pc = IF TreeAt(a, "save") THEN "ask" ELSE "idle",
          ![a].snapshot = IF TreeAt(a, "save") THEN session ELSE TreeIdle(0).snapshot,
          ![a].pending = NoCompaction]
  /\ trInherited' = (IF TookOver(trAgents[a].snapshot, trAgents[a].pending)
                     THEN trInherited \cup {SidOf(a)} ELSE trInherited)
  /\ UNCHANGED <<trBudget, trMisplaced>>

\* The model answers to what was compiled.
AnswerText(a) == TreeAt(a, "ask") /\ TreeSays(a, "text") /\ TreeGoto(a, "idle")
AnswerCalls(a) == TreeAt(a, "ask") /\ TreeSays(a, "calls") /\ TreeGoto(a, "tool")
ToolResult(a) == TreeAt(a, "tool") /\ TreeSays(a, "tool") /\ TreeGoto(a, "compile")

\* The turn or the copy fails, on another one's lock for instance, or the
\* process dies and is started again on the session.
TreeFails(a) ==
  /\ ~TreeAt(a, "idle")
  /\ trAgents' = [trAgents EXCEPT ![a] = TreeIdle(SidOf(a))]
  /\ UNCHANGED <<trSessions, trBudget, trTouched, trMisplaced, trInherited>>

-----------------------------------------------------------------------------
(* Commands between turns *)

TreeCommand(a) ==
  /\ TreeAt(a, "idle")
  /\ trBudget[a].command > 0
  /\ trBudget' = [trBudget EXCEPT ![a].command = @ - 1]

\* /branch
MoveLeaf(a) ==
  /\ TreeCommand(a)
  /\ \E e \in DOMAIN SessionOf(a).entries : MutateTree(a, SidOf(a), [SessionOf(a) EXCEPT !.leaf = e])
  /\ UNCHANGED <<trAgents, trMisplaced, trInherited>>

\* /compact: what autoCompact would drop, or all but the last four (here two)
\* messages, wherever that cuts.
CompactByHand(a) ==
  /\ TreeCommand(a)
  /\ LET session == SessionOf(a)
         messages == MessagesAt(session, ActiveBranch(session))
         splits == {KeepPairs(messages, s) : s \in 1..Len(messages) - 1}
                   \cup {s \in DOMAIN messages : s + 2 = Len(messages)}
     IN \E split \in splits \ {0} :
          trAgents' = [trAgents EXCEPT ![a].pc = "saveManually", ![a].snapshot = session,
               ![a].pending = Summarized(session, split)]
  /\ UNCHANGED <<trSessions, trTouched, trMisplaced, trInherited>>

\* /new, /resume
StartSession(a) ==
  /\ TreeCommand(a)
  /\ Len(trSessions) < MaxTrees
  /\ trSessions' = Append(trSessions, EmptySession("here"))
  /\ trAgents' = [trAgents EXCEPT ![a].sid = Len(trSessions) + 1]
  /\ UNCHANGED <<trTouched, trMisplaced, trInherited>>
SwitchSession(a) ==
  /\ TreeCommand(a)
  /\ \E s \in DOMAIN trSessions \ {SidOf(a)} :
       trSessions[s].cwd = "here" /\ trAgents' = [trAgents EXCEPT ![a].sid = s]
  /\ UNCHANGED <<trSessions, trTouched, trMisplaced, trInherited>>

\* A copy begins: of what is the branch now, or of an earlier one.
BeginCopy(a, kind, source, leaf, compaction) ==
  /\ TreeCommand(a)
  /\ Len(trSessions) < MaxTrees
  /\ ~TreeLocked(source)
  /\ trSessions' = Append(trSessions, EmptySession("here"))
  /\ trAgents' = [trAgents EXCEPT ![a].pc = "copy", ![a].job =
       [kind |-> kind, source |-> source, target |-> Len(trSessions) + 1,
        all |-> MessagesAt(trSessions[source], BranchTo(trSessions[source], leaf)),
        copied |-> 0, compaction |-> compaction]]
  /\ UNCHANGED <<trTouched, trMisplaced, trInherited>>

\* /fork drops the compaction and holds the source's lock to its end.
ForkSession(a) ==
  \E leaf \in {SessionOf(a).leaf} \cup DOMAIN SessionOf(a).entries :
    BeginCopy(a, "fork", SidOf(a), leaf, NoCompaction)

\* importSnapshot: the compaction by its place in the branch, if it is there.
ImportSnapshot(a) ==
  \E s \in DOMAIN trSessions :
    LET session == trSessions[s] IN
    BeginCopy(a, "import", s, session.leaf, [session.compaction EXCEPT !.upTo = SummaryPlace(session)])

CopyJob(a) == trAgents[a].job
CopyMessage(a) ==
  /\ TreeAt(a, "copy") /\ CopyJob(a).copied < Len(CopyJob(a).all)
  /\ LET t == CopyJob(a).target IN
     MutateTree(a, t, Appended(trSessions[t], CopyJob(a).all[CopyJob(a).copied + 1]))
  /\ trAgents' = [trAgents EXCEPT ![a].job.copied = @ + 1]
  /\ UNCHANGED <<trBudget, trMisplaced, trInherited>>
CopyCompaction(a) ==
  /\ TreeAt(a, "copy") /\ CopyJob(a).copied = Len(CopyJob(a).all)
  /\ LET t == CopyJob(a).target
         source == CopyJob(a).source
         branch == ActiveBranch(trSessions[t])
         place == CopyJob(a).compaction.upTo
     IN  IF place \in DOMAIN branch
         THEN /\ MutateTree(a, t, [trSessions[t] EXCEPT !.compaction =
                   [upTo |-> branch[place], covers |-> CopyJob(a).compaction.covers]])
              /\ trInherited' = trInherited \cup (IF source \in trInherited THEN {t} ELSE {})
              /\ trMisplaced' =
                   trMisplaced \cup (IF t \in trTouched \/ source \in trMisplaced THEN {t} ELSE {})
         ELSE UNCHANGED <<trSessions, trTouched, trMisplaced, trInherited>>
  /\ TreeGoto(a, "copied")
  /\ UNCHANGED trBudget
EndCopy(a) ==
  /\ TreeAt(a, "copied")
  /\ trAgents' = [trAgents EXCEPT ![a] = TreeIdle(IF CopyJob(a).kind = "fork" THEN CopyJob(a).target ELSE SidOf(a))]
  /\ UNCHANGED <<trSessions, trBudget, trTouched, trMisplaced, trInherited>>

SessionTreeNext ==
  \E a \in TreeAgent :
    \/ SubmitPrompt(a) \/ AutoCompact(a) \/ SaveCompaction(a)
    \/ AnswerText(a) \/ AnswerCalls(a) \/ ToolResult(a) \/ TreeFails(a)
    \/ MoveLeaf(a) \/ CompactByHand(a) \/ StartSession(a) \/ SwitchSession(a)
    \/ ForkSession(a) \/ ImportSnapshot(a)
    \/ CopyMessage(a) \/ CopyCompaction(a) \/ EndCopy(a)
SessionTreeSpec == SessionTreeInit /\ [][SessionTreeNext]_treeVars

-----------------------------------------------------------------------------
(* Properties *)

\* Whoever moved the leaf, compacted or copied meanwhile, a request carries the
\* whole branch it continues, as messages or in the summary, and nothing of a
\* branch that was left, unless a compaction took the summary of one over
\* (agent.ts:742, 1158 pass it on without asking what it is about) or somebody
\* wrote to the session before it got the summary it was copied with.
BranchIsSent ==
  \A a \in TreeAgent : TreeAt(a, "ask") /\ SidOf(a) \notin trMisplaced =>
    LET session == trAgents[a].snapshot
        sent == Compile(session)
        branch == ToSet(MessagesAt(session, ActiveBranch(session)))
    IN  /\ branch \subseteq ToSet(sent.messages) \cup sent.covers
        /\ sent.covers \subseteq branch \/ SidOf(a) \in trInherited

\* A copy that came to its end has the messages of the branch, in order, and
\* the compaction at its place, unless somebody found it in the list and wrote
\* to it before (session-store.ts:230-244, 256-280).
CopyIsWhole ==
  \A a \in TreeAgent : TreeAt(a, "copied") /\ CopyJob(a).target \notin trTouched =>
    LET copy == trSessions[CopyJob(a).target]
        branch == ActiveBranch(copy)
    IN  /\ MessagesAt(copy, branch) = CopyJob(a).all
        /\ copy.compaction.upTo =
             (IF CopyJob(a).compaction.upTo = 0 THEN 0 ELSE branch[CopyJob(a).compaction.upTo])
        /\ copy.compaction.upTo # 0 => copy.compaction.covers = CopyJob(a).compaction.covers

SessionsRemember == BranchIsSent /\ CopyIsWhole
=============================================================================
