-------------------------- MODULE InteractionProofs ---------------------------
(***************************************************************************)
(* Theorems about whom the agent works with, for every value of the        *)
(* constants: the clients of its servers and extensions, the tools these   *)
(* register, the logins to providers, the screen of the terminal, what is  *)
(* between a command line and an agent that runs, and its configuration.   *)
(***************************************************************************)
EXTENDS RpcCalls, ToolRegistry, SignIn, TerminalUi, Launch, AgentConfig,
        SequenceTheorems, WellFoundedInduction, TLAPS

-----------------------------------------------------------------------------
(* Calls of extensions, MCP servers and language servers                   *)

CallRecord == [state : {"new", "pending", "resolved", "rejected"}, id : Nat, answered : RpcCall \cup {NoAnswer}]
Request == [id : Nat, from : RpcCall]

RpcTypeOK ==
  /\ nextId \in Nat \ {0}
  /\ call \in [RpcCall -> CallRecord]
  /\ inbox \subseteq Request
  /\ outbox \subseteq Request

\* An id was given to one call only, and is smaller than the next one.
IdsUnique ==
  /\ \A c \in RpcCall :
       /\ call[c].id < nextId
       /\ (call[c].state = "new" => call[c].id = 0)
       /\ (Pending(c) => call[c].id # 0)
  /\ \A c, d \in RpcCall : call[c].id = call[d].id /\ call[c].id # 0 => c = d

\* The server, and its pipe, hold requests under the id of the call they are of.
RequestsNamed ==
  \A r \in inbox \cup outbox : r.id # 0 /\ call[r.from].id = r.id

RpcInv == RpcTypeOK /\ IdsUnique /\ RequestsNamed /\ AnswerIsItsOwn

\* A step that changes neither ids nor adds requests keeps the invariant, if it
\* answers calls only with their own requests.
LEMMA SettlingKeepsInv ==
  ASSUME RpcInv,
         nextId' = nextId,
         call' \in [RpcCall -> CallRecord],
         \A c \in RpcCall : /\ call'[c].id = call[c].id
                            /\ call'[c].state \in {call[c].state, "resolved", "rejected"}
                            /\ call'[c].answered \in {NoAnswer, c},
         inbox' \subseteq inbox,
         outbox' \subseteq inbox \cup outbox
  PROVE  RpcInv'
BY DEF RpcInv, RpcTypeOK, IdsUnique, Pending, RequestsNamed, AnswerIsItsOwn, CallRecord, Request

\* The invariant holds before the first call.
LEMMA InitInv == RpcInit => RpcInv
BY DEF RpcInit, RpcInv, RpcTypeOK, IdsUnique, Pending, RequestsNamed, AnswerIsItsOwn, CallRecord, Request

\* A call made gets an id no other has had.
LEMMA StartCallKeepsInv ==
  ASSUME RpcInv, NEW c \in RpcCall, StartCall(c)
  PROVE  RpcInv'
<1> USE DEF RpcInv, RpcTypeOK, CallRecord, Request
<1>1. CASE ~Usable
  <2>1. /\ call' = [call EXCEPT ![c].state = "rejected"]
        /\ call[c].state = "new" /\ call[c].id = 0
        /\ UNCHANGED <<nextId, inbox, outbox>>
    BY <1>1 DEF StartCall, IdsUnique
  <2> QED
    BY <2>1 DEF IdsUnique, Pending, RequestsNamed, AnswerIsItsOwn
<1>2. CASE Usable
  <2>1. PICK s \in {"pending", "rejected"} :
          call' = [call EXCEPT ![c].state = s, ![c].id = nextId]
    BY <1>2 DEF StartCall, NewId
  <2>2. /\ nextId' = nextId + 1 /\ outbox' = outbox
        /\ inbox' \subseteq inbox \cup {[id |-> nextId, from |-> c]}
    BY <1>2 DEF StartCall, NewId
  <2>3. \A r \in inbox \cup outbox : r.from # c
    BY DEF RequestsNamed, IdsUnique, StartCall
  <2>4. /\ call' \in [RpcCall -> CallRecord]
        /\ call'[c].id = nextId /\ call'[c].state = s /\ call'[c].answered = call[c].answered
        /\ \A d \in RpcCall : d # c => call'[d] = call[d]
    BY <2>1
  <2>5. RpcTypeOK'
    BY <2>2, <2>4
  <2>6. IdsUnique'
    BY <2>2, <2>4 DEF IdsUnique, Pending
  <2>7. RequestsNamed'
    BY <2>2, <2>3, <2>4 DEF RequestsNamed
  <2>8. AnswerIsItsOwn'
    BY <2>4 DEF AnswerIsItsOwn
  <2> QED
    BY <2>5, <2>6, <2>7, <2>8
<1> QED
  BY <1>1, <1>2

\* Settling a call leaves every call's id, and what it is an answer of.
LEMMA SettledIds ==
  ASSUME RpcInv, NEW S \in SUBSET RpcCall, NEW st \in {"resolved", "rejected"}
  PROVE  /\ Settled(S, st) \in [RpcCall -> CallRecord]
         /\ \A c \in RpcCall : /\ Settled(S, st)[c].id = call[c].id
                               /\ Settled(S, st)[c].state \in {call[c].state, "resolved", "rejected"}
                               /\ Settled(S, st)[c].answered \in {NoAnswer, c}
BY DEF Settled, RpcInv, RpcTypeOK, CallRecord, AnswerIsItsOwn

\* A pending call that waits for the id of an answer is the call it answers.
LEMMA ReadAnswerKeepsInv ==
  ASSUME RpcInv, NEW answer \in outbox, ReadAnswer(answer)
  PROVE  RpcInv'
<1>1. answer \in Request /\ answer.id # 0 /\ call[answer.from].id = answer.id
  BY DEF RpcInv, RpcTypeOK, RequestsNamed
<1>2. \A c \in WaitingFor(answer.id) : c = answer.from
  BY <1>1 DEF WaitingFor, RpcInv, IdsUnique, Request
<1>3. PICK st \in {"resolved", "rejected"} :
        call' = [c \in RpcCall |->
                   IF c \in WaitingFor(answer.id)
                     THEN [call[c] EXCEPT !.state = st, !.answered = answer.from] ELSE call[c]]
  BY DEF ReadAnswer
<1>4. call \in [RpcCall -> CallRecord] /\ answer.from \in RpcCall
  BY <1>1 DEF RpcInv, RpcTypeOK, Request
<1>5. call' \in [RpcCall -> CallRecord]
  BY <1>3, <1>4 DEF CallRecord
<1>6. \A c \in RpcCall : /\ call'[c].id = call[c].id
                        /\ call'[c].state \in {call[c].state, "resolved", "rejected"}
                        /\ call'[c].answered \in {NoAnswer, c}
  BY <1>2, <1>3, <1>4 DEF CallRecord, RpcInv, AnswerIsItsOwn
<1>7. nextId' = nextId /\ inbox' = inbox /\ outbox' \subseteq outbox
  BY DEF ReadAnswer
<1> QED
  BY <1>5, <1>6, <1>7, SettlingKeepsInv

\* What a cancellation leaves with the server was there before.
LEMMA CancelRemoves ==
  ASSUME NEW id, CancelAt(id)
  PROVE  inbox' \subseteq inbox /\ outbox' \subseteq outbox
BY DEF CancelAt

\* Every call, answer, abort, time limit and end of the server keeps the invariant.
THEOREM RpcInvariance == RpcSpec => []RpcInv
<1>1. RpcInv /\ [RpcNext]_rpcVars => RpcInv'
  <2> SUFFICES ASSUME RpcInv, [RpcNext]_rpcVars PROVE RpcInv'
    OBVIOUS
  <2>0. call \in [RpcCall -> CallRecord]
    BY DEF RpcInv, RpcTypeOK
  <2>1. ASSUME NEW c \in RpcCall, StartCall(c) PROVE RpcInv'
    BY <2>1, StartCallKeepsInv
  <2>2. ASSUME NEW c \in RpcCall, AbortCall(c) PROVE RpcInv'
    BY <2>2, SettledIds, CancelRemoves, SettlingKeepsInv DEF AbortCall
  <2>3. ASSUME NEW request \in inbox, Serve(request) PROVE RpcInv'
    <3>1. call' = call /\ nextId' = nextId
          /\ inbox' \subseteq inbox /\ outbox' \subseteq inbox \cup outbox
      BY <2>3 DEF Serve
    <3> QED
      BY <2>0, <3>1, SettlingKeepsInv DEF RpcInv, AnswerIsItsOwn
  <2>4. ASSUME NEW answer \in outbox, ReadAnswer(answer) PROVE RpcInv'
    BY <2>4, ReadAnswerKeepsInv
  <2>5. ASSUME NEW id \in timer, Timeout(id) PROVE RpcInv'
    <3>1. WaitingFor(id) \in SUBSET RpcCall
      BY DEF WaitingFor
    <3> QED
      BY <2>5, <3>1, SettledIds, CancelRemoves, SettlingKeepsInv DEF Timeout
  <2>6. CASE ChildDies
    <3>1. call' = call /\ nextId' = nextId /\ inbox' \subseteq inbox /\ outbox' = outbox
      BY <2>6 DEF ChildDies
    <3> QED
      BY <2>0, <3>1, SettlingKeepsInv DEF RpcInv, AnswerIsItsOwn
  <2>7. CASE NoticeDeath
    <3>1. {c \in RpcCall : Pending(c) /\ call[c].id \in pendingId} \in SUBSET RpcCall
      OBVIOUS
    <3> QED
      BY <2>7, <3>1, SettledIds, SettlingKeepsInv DEF NoticeDeath, RejectPending
  <2>8. CASE CloseClient
    <3>1. {c \in RpcCall : Pending(c) /\ call[c].id \in pendingId} \in SUBSET RpcCall
      OBVIOUS
    <3>2. nextId' = nextId /\ inbox' \subseteq inbox /\ outbox' \subseteq outbox
      BY <2>8 DEF CloseClient
    <3>3. CASE call' = call
      BY <2>0, <3>2, <3>3, SettlingKeepsInv DEF RpcInv, AnswerIsItsOwn
    <3>4. CASE RejectPending
      BY <3>1, <3>2, <3>4, SettledIds, SettlingKeepsInv DEF RejectPending
    <3> QED
      BY <2>8, <3>3, <3>4 DEF CloseClient
  <2>9. CASE UNCHANGED rpcVars
    BY <2>9 DEF rpcVars, RpcInv, RpcTypeOK, IdsUnique, Pending, RequestsNamed, AnswerIsItsOwn
  <2> QED
    BY <2>1, <2>2, <2>3, <2>4, <2>5, <2>6, <2>7, <2>8, <2>9 DEF RpcNext
<1> QED
  BY InitInv, <1>1, PTL DEF RpcSpec

\* A call that was answered got the answer to its own request, for any number of
\* calls: an id is never used again, so a late answer finds its own call or none
\* (mcp.ts:337-362, process-extension-host.ts:351-363).
THEOREM AnswersMatch == RpcSpec => []AnswerIsItsOwn
BY RpcInvariance, PTL DEF RpcInv

-----------------------------------------------------------------------------
(* Registered tools                                                        *)

ChildLine == [type : {"tool", "command", "ready", "error"}, name : STRING]
Child ==
  [path : STRING, status : {"starting", "running", "dead"}, lines : Seq(ChildLine),
   tools : SUBSET STRING, listed : BOOLEAN, killed : BOOLEAN, exited : BOOLEAN]
HostPoints == {"load", "wait", "discard", "mcp", "agent", "idle", "stopping", "failed"}

RegistryTypeOK ==
  /\ DOMAIN registry = ToolName
  /\ kids \in Seq(Child)
  /\ hostPc \in HostPoints
  /\ loadIx \in Nat \ {0}

\* A child that is being loaded, or discarded, owns every tool it has registered.
LoadedOwns ==
  hostPc \in {"wait", "discard"} =>
    /\ LastKid \in DOMAIN kids
    /\ \A n \in ToolName : n \in kids[LastKid].tools => registry[n] = ByKid(LastKid)

RegistryInv == RegistryTypeOK /\ LoadedOwns

\* A child changes, and the others do not.
LEMMA ChildMoves ==
  ASSUME RegistryTypeOK, NEW i \in DOMAIN kids, NEW kid \in Child, kids' = [kids EXCEPT ![i] = kid]
  PROVE  /\ kids' \in Seq(Child) /\ DOMAIN kids' = DOMAIN kids /\ LastKid' = LastKid
         /\ kids'[i] = kid /\ \A j \in DOMAIN kids : j # i => kids'[j] = kids[j]
<1>1. /\ kids \in [1..Len(kids) -> Child] /\ Len(kids) \in Nat /\ DOMAIN kids = 1..Len(kids)
  BY DEF RegistryTypeOK
<1>2. kids' \in [1..Len(kids) -> Child]
  BY <1>1
<1>3. kids' \in Seq(Child) /\ Len(kids') = Len(kids)
  BY <1>1, <1>2
<1> QED
  BY <1>1, <1>3 DEF LastKid

\* Nothing is known of tools while no child is waited for or discarded.
LEMMA OwnsStays ==
  ASSUME RegistryInv, RegistryTypeOK', hostPc' \in {"wait", "discard"} => hostPc \in {"wait", "discard"},
         LastKid' = LastKid, DOMAIN kids' = DOMAIN kids,
         \A i \in DOMAIN kids : kids'[i].tools = kids[i].tools,
         \A n \in ToolName : registry[n] # NoOwner => registry'[n] = registry[n]
  PROVE  RegistryInv'
<1> SUFFICES ASSUME hostPc \in {"wait", "discard"}
             PROVE  /\ LastKid' \in DOMAIN kids'
                    /\ \A n \in ToolName : n \in kids'[LastKid'].tools => registry'[n] = ByKid(LastKid')
  BY DEF RegistryInv, LoadedOwns, ByKid
<1>1. /\ LastKid \in DOMAIN kids
      /\ \A n \in ToolName : n \in kids[LastKid].tools => registry[n] = ByKid(LastKid)
  BY DEF RegistryInv, LoadedOwns
<1>2. ByKid(LastKid) # NoOwner
  BY DEF ByKid, NoOwner
<1> QED
  BY <1>1, <1>2

\* What a child is that is given up.
LEMMA DeadMoves ==
  ASSUME RegistryTypeOK, NEW i \in DOMAIN kids, NEW kid \in Child, MarkDead(i, kid)
  PROVE  /\ kids' \in Seq(Child) /\ DOMAIN kids' = DOMAIN kids /\ LastKid' = LastKid /\ loadIx' = loadIx
         /\ kids'[i].tools = kid.tools /\ \A j \in DOMAIN kids : j # i => kids'[j] = kids[j]
         /\ hostPc' \in HostPoints
         /\ hostPc' \in {"wait", "discard"} => hostPc \in {"wait", "discard"}
<1> DEFINE dead == [kid EXCEPT !.status = "dead", !.killed = TRUE]
<1>1. dead \in Child /\ dead.tools = kid.tools
  BY DEF Child
<1>2. /\ kids' = [kids EXCEPT ![i] = dead] /\ loadIx' = loadIx
      /\ hostPc' = IF Awaited(i) /\ kid.status # "dead" THEN "discard" ELSE hostPc
  BY DEF MarkDead
<1> HIDE DEF dead
<1>3. /\ kids' \in Seq(Child) /\ DOMAIN kids' = DOMAIN kids /\ LastKid' = LastKid
      /\ kids'[i] = dead /\ \A j \in DOMAIN kids : j # i => kids'[j] = kids[j]
  BY <1>1, <1>2, ChildMoves
<1> QED
  BY <1>1, <1>2, <1>3 DEF Awaited, RegistryTypeOK, HostPoints

\* A line of a child: a tool is only registered under a name nobody has.
LEMMA LineKeeps ==
  ASSUME RegistryInv, NEW i \in DOMAIN kids, HandleLine(i)
  PROVE  RegistryInv' /\ \A n \in ToolName : registry[n] # NoOwner => registry'[n] = registry[n]
<1>0. RegistryTypeOK
  BY DEF RegistryInv
<1>1. PICK line \in ChildLine, kid \in Child :
        /\ line = Head(kids[i].lines) /\ kid = [kids[i] EXCEPT !.lines = Tail(@)]
        /\ kid.tools = kids[i].tools
  <2>1. kids[i] \in Child /\ kids[i].lines # <<>>
    BY <1>0 DEF RegistryTypeOK, HandleLine
  <2>2. kids[i].lines \in Seq(ChildLine)
    BY <2>1 DEF Child
  <2>3. Head(kids[i].lines) \in ChildLine /\ Tail(kids[i].lines) \in Seq(ChildLine)
    BY <2>1, <2>2, HeadTailProperties
  <2>4. [kids[i] EXCEPT !.lines = Tail(@)] \in Child
    BY <2>1, <2>3 DEF Child
  <2> QED
    BY <2>1, <2>3, <2>4 DEF Child
<1>2. CASE line.type = "tool" /\ RegisterTool(i, kid, line.name)
  <2>1. CASE registry[line.name] = NoOwner
    <3> DEFINE mine == Claimed(kid, line.name)
    <3>1. /\ registry' = [registry EXCEPT ![line.name] = ByKid(i)]
          /\ kids' = [kids EXCEPT ![i] = mine] /\ UNCHANGED <<hostPc, loadIx>>
      BY <1>2, <2>1 DEF RegisterTool
    <3>2. mine \in Child /\ mine.tools = kids[i].tools \cup {line.name}
      BY <1>1 DEF Claimed, Child, ChildLine
    <3> HIDE DEF mine
    <3>3. /\ kids' \in Seq(Child) /\ DOMAIN kids' = DOMAIN kids /\ LastKid' = LastKid
          /\ kids'[i] = mine /\ \A j \in DOMAIN kids : j # i => kids'[j] = kids[j]
      BY <1>0, <3>1, <3>2, ChildMoves
    <3>4. RegistryTypeOK'
      BY <1>0, <3>1, <3>3 DEF RegistryTypeOK
    <3>5. \A n \in ToolName : registry[n] # NoOwner => registry'[n] = registry[n]
      BY <1>0, <2>1, <3>1 DEF RegistryTypeOK
    <3>6. ASSUME hostPc \in {"wait", "discard"}, NEW n \in ToolName, n \in kids'[LastKid].tools
          PROVE  registry'[n] = ByKid(LastKid)
      <4>1. LastKid \in DOMAIN kids /\ (n \in kids[LastKid].tools => registry[n] = ByKid(LastKid))
        BY <3>6 DEF RegistryInv, LoadedOwns
      <4>2. ByKid(LastKid) # NoOwner
        BY DEF ByKid, NoOwner
      <4>3. CASE n \in kids[LastKid].tools
        BY <3>5, <4>1, <4>2, <4>3
      <4>4. CASE n \notin kids[LastKid].tools
        <5>1. i = LastKid /\ n = line.name
          BY <3>2, <3>3, <3>6, <4>1, <4>4
        <5> QED
          BY <1>0, <3>1, <5>1 DEF RegistryTypeOK
      <4> QED
        BY <4>3, <4>4
    <3> QED
      BY <3>1, <3>3, <3>4, <3>5, <3>6 DEF RegistryInv, LoadedOwns, ByKid
  <2>2. CASE registry[line.name] # NoOwner
    <3>1. MarkDead(i, kid) /\ registry' = registry
      BY <1>2, <2>2 DEF RegisterTool
    <3>2. /\ kids' \in Seq(Child) /\ DOMAIN kids' = DOMAIN kids /\ LastKid' = LastKid /\ loadIx' = loadIx
          /\ kids'[i].tools = kid.tools /\ \A j \in DOMAIN kids : j # i => kids'[j] = kids[j]
          /\ hostPc' \in HostPoints /\ (hostPc' \in {"wait", "discard"} => hostPc \in {"wait", "discard"})
      BY <1>0, <3>1, DeadMoves
    <3>3. RegistryTypeOK'
      BY <1>0, <3>1, <3>2 DEF RegistryTypeOK
    <3> QED
      BY <1>1, <3>1, <3>2, <3>3, OwnsStays
  <2> QED
    BY <2>1, <2>2
<1>3. CASE registry' = registry /\ \/ MarkDead(i, kid)
                                   \/ kids' = [kids EXCEPT ![i] = kid] /\ UNCHANGED <<hostPc, loadIx>>
  <2>1. /\ kids' \in Seq(Child) /\ DOMAIN kids' = DOMAIN kids /\ LastKid' = LastKid /\ loadIx' = loadIx
        /\ kids'[i].tools = kid.tools /\ \A j \in DOMAIN kids : j # i => kids'[j] = kids[j]
        /\ hostPc' \in HostPoints /\ (hostPc' \in {"wait", "discard"} => hostPc \in {"wait", "discard"})
    <3>1. CASE MarkDead(i, kid)
      BY <1>0, <3>1, DeadMoves
    <3>2. CASE kids' = [kids EXCEPT ![i] = kid] /\ UNCHANGED <<hostPc, loadIx>>
      BY <1>0, <3>2, ChildMoves DEF RegistryTypeOK
    <3> QED
      BY <1>3, <3>1, <3>2
  <2>2. RegistryTypeOK'
    BY <1>0, <1>3, <2>1 DEF RegistryTypeOK
  <2> QED
    BY <1>1, <1>3, <2>1, <2>2, OwnsStays
<1>4. CASE /\ kids' = [kids EXCEPT ![i] = [kid EXCEPT !.status = "running"]] /\ registry' = registry
           /\ IF Awaited(i) THEN hostPc' = "load" /\ loadIx' = loadIx + 1 ELSE UNCHANGED <<hostPc, loadIx>>
  <2> DEFINE runs == [kid EXCEPT !.status = "running"]
  <2>1. runs \in Child /\ runs.tools = kids[i].tools
    BY <1>1 DEF Child
  <2>2. kids' = [kids EXCEPT ![i] = runs]
    BY <1>4
  <2> HIDE DEF runs
  <2>3. /\ kids' \in Seq(Child) /\ DOMAIN kids' = DOMAIN kids /\ LastKid' = LastKid
        /\ kids'[i] = runs /\ \A j \in DOMAIN kids : j # i => kids'[j] = kids[j]
    BY <1>0, <2>1, <2>2, ChildMoves
  <2>4. RegistryTypeOK'
    BY <1>0, <1>4, <2>3 DEF RegistryTypeOK, HostPoints
  <2> QED
    BY <1>4, <2>1, <2>3, <2>4, OwnsStays
<1> QED
  BY <1>1, <1>2, <1>3, <1>4 DEF HandleLine, RegisterCommand

\* A child is gone, with what it had not written yet.
LEMMA ExitKeeps ==
  ASSUME RegistryInv, NEW i \in DOMAIN kids, Exit(i)
  PROVE  RegistryInv' /\ registry' = registry
<1>0. RegistryTypeOK /\ registry' = registry
  BY DEF RegistryInv, Exit
<1>1. PICK n \in 0..Len(kids[i].lines) :
        MarkDead(i, [kids[i] EXCEPT !.lines = SubSeq(@, 1, n), !.exited = TRUE])
  BY DEF Exit
<1> DEFINE kid == [kids[i] EXCEPT !.lines = SubSeq(@, 1, n), !.exited = TRUE]
<1>2. kids[i] \in Child
  BY <1>0 DEF RegistryTypeOK
<1>3. kids[i].lines \in Seq(ChildLine)
  BY <1>2 DEF Child
<1>4. SubSeq(kids[i].lines, 1, n) \in Seq(ChildLine)
  <2>1. \A k \in 1..n : kids[i].lines[k] \in ChildLine
    BY <1>3
  <2> QED
    BY <2>1, SubSeqProperties
<1>5. kid \in Child /\ kid.tools = kids[i].tools
  BY <1>2, <1>4 DEF Child
<1>6. MarkDead(i, kid)
  BY <1>1
<1> HIDE DEF kid
<1>7. /\ kids' \in Seq(Child) /\ DOMAIN kids' = DOMAIN kids /\ LastKid' = LastKid /\ loadIx' = loadIx
      /\ kids'[i].tools = kid.tools /\ \A j \in DOMAIN kids : j # i => kids'[j] = kids[j]
      /\ hostPc' \in HostPoints /\ (hostPc' \in {"wait", "discard"} => hostPc \in {"wait", "discard"})
  BY <1>0, <1>5, <1>6, DeadMoves
<1>8. RegistryTypeOK'
  BY <1>0, <1>7 DEF RegistryTypeOK
<1> QED
  BY <1>0, <1>5, <1>7, <1>8, OwnsStays

\* A load that takes too long is given up.
LEMMA TimeoutKeeps ==
  ASSUME RegistryInv, LoadTimeout PROVE RegistryInv' /\ registry' = registry
<1>0. /\ RegistryTypeOK /\ LastKid \in DOMAIN kids
      /\ kids' = [kids EXCEPT ![LastKid].killed = TRUE] /\ hostPc' = "discard" /\ hostPc = "wait"
      /\ UNCHANGED <<registry, loadIx>>
  BY DEF RegistryInv, LoadedOwns, LoadTimeout
<1>1. PICK i \in DOMAIN kids : i = LastKid
  BY <1>0
<1> DEFINE kid == [kids[i] EXCEPT !.killed = TRUE]
<1>2. kids[i] \in Child
  BY <1>0 DEF RegistryTypeOK
<1>3. kid \in Child /\ kid.tools = kids[i].tools /\ kids' = [kids EXCEPT ![i] = kid]
  BY <1>0, <1>1, <1>2 DEF Child
<1> HIDE DEF kid
<1>4. /\ kids' \in Seq(Child) /\ DOMAIN kids' = DOMAIN kids /\ LastKid' = LastKid
      /\ kids'[i] = kid /\ \A j \in DOMAIN kids : j # i => kids'[j] = kids[j]
  BY <1>0, <1>3, ChildMoves
<1>5. RegistryTypeOK'
  BY <1>0, <1>4 DEF RegistryTypeOK, HostPoints
<1> QED
  BY <1>0, <1>3, <1>4, <1>5, OwnsStays

\* A new child has registered nothing.
LEMMA SpawnKeeps ==
  ASSUME RegistryInv, Spawn PROVE RegistryInv' /\ registry' = registry
<1>0. RegistryTypeOK /\ registry' = registry /\ hostPc' = "wait" /\ loadIx' = loadIx
  BY DEF RegistryInv, Spawn
<1>1. ExtensionPaths[loadIx] \in STRING
      /\ Scripts[ExtensionPaths[loadIx]] \subseteq Seq(ChildLine)
  <2>1. loadIx \in 1..Len(ExtensionPaths) /\ DOMAIN ExtensionPaths = 1..Len(ExtensionPaths)
    BY <1>0, RegistryAssumption DEF Spawn, RegistryTypeOK
  <2> QED
    BY <2>1, RegistryAssumption DEF ChildLine
<1>2. PICK script \in Scripts[ExtensionPaths[loadIx]] :
       kids' = Append(kids, [path |-> ExtensionPaths[loadIx], status |-> "starting",
                             lines |-> script, tools |-> {}, listed |-> TRUE,
                             killed |-> FALSE, exited |-> FALSE])
  BY DEF Spawn
<1> DEFINE kid == [path |-> ExtensionPaths[loadIx], status |-> "starting", lines |-> script,
                   tools |-> {}, listed |-> TRUE, killed |-> FALSE, exited |-> FALSE]
<1>5. script \in Seq(ChildLine)
  BY <1>1
<1>6. kid \in Child
  BY <1>1, <1>5 DEF Child
<1>7. kids' = Append(kids, kid) /\ kid.tools = {}
  BY <1>2
<1> HIDE DEF kid
<1>3. /\ kids' \in Seq(Child) /\ LastKid' \in DOMAIN kids' /\ kids'[LastKid'] = kid
  BY <1>0, <1>6, <1>7, AppendProperties DEF RegistryTypeOK, LastKid
<1>4. RegistryTypeOK'
  BY <1>0, <1>3 DEF RegistryTypeOK, HostPoints
<1> QED
  BY <1>0, <1>7, <1>3, <1>4 DEF RegistryInv, LoadedOwns

\* A module of this process registers under free names only.
LEMMA InProcessKeeps ==
  ASSUME RegistryInv, LoadInProcess
  PROVE  RegistryInv' /\ \A n \in ToolName : registry[n] # NoOwner => registry'[n] = registry[n]
<1>0. RegistryTypeOK /\ hostPc = "load"
  BY DEF RegistryInv, LoadInProcess
<1>1. ExtensionPaths[loadIx] \in STRING
      /\ Scripts[ExtensionPaths[loadIx]] \subseteq Seq(ChildLine)
  <2>1. loadIx \in 1..Len(ExtensionPaths) /\ DOMAIN ExtensionPaths = 1..Len(ExtensionPaths)
    BY <1>0, RegistryAssumption DEF LoadInProcess, RegistryTypeOK
  <2> QED
    BY <2>1, RegistryAssumption DEF ChildLine
<1>2. PICK script \in Scripts[ExtensionPaths[loadIx]] :
       LET i == LastKid + 1
           taken(k) == \/ script[k].type = "tool" /\ registry[script[k].name] # NoOwner
                       \/ script[k].type = "command" /\ commands[script[k].name] # NoOwner
                       \/ script[k].type = "error"
           ran == {k \in DOMAIN script : \A j \in 1..k : ~taken(j)}
           names(type) == {script[k].name : k \in {j \in ran : script[j].type = type}}
           ok == ran = DOMAIN script IN
       /\ registry' = [n \in ToolName |-> IF n \in names("tool") THEN ByKid(i) ELSE registry[n]]
       /\ kids' = Append(kids, [path |-> ExtensionPaths[loadIx], status |-> "running",
                                lines |-> <<>>, tools |-> names("tool"), listed |-> ok,
                                killed |-> FALSE, exited |-> TRUE])
       /\ IF ok THEN loadIx' = loadIx + 1 /\ UNCHANGED hostPc
                ELSE hostPc' = LoadFails /\ UNCHANGED loadIx
  BY DEF LoadInProcess
<1> DEFINE taken(k) == \/ script[k].type = "tool" /\ registry[script[k].name] # NoOwner
                       \/ script[k].type = "command" /\ commands[script[k].name] # NoOwner
                       \/ script[k].type = "error"
           ran == {k \in DOMAIN script : \A j \in 1..k : ~taken(j)}
           tools == {script[k].name : k \in {j \in ran : script[j].type = "tool"}}
           ok == ran = DOMAIN script
           kid == [path |-> ExtensionPaths[loadIx], status |-> "running", lines |-> <<>>,
                   tools |-> tools, listed |-> ok, killed |-> FALSE, exited |-> TRUE]
<1>3. /\ registry' = [n \in ToolName |-> IF n \in tools THEN ByKid(LastKid + 1) ELSE registry[n]]
      /\ kids' = Append(kids, kid)
      /\ \/ loadIx' = loadIx + 1 /\ hostPc' = hostPc
         \/ hostPc' = LoadFails /\ loadIx' = loadIx
  BY <1>2
<1>4. /\ DOMAIN script = 1..Len(script)
      /\ \A k \in DOMAIN script : script[k] \in ChildLine
  <2>1. script \in Seq(ChildLine)
    BY <1>1
  <2> HIDE DEF ChildLine
  <2> QED
    BY <2>1
<1>5. \A n \in tools : registry[n] = NoOwner
  <2>1. ASSUME NEW k \in DOMAIN script, \A j \in 1..k : ~taken(j), script[k].type = "tool"
        PROVE  registry[script[k].name] = NoOwner
    BY <1>4, <2>1
  <2> QED
    BY <2>1
<1>6. kid \in Child
  <2>1. tools \in SUBSET STRING
    <3>1. \A k \in DOMAIN script : script[k].name \in STRING
      BY <1>4 DEF ChildLine
    <3> QED
      BY <3>1
  <2>2. <<>> \in Seq(ChildLine) /\ ok \in BOOLEAN
    OBVIOUS
  <2> HIDE DEF tools, ok
  <2> QED
    BY <1>1, <2>1, <2>2 DEF Child
<1> HIDE DEF kid, tools
<1>7. kids' \in Seq(Child)
  BY <1>0, <1>3, <1>6, AppendProperties DEF RegistryTypeOK
<1>8. hostPc' \in {"load", "idle", "failed"}
  BY <1>0, <1>3 DEF LoadFails
<1>9. RegistryTypeOK'
  BY <1>0, <1>3, <1>7, <1>8 DEF RegistryTypeOK, HostPoints
<1>10. \A n \in ToolName : registry[n] # NoOwner => registry'[n] = registry[n]
  BY <1>3, <1>5
<1> QED
  BY <1>8, <1>9, <1>10 DEF RegistryInv, LoadedOwns

\* An extension is discarded: what goes is its own.
LEMMA DiscardKeeps ==
  ASSUME RegistryInv, Discard
  PROVE  /\ RegistryInv'
         /\ \A n \in ToolName : registry'[n] # registry[n] => registry[n] = ByKid(LastKid)
<1>0. /\ RegistryTypeOK /\ hostPc = "discard" /\ LastKid \in DOMAIN kids
      /\ \A n \in ToolName : n \in kids[LastKid].tools => registry[n] = ByKid(LastKid)
  BY DEF RegistryInv, LoadedOwns, Discard
<1>1. /\ registry' = [n \in ToolName |-> IF n \in kids[LastKid].tools THEN NoOwner ELSE registry[n]]
      /\ kids' = [kids EXCEPT ![LastKid].listed = FALSE] /\ hostPc' = LoadFails /\ loadIx' = loadIx
  BY DEF Discard
<1>2. PICK i \in DOMAIN kids : i = LastKid
  BY <1>0
<1> DEFINE kid == [kids[i] EXCEPT !.listed = FALSE]
<1>3. kids[i] \in Child
  BY <1>0 DEF RegistryTypeOK
<1>4. kid \in Child /\ kids' = [kids EXCEPT ![i] = kid]
  BY <1>1, <1>2, <1>3 DEF Child
<1> HIDE DEF kid
<1>5. kids' \in Seq(Child)
  BY <1>0, <1>4, ChildMoves
<1>6. hostPc' \in {"idle", "failed"}
  BY <1>1 DEF LoadFails
<1>7. RegistryTypeOK'
  BY <1>0, <1>1, <1>5, <1>6 DEF RegistryTypeOK, HostPoints
<1> QED
  BY <1>0, <1>1, <1>6, <1>7 DEF RegistryInv, LoadedOwns

\* Each server's tool takes a name that is free, for the registry and for the tools
\* before it.
LEMMA McpKeeps ==
  ASSUME RegistryInv, RegisterMcpServers
  PROVE  RegistryInv' /\ \A n \in ToolName : registry[n] # NoOwner => registry'[n] = registry[n]
<1>0. RegistryTypeOK /\ UNCHANGED <<kids, loadIx>>
  BY DEF RegistryInv, RegisterMcpServers
<1>1. \/ hostPc' = "failed" /\ registry' = registry
      \/ /\ hostPc' = "agent"
         /\ \E names \in SUBSET (ToolName \ Registered) :
              registry' = [n \in ToolName |-> IF n \in names THEN By("mcp") ELSE registry[n]]
  <2>1. PICK up, offered : \E name \in [DOMAIN offered -> ToolName] :
          LET free(k) == (ToolName \ Registered) \ {name[j] : j \in 1..k-1} IN
            IF \A k \in DOMAIN offered : name[k] \in free(k)
              THEN /\ registry' = [n \in ToolName |-> IF n \in Range(name) THEN By("mcp") ELSE registry[n]]
                   /\ hostPc' = "agent"
              ELSE hostPc' = "failed" /\ UNCHANGED registry
    BY DEF RegisterMcpServers
  <2>2. PICK name \in [DOMAIN offered -> ToolName] :
          LET free(k) == (ToolName \ Registered) \ {name[j] : j \in 1..k-1} IN
            IF \A k \in DOMAIN offered : name[k] \in free(k)
              THEN /\ registry' = [n \in ToolName |-> IF n \in Range(name) THEN By("mcp") ELSE registry[n]]
                   /\ hostPc' = "agent"
              ELSE hostPc' = "failed" /\ UNCHANGED registry
    BY <2>1
  <2>3. \/ hostPc' = "failed" /\ registry' = registry
        \/ /\ hostPc' = "agent" /\ \A k \in DOMAIN offered : name[k] \in ToolName \ Registered
           /\ registry' = [n \in ToolName |-> IF n \in Range(name) THEN By("mcp") ELSE registry[n]]
    BY <2>2
  <2>4. (\A k \in DOMAIN offered : name[k] \in ToolName \ Registered) =>
          Range(name) \in SUBSET (ToolName \ Registered)
    BY DEF Range
  <2> QED
    BY <2>3, <2>4
<1>2. DOMAIN registry' = ToolName
  BY <1>0, <1>1 DEF RegistryTypeOK
<1>3. RegistryTypeOK'
  BY <1>0, <1>1, <1>2 DEF RegistryTypeOK, HostPoints
<1>4. \A n \in ToolName : registry[n] # NoOwner => registry'[n] = registry[n]
  BY <1>1 DEF Registered
<1> QED
  BY <1>1, <1>3, <1>4 DEF RegistryInv, LoadedOwns

\* A reload marks the children it stops.
LEMMA ReloadKeeps ==
  ASSUME RegistryInv, Reload PROVE RegistryInv' /\ registry' = registry
<1>1. /\ RegistryTypeOK /\ hostPc' = "stopping" /\ UNCHANGED <<registry, loadIx>>
      /\ kids' = [i \in DOMAIN kids |->
                    IF kids[i].listed /\ hostKind = "process"
                      THEN [kids[i] EXCEPT !.status = "dead", !.killed = TRUE] ELSE kids[i]]
  BY DEF RegistryInv, Reload
<1>2. kids \in [1..Len(kids) -> Child] /\ Len(kids) \in Nat
  <2>1. kids \in Seq(Child)
    BY <1>1 DEF RegistryTypeOK
  <2> QED
    BY <2>1
<1>3. \A k \in Child : [k EXCEPT !.status = "dead", !.killed = TRUE] \in Child
  BY DEF Child
<1>4. kids' \in [1..Len(kids) -> Child]
  BY <1>1, <1>2, <1>3
<1>5. kids' \in Seq(Child)
  BY <1>2, <1>4
<1> QED
  BY <1>1, <1>5 DEF RegistryInv, RegistryTypeOK, LoadedOwns, HostPoints

\* What a reload takes away is gone for every owner.
LEMMA StopAllKeeps == ASSUME RegistryInv, StopAll PROVE RegistryInv'
<1>1. /\ RegistryTypeOK /\ hostPc' = "load" /\ loadIx' = 1
      /\ registry' = [n \in ToolName |-> IF KeptByReload(n) THEN registry[n] ELSE NoOwner]
      /\ kids' = [i \in DOMAIN kids |-> [kids[i] EXCEPT !.listed = FALSE]]
  BY DEF RegistryInv, StopAll
<1>2. kids \in [1..Len(kids) -> Child] /\ Len(kids) \in Nat
  <2>1. kids \in Seq(Child)
    BY <1>1 DEF RegistryTypeOK
  <2> QED
    BY <2>1
<1>3. \A k \in Child : [k EXCEPT !.listed = FALSE] \in Child
  BY DEF Child
<1>4. kids' \in [1..Len(kids) -> Child]
  BY <1>1, <1>2, <1>3
<1>5. kids' \in Seq(Child)
  BY <1>2, <1>4
<1> QED
  BY <1>1, <1>5 DEF RegistryInv, RegistryTypeOK, LoadedOwns, HostPoints

\* The invariant holds when the built-in tools are there, and every step keeps it.
LEMMA RegistryStart == RegistryInit => RegistryInv
<1>1. <<>> \in Seq(Child)
  OBVIOUS
<1> QED
  BY <1>1 DEF RegistryInit, RegistryInv, RegistryTypeOK, LoadedOwns, HostPoints

LEMMA RegistryStep ==
  ASSUME RegistryInv, [RegistryNext]_registryVars
  PROVE  /\ RegistryInv'
         /\ \A n \in ToolName : registry[n] # NoOwner /\ registry'[n] # registry[n] =>
              hostPc = "stopping" \/ (hostPc = "discard" /\ registry[n] = ByKid(LastKid))
<1>1. CASE Spawn \/ LoadTimeout \/ Reload \/ \E i \in DOMAIN kids : Exit(i)
  BY <1>1, SpawnKeeps, TimeoutKeeps, ReloadKeeps, ExitKeeps
<1>2. CASE LoadInProcess \/ RegisterMcpServers \/ \E i \in DOMAIN kids : HandleLine(i)
  BY <1>2, InProcessKeeps, McpKeeps, LineKeeps
<1>3. CASE Discard
  BY <1>3, DiscardKeeps DEF Discard
<1>4. CASE StopAll
  BY <1>4, StopAllKeeps DEF StopAll
<1>5. CASE CreateAgent \/ LoadDone
  <2>1. CASE CreateAgent
    BY <2>1 DEF CreateAgent, RegistryInv, RegistryTypeOK, LoadedOwns, HostPoints
  <2>2. CASE LoadDone
    BY <2>2 DEF LoadDone, RegistryInv, RegistryTypeOK, LoadedOwns, HostPoints
  <2> QED
    BY <1>5, <2>1, <2>2
<1>6. CASE UNCHANGED registryVars
  BY <1>6 DEF registryVars, RegistryInv, RegistryTypeOK, LoadedOwns, LastKid
<1> QED
  BY <1>1, <1>2, <1>3, <1>4, <1>5, <1>6 DEF RegistryNext

\* A tool loses its owner only when that owner's extension is discarded after a
\* failed load, or by a reload (process-extension-host.ts:517-543), whatever
\* children fail, die, overlap and are reloaded, for any tools and extensions.
THEOREM ToolsAreKept == RegistrySpec => OthersToolsKept
<1>1. RegistryInv /\ [RegistryNext]_registryVars => RegistryInv'
  BY RegistryStep
<1>2. RegistryInv /\ [RegistryNext]_registryVars =>
        [\A n \in ToolName :
           registry[n] # NoOwner /\ registry'[n] # registry[n]
             => hostPc = "stopping" \/ (hostPc = "discard" /\ registry[n] = ByKid(LastKid))]_registryVars
  BY RegistryStep
<1> QED
  BY <1>1, <1>2, RegistryStart, PTL DEF RegistrySpec, OthersToolsKept

-----------------------------------------------------------------------------
(* Logins                                                                  *)

SiPoints ==
  {"start", "discover", "profile", "listen", "opening", "waiting", "exchange", "authorize",
   "authorizing", "sleep", "poll", "failed", "signedIn"}
Login ==
  [pc : SiPoints, method : {"none", "post", "basic"}, settled : SiLogin \cup {NobodysState}, left : Nat,
   wake : Nat, interval : Nat, stage : {"none", "head", "body"}]
Pace == [demand : Nat, since : Nat, gap : Nat, slowed : Nat]

SiTypeOK ==
  /\ siCase \in SiCase
  /\ siLogins \in [SiLogin -> Login]
  /\ siProvider \in [SiLogin -> Pace]

\* The answer it was given carries its state.
OwnAnswer(l, login) ==
  /\ login.settled \in {NobodysState, l}
  /\ login.pc = "exchange" => login.settled = l

\* The interval is what the provider asks for; while the login sleeps, what it has
\* slept and has still to sleep are that much.  Nobody was slowed down before.
KeepsPace(login, pace) ==
  /\ pace.demand = pace.slowed + 1 /\ pace.slowed <= MaxSlow /\ pace.since <= Longest
  /\ login.pc \notin {"sleep", "poll", "failed", "signedIn"} => pace.slowed = 0
  /\ login.pc \in {"sleep", "poll"} => login.interval = pace.demand
  /\ login.pc = "sleep" => pace.since + login.wake >= pace.demand
  /\ login.pc = "poll" => pace.gap >= pace.demand

\* From the profile on the method is one of those the document lists.
ListedMethod(l, login) ==
  /\ login.pc \notin {"start", "discover", "profile", "failed", "signedIn"}
  /\ siCase[l].discovered /\ siCase[l].methods # {}
  => login.method \in siCase[l].methods

GoodLogin(l, login, pace) == OwnAnswer(l, login) /\ KeepsPace(login, pace) /\ ListedMethod(l, login)

SignInInv == SiTypeOK /\ \A l \in SiLogin : GoodLogin(l, siLogins[l], siProvider[l])

\* A login moves, and the others do not.
LEMMA LoginMoves ==
  ASSUME SignInInv, UNCHANGED siCase, NEW l \in SiLogin, NEW login \in Login, NEW pace \in Pace,
         siLogins' = [siLogins EXCEPT ![l] = login], siProvider' = [siProvider EXCEPT ![l] = pace],
         GoodLogin(l, login, pace)
  PROVE  SignInInv'
<1>1. SiTypeOK'
  BY DEF SignInInv, SiTypeOK
<1>2. ASSUME NEW k \in SiLogin PROVE GoodLogin(k, siLogins'[k], siProvider'[k])
  BY DEF SignInInv, SiTypeOK
<1>3. \A k, x, y : GoodLogin(k, x, y)' <=> GoodLogin(k, x, y)
  BY DEF GoodLogin, OwnAnswer, KeepsPace, ListedMethod
<1> QED
  BY <1>1, <1>2 DEF SignInInv, GoodLogin, OwnAnswer, KeepsPace, ListedMethod

\* The pace of a login that is not slowed stays what it is.
LEMMA LoginGoes ==
  ASSUME SignInInv, UNCHANGED <<siCase, siProvider>>, NEW l \in SiLogin, NEW login \in Login,
         siLogins' = [siLogins EXCEPT ![l] = login], GoodLogin(l, login, siProvider[l])
  PROVE  SignInInv'
<1>1. siProvider[l] \in Pace /\ siProvider' = [siProvider EXCEPT ![l] = siProvider[l]]
  BY DEF SignInInv, SiTypeOK
<1> QED
  BY <1>1, LoginMoves

\* What every login is before it moves.
LEMMA LoginBefore ==
  ASSUME SignInInv, NEW l \in SiLogin
  PROVE  /\ siLogins[l] \in Login /\ siProvider[l] \in Pace
         /\ GoodLogin(l, siLogins[l], siProvider[l])
         /\ siLogins \in [SiLogin -> Login] /\ siProvider \in [SiLogin -> Pace]
         /\ siCase[l].methods \in SUBSET STRING /\ siCase[l].secret \in BOOLEAN
         /\ siCase[l].discovered \in BOOLEAN /\ siCase[l].kind \in {"web", "device"}
         /\ MaxSlow \in Nat
  BY SignInAssumption DEF SignInInv, SiTypeOK

\* What is left of a login that is over.
LEMMA OverIsLogin ==
  ASSUME NEW pc \in SiPoints
  PROVE  LET over == [NewLogin EXCEPT !.pc = pc] IN
         over \in Login /\ over.pc = pc /\ over.settled = NobodysState
<1> DEFINE over == [NewLogin EXCEPT !.pc = pc]
<1>1. over = [pc |-> pc, method |-> "none", settled |-> NobodysState, left |-> 0, wake |-> 0,
              interval |-> 1, stage |-> "none"]
  BY DEF NewLogin
<1> HIDE DEF over
<1>2. over \in Login
  BY <1>1 DEF Login
<1> QED
  BY <1>1, <1>2 DEF over

\* A login fails, or has its tokens.
LEMMA FailsKeeps ==
  ASSUME SignInInv, UNCHANGED <<siCase, siProvider>>, NEW l \in SiLogin, SiFails(l) \/ SignedIn(l)
  PROVE  SignInInv'
<1>1. PICK pc \in {"failed", "signedIn"} :
        siLogins' = [siLogins EXCEPT ![l] = [NewLogin EXCEPT !.pc = pc]]
  BY DEF SiFails, SignedIn
<1> DEFINE login == [NewLogin EXCEPT !.pc = pc]
<1>2. login \in Login /\ login.pc = pc /\ login.settled = NobodysState
  BY OverIsLogin DEF SiPoints
<1> HIDE DEF login
<1>3. GoodLogin(l, login, siProvider[l])
  BY <1>2, LoginBefore DEF GoodLogin, OwnAnswer, KeepsPace, ListedMethod
<1> QED
  BY <1>1, <1>2, <1>3, LoginGoes DEF login

\* The steps that only lead from one point to the next, the pace not at stake.
LEMMA StepKeeps ==
  ASSUME SignInInv, UNCHANGED <<siCase, siProvider>>, NEW l \in SiLogin, NEW login \in Login,
         siLogins' = [siLogins EXCEPT ![l] = login],
         login.settled = siLogins[l].settled, login.method = siLogins[l].method,
         siLogins[l].pc \notin {"sleep", "poll", "failed", "signedIn"},
         login.pc \notin {"sleep", "poll", "exchange", "failed", "signedIn"},
         siLogins[l].pc \in {"start", "discover", "profile"}
           => login.pc \in {"start", "discover", "profile"}
  PROVE  SignInInv'
<1>1. GoodLogin(l, login, siProvider[l])
  BY LoginBefore DEF GoodLogin, OwnAnswer, KeepsPace, ListedMethod
<1> QED
  BY <1>1, LoginGoes

\* Sleeping on: the next poll is as far away as the provider asks for.
LEMMA SleepsOnKeeps ==
  ASSUME SignInInv, UNCHANGED siCase, NEW l \in SiLogin, NEW left \in Nat, NEW pace \in Pace,
         siProvider' = [siProvider EXCEPT ![l] = pace],
         siLogins[l].pc \notin {"start", "discover", "profile", "failed", "signedIn"},
         pace.demand = pace.slowed + 1, pace.slowed <= MaxSlow, pace.since <= Longest,
         SleepsOn(l, left, pace.demand)
  PROVE  SignInInv'
<1> DEFINE login == [siLogins[l] EXCEPT !.pc = "sleep", !.stage = "none", !.left = left,
                       !.interval = pace.demand, !.wake = pace.demand]
           over == [NewLogin EXCEPT !.pc = "failed"]
<1>1. \/ siLogins' = [siLogins EXCEPT ![l] = login]
      \/ siLogins' = [siLogins EXCEPT ![l] = over]
  BY LoginBefore DEF SleepsOn, SiFails
<1>2. login \in Login /\ login.pc = "sleep" /\ login.interval = pace.demand /\ login.wake = pace.demand
      /\ login.settled = siLogins[l].settled /\ login.method = siLogins[l].method
  BY LoginBefore DEF Login, Pace, SiPoints
<1>3. over \in Login /\ over.pc = "failed" /\ over.settled = NobodysState
  BY OverIsLogin DEF SiPoints
<1> HIDE DEF login, over
<1>4. GoodLogin(l, login, pace)
  BY <1>2, LoginBefore DEF GoodLogin, OwnAnswer, KeepsPace, ListedMethod, Pace
<1>5. GoodLogin(l, over, pace)
  BY <1>3, LoginBefore DEF GoodLogin, OwnAnswer, KeepsPace, ListedMethod
<1> QED
  BY <1>1, <1>2, <1>3, <1>4, <1>5, LoginMoves

\* The profile: its method is one the document lists.
LEMMA ProfileKeeps ==
  ASSUME SignInInv, NEW l \in SiLogin, Profile(l) PROVE SignInInv'
<1>0. SiAt(l, "profile") /\ UNCHANGED <<siCase, siProvider>>
  BY DEF Profile, SiRest
<1>1. CASE SiFails(l)
  BY <1>0, <1>1, FailsKeeps
<1>2. CASE \E method \in Methods(l) :
            siLogins' = [siLogins EXCEPT ![l].method = method,
              ![l].pc = IF siCase[l].kind = "device" THEN "authorize" ELSE "listen"]
  <2>1. PICK method \in Methods(l) :
            siLogins' = [siLogins EXCEPT ![l].method = method,
              ![l].pc = IF siCase[l].kind = "device" THEN "authorize" ELSE "listen"]
    BY <1>2
  <2>2. /\ method \in {"none", "post", "basic"}
        /\ siCase[l].discovered /\ siCase[l].methods # {} => method \in siCase[l].methods
    BY <2>1 DEF Methods, Preset
  <2> DEFINE pc == IF siCase[l].kind = "device" THEN "authorize" ELSE "listen"
             login == [siLogins[l] EXCEPT !.method = method, !.pc = pc]
  <2>3. /\ siLogins' = [siLogins EXCEPT ![l] = login] /\ login \in Login
        /\ login.pc \in {"authorize", "listen"} /\ login.method = method
        /\ login.settled = siLogins[l].settled
    BY <2>1, <2>2, LoginBefore DEF Login, SiPoints
  <2> HIDE DEF login
  <2>4. GoodLogin(l, login, siProvider[l])
    BY <1>0, <2>2, <2>3, LoginBefore DEF GoodLogin, OwnAnswer, KeepsPace, ListedMethod, SiAt
  <2> QED
    BY <1>0, <2>3, <2>4, LoginGoes
<1> QED
  BY <1>1, <1>2 DEF Profile

\* A callback: only what carries the login's state settles it.
LEMMA CallbackKeeps ==
  ASSUME SignInInv, NEW r, Callback(r) PROVE SignInInv'
<1>0. UNCHANGED <<siCase, siProvider>>
  BY DEF Callback
<1>1. CASE UNCHANGED siLogins
  BY <1>0, <1>1 DEF SignInInv, SiTypeOK, GoodLogin, OwnAnswer, KeepsPace, ListedMethod
<1>2. ASSUME NEW l \in SiLogin, Listening(l), Accepts(l, r),
             siLogins' = [siLogins EXCEPT ![l].settled = r.state]
      PROVE  SignInInv'
  <2> DEFINE login == [siLogins[l] EXCEPT !.settled = l]
  <2>1. /\ siLogins' = [siLogins EXCEPT ![l] = login] /\ login \in Login
        /\ login.pc = siLogins[l].pc /\ login.method = siLogins[l].method /\ login.settled = l
        /\ login.interval = siLogins[l].interval /\ login.wake = siLogins[l].wake
    BY <1>2, LoginBefore DEF Login, Accepts
  <2> HIDE DEF login
  <2>2. GoodLogin(l, login, siProvider[l])
    BY <2>1, LoginBefore DEF GoodLogin, OwnAnswer, KeepsPace, ListedMethod
  <2> QED
    BY <1>0, <2>1, <2>2, LoginGoes
<1>3. ASSUME NEW l \in SiLogin, SiFails(l) PROVE SignInInv'
  BY <1>0, <1>3, FailsKeeps
<1> QED
  BY <1>1, <1>2, <1>3 DEF Callback

\* The browser's login from its listening to the exchange of the code.
LEMMA BrowserKeeps ==
  ASSUME SignInInv, NEW l \in SiLogin,
         Listen(l) \/ OpenBrowser(l) \/ Exchange(l) \/ CallbackTimesOut(l)
  PROVE  SignInInv'
<1>0. UNCHANGED <<siCase, siProvider>>
  BY DEF Listen, OpenBrowser, Exchange, CallbackTimesOut, SiRest
<1>1. CASE SiFails(l)
  BY <1>0, <1>1, FailsKeeps
<1>2. CASE /\ SiAt(l, "listen")
           /\ siLogins' = [siLogins EXCEPT ![l].pc = "opening", ![l].left = Patience]
  <2> DEFINE login == [siLogins[l] EXCEPT !.pc = "opening", !.left = Patience]
  <2>1. /\ siLogins' = [siLogins EXCEPT ![l] = login] /\ login \in Login /\ login.pc = "opening"
        /\ login.settled = siLogins[l].settled /\ login.method = siLogins[l].method
    BY <1>2, LoginBefore DEF Login, SiPoints, Patience
  <2> HIDE DEF login
  <2> QED
    BY <1>0, <1>2, <2>1, StepKeeps DEF SiAt
<1>3. CASE SiAt(l, "opening") /\ SiGoto(l, "waiting")
  <2> DEFINE login == [siLogins[l] EXCEPT !.pc = "waiting"]
  <2>1. /\ siLogins' = [siLogins EXCEPT ![l] = login] /\ login \in Login /\ login.pc = "waiting"
        /\ login.settled = siLogins[l].settled /\ login.method = siLogins[l].method
    BY <1>3, LoginBefore DEF Login, SiPoints, SiGoto
  <2> HIDE DEF login
  <2> QED
    BY <1>0, <1>3, <2>1, StepKeeps DEF SiAt
<1>4. CASE Exchange(l)
  <2> DEFINE login == [siLogins[l] EXCEPT !.pc = "exchange", !.stage = "head"]
  <2>1. /\ siLogins' = [siLogins EXCEPT ![l] = login] /\ login \in Login /\ login.pc = "exchange"
        /\ login.settled = siLogins[l].settled /\ login.method = siLogins[l].method
    BY <1>4, LoginBefore DEF Login, SiPoints, Exchange, Requests
  <2> HIDE DEF login
  <2>2. siLogins[l].pc = "waiting" /\ siLogins[l].settled # NobodysState
    BY <1>4 DEF Exchange, SiAt
  <2>3. GoodLogin(l, login, siProvider[l])
    BY <2>1, <2>2, LoginBefore DEF GoodLogin, OwnAnswer, KeepsPace, ListedMethod
  <2> QED
    BY <1>0, <2>1, <2>3, LoginGoes
<1> QED
  BY <1>1, <1>2, <1>3, <1>4 DEF Listen, OpenBrowser, CallbackTimesOut

\* The requests before the profile and for a device code.
LEMMA AsksKeep ==
  ASSUME SignInInv, NEW l \in SiLogin, Discover(l) \/ Authorize(l) PROVE SignInInv'
<1>0. UNCHANGED <<siCase, siProvider>>
  BY DEF Discover, Authorize, SiRest
<1>1. PICK pc \in {"discover", "profile", "authorizing"}, stage \in {"none", "head", "body"} :
        /\ siLogins' = [siLogins EXCEPT ![l].pc = pc, ![l].stage = stage]
        /\ siLogins[l].pc = (IF pc = "authorizing" THEN "authorize" ELSE "start")
  <2>1. siLogins[l].stage \in {"none", "head", "body"} /\ siLogins[l] \in Login
    BY LoginBefore DEF Login
  <2>2. SiGoto(l, "profile") =>
          siLogins' = [siLogins EXCEPT ![l].pc = "profile", ![l].stage = siLogins[l].stage]
    BY <2>1, LoginBefore DEF SiGoto, Login
  <2> QED
    BY <2>1, <2>2 DEF Discover, Authorize, Requests, SiAt
<1> DEFINE login == [siLogins[l] EXCEPT !.pc = pc, !.stage = stage]
<1>2. /\ siLogins' = [siLogins EXCEPT ![l] = login] /\ login \in Login /\ login.pc = pc
      /\ login.settled = siLogins[l].settled /\ login.method = siLogins[l].method
  BY <1>1, LoginBefore DEF Login, SiPoints
<1> HIDE DEF login
<1> QED
  BY <1>0, <1>1, <1>2, StepKeeps

\* A poll comes when the login has slept as long as it had to.
LEMMA PollKeeps == ASSUME SignInInv, NEW l \in SiLogin, Poll(l) PROVE SignInInv'
<1> DEFINE login == [siLogins[l] EXCEPT !.pc = "poll", !.stage = "head"]
           pace == [siProvider[l] EXCEPT !.gap = siProvider[l].since, !.since = 0]
<1>1. /\ siLogins' = [siLogins EXCEPT ![l] = login] /\ login \in Login /\ login.pc = "poll"
      /\ login.settled = siLogins[l].settled /\ login.method = siLogins[l].method
      /\ login.interval = siLogins[l].interval
  BY LoginBefore DEF Login, SiPoints, Poll, Requests
<1>2. /\ siProvider' = [siProvider EXCEPT ![l] = pace] /\ pace \in Pace
      /\ pace.demand = siProvider[l].demand /\ pace.slowed = siProvider[l].slowed
      /\ pace.gap = siProvider[l].since /\ pace.since = 0
  BY LoginBefore DEF Pace, Poll
<1> HIDE DEF login, pace
<1>3. siLogins[l].pc = "sleep" /\ siLogins[l].wake = 0 /\ UNCHANGED siCase
  BY DEF Poll, SiAt
<1>4. GoodLogin(l, login, pace)
  BY <1>1, <1>2, <1>3, LoginBefore DEF GoodLogin, OwnAnswer, KeepsPace, ListedMethod, Pace, Longest
<1> QED
  BY <1>1, <1>2, <1>3, <1>4, LoginMoves

\* What the provider does.
LEMMA ProviderKeeps ==
  ASSUME SignInInv, NEW l \in SiLogin,
         HeadArrives(l) \/ ProviderRefuses(l) \/ ProviderAnswers(l) \/ StillPending(l) \/ SlowDown(l)
           \/ RequestTimesOut(l)
  PROVE  SignInInv'
<1>0. UNCHANGED siCase
  BY DEF HeadArrives, ProviderRefuses, ProviderAnswers, StillPending, SlowDown, RequestTimesOut, SiRest
<1>1. CASE (SiFails(l) \/ SignedIn(l)) /\ UNCHANGED siProvider
  BY <1>0, <1>1, FailsKeeps
<1>2. CASE HeadArrives(l)
  <2> DEFINE login == [siLogins[l] EXCEPT !.stage = "body"]
  <2>1. /\ siLogins' = [siLogins EXCEPT ![l] = login] /\ login \in Login
        /\ login.pc = siLogins[l].pc /\ login.method = siLogins[l].method
        /\ login.settled = siLogins[l].settled
        /\ login.interval = siLogins[l].interval /\ login.wake = siLogins[l].wake
    BY <1>2, LoginBefore DEF Login, HeadArrives
  <2> HIDE DEF login
  <2>2. GoodLogin(l, login, siProvider[l])
    BY <2>1, LoginBefore DEF GoodLogin, OwnAnswer, KeepsPace, ListedMethod
  <2> QED
    BY <1>0, <1>2, <2>1, <2>2, LoginGoes DEF HeadArrives, SiRest
<1>3. CASE /\ SiAt(l, "discover") /\ UNCHANGED siProvider
           /\ siLogins' = [siLogins EXCEPT ![l].pc = "profile", ![l].stage = "none"]
  <2> DEFINE login == [siLogins[l] EXCEPT !.pc = "profile", !.stage = "none"]
  <2>1. /\ siLogins' = [siLogins EXCEPT ![l] = login] /\ login \in Login /\ login.pc = "profile"
        /\ login.settled = siLogins[l].settled /\ login.method = siLogins[l].method
    BY <1>3, LoginBefore DEF Login, SiPoints
  <2> HIDE DEF login
  <2> QED
    BY <1>0, <1>3, <2>1, StepKeeps DEF SiAt
<1>4. CASE SiAt(l, "authorizing") /\ SleepsOn(l, DeviceLife, 1) /\ UNCHANGED siProvider
  <2>1. siProvider[l] \in Pace /\ siProvider' = [siProvider EXCEPT ![l] = siProvider[l]]
    BY <1>4, LoginBefore
  <2>2. /\ siProvider[l].demand = siProvider[l].slowed + 1 /\ siProvider[l].slowed = 0
        /\ siProvider[l].since <= Longest /\ siLogins[l].pc = "authorizing"
    BY <1>4, LoginBefore DEF GoodLogin, KeepsPace, SiAt
  <2>3. siProvider[l].demand = 1 /\ DeviceLife \in Nat /\ siProvider[l].slowed <= MaxSlow
    BY <2>2, SignInAssumption DEF DeviceLife
  <2> QED
    BY <1>0, <1>4, <2>1, <2>2, <2>3, SleepsOnKeeps
<1>5. CASE StillPending(l)
  <2>1. siProvider[l] \in Pace /\ siProvider' = [siProvider EXCEPT ![l] = siProvider[l]]
    BY <1>5, LoginBefore DEF StillPending, SiRest
  <2>2. /\ siProvider[l].demand = siProvider[l].slowed + 1 /\ siProvider[l].slowed <= MaxSlow
        /\ siProvider[l].since <= Longest /\ siLogins[l].pc = "poll"
        /\ siLogins[l].interval = siProvider[l].demand /\ siLogins[l].left \in Nat
    BY <1>5, LoginBefore DEF GoodLogin, KeepsPace, SiAt, StillPending, Login
  <2> QED
    BY <1>0, <1>5, <2>1, <2>2, SleepsOnKeeps DEF StillPending
<1>6. CASE SlowDown(l)
  <2> DEFINE pace == [siProvider[l] EXCEPT !.demand = @ + 1, !.slowed = @ + 1]
  <2>1. /\ siProvider' = [siProvider EXCEPT ![l] = pace] /\ pace \in Pace
        /\ pace.demand = siProvider[l].demand + 1 /\ pace.slowed = siProvider[l].slowed + 1
        /\ pace.since = siProvider[l].since
    BY <1>6, LoginBefore DEF SlowDown, Pace
  <2> HIDE DEF pace
  <2>2. /\ pace.demand = pace.slowed + 1 /\ pace.slowed <= MaxSlow
        /\ pace.since <= Longest /\ siLogins[l].pc = "poll"
        /\ siLogins[l].interval + 1 = pace.demand /\ siLogins[l].left \in Nat
    BY <1>6, <2>1, LoginBefore DEF GoodLogin, KeepsPace, SiAt, SlowDown, Login, Pace
  <2>3. SleepsOn(l, siLogins[l].left, pace.demand)
    BY <1>6, <2>2 DEF SlowDown
  <2> QED
    BY <1>0, <2>1, <2>2, <2>3, SleepsOnKeeps
<1> QED
  BY <1>1, <1>2, <1>3, <1>4, <1>5, <1>6
     DEF ProviderRefuses, ProviderAnswers, RequestTimesOut, SiRest

\* Time passes: what was to be slept gets less as what has been slept gets more.
LEMMA TickKeeps == ASSUME SignInInv, SiTick PROVE SignInInv'
<1>1. \A l \in SiLogin :
        LET login == [siLogins[l] EXCEPT !.left = OneLess(@), !.wake = OneLess(@)]
            pace == [siProvider[l] EXCEPT !.since = IF @ = Longest THEN @ ELSE @ + 1]
        IN  login \in Login /\ pace \in Pace /\ GoodLogin(l, login, pace)
  <2> SUFFICES ASSUME NEW l \in SiLogin
      PROVE LET login == [siLogins[l] EXCEPT !.left = OneLess(@), !.wake = OneLess(@)]
                pace == [siProvider[l] EXCEPT !.since = IF @ = Longest THEN @ ELSE @ + 1]
            IN  login \in Login /\ pace \in Pace /\ GoodLogin(l, login, pace)
    OBVIOUS
  <2> DEFINE login == [siLogins[l] EXCEPT !.left = OneLess(@), !.wake = OneLess(@)]
             pace == [siProvider[l] EXCEPT !.since = IF @ = Longest THEN @ ELSE @ + 1]
  <2>1. /\ login \in Login /\ login.pc = siLogins[l].pc /\ login.method = siLogins[l].method
        /\ login.settled = siLogins[l].settled /\ login.interval = siLogins[l].interval
        /\ login.wake = OneLess(siLogins[l].wake)
    <3>1. siLogins[l] \in Login
      BY LoginBefore
    <3>2. OneLess(siLogins[l].left) \in Nat /\ OneLess(siLogins[l].wake) \in Nat
      BY <3>1 DEF Login, OneLess
    <3> QED
      BY <3>1, <3>2 DEF Login
  <2>2. /\ pace \in Pace /\ pace.demand = siProvider[l].demand /\ pace.slowed = siProvider[l].slowed
        /\ pace.gap = siProvider[l].gap
        /\ pace.since = IF siProvider[l].since = Longest THEN Longest ELSE siProvider[l].since + 1
    BY LoginBefore DEF Pace
  <2> HIDE DEF login, pace
  <2>3. siLogins[l].wake \in Nat /\ siProvider[l] \in Pace /\ GoodLogin(l, siLogins[l], siProvider[l])
        /\ MaxSlow \in Nat
    BY LoginBefore DEF Login
  <2>4. GoodLogin(l, login, pace)
    BY <2>1, <2>2, <2>3 DEF GoodLogin, OwnAnswer, KeepsPace, ListedMethod, Pace, OneLess, Longest
  <2> QED
    BY <2>1, <2>2, <2>4 DEF login, pace
<1>2. SiTypeOK' /\ UNCHANGED siCase
  BY <1>1 DEF SiTick, SignInInv, SiTypeOK
<1> QED
  BY <1>1, <1>2 DEF SiTick, SignInInv, GoodLogin, OwnAnswer, KeepsPace, ListedMethod

\* Every login starts with nothing.
LEMMA SignInStart == SignInInit => SignInInv
<1> SUFFICES ASSUME SignInInit PROVE SignInInv
  OBVIOUS
<1>1. NewLogin \in Login /\ NewLogin.pc = "start" /\ NewLogin.settled = NobodysState
  BY DEF NewLogin, Login, SiPoints
<1> DEFINE pace == [demand |-> 1, since |-> Longest, gap |-> Longest, slowed |-> 0]
<1>2. pace \in Pace /\ pace.demand = 1 /\ pace.since = Longest /\ pace.slowed = 0
  BY SignInAssumption DEF Pace, Longest
<1>3. /\ siLogins = [l \in SiLogin |-> NewLogin] /\ siProvider = [l \in SiLogin |-> pace]
      /\ siCase \in SiCase
  BY DEF SignInInit
<1> HIDE DEF pace
<1>4. \A l \in SiLogin : GoodLogin(l, NewLogin, pace)
  BY <1>1, <1>2, SignInAssumption DEF GoodLogin, OwnAnswer, KeepsPace, ListedMethod, Longest
<1> QED
  BY <1>1, <1>2, <1>3, <1>4 DEF SignInInv, SiTypeOK

LEMMA SignInStep == ASSUME SignInInv, [SignInNext]_siVars PROVE SignInInv'
<1>1. CASE UNCHANGED <<siCase, siLogins, siProvider>>
  BY <1>1 DEF SignInInv, SiTypeOK, GoodLogin, OwnAnswer, KeepsPace, ListedMethod
<1>2. ASSUME NEW l \in SiLogin, LoginProceeds(l) PROVE SignInInv'
  BY <1>2, ProfileKeeps, BrowserKeeps, AsksKeep, PollKeeps, ProviderKeeps DEF LoginProceeds
<1>3. ASSUME NEW r, Callback(r) PROVE SignInInv'
  BY <1>3, CallbackKeeps
<1>4. CASE SiTick
  BY <1>4, TickKeeps
<1> QED
  BY <1>1, <1>2, <1>3, <1>4, ProviderKeeps DEF SignInNext, siVars, Consents, Strays

\* A login exchanges the code that answers it, polls no sooner than it was last
\* asked to and authenticates by a listed method (oauth.ts:135 and 426), for any number
\* of logins, ports, callbacks and slow-downs.
THEOREM LoginsAreSound == SignInSpec => []SignInSound
<1>1. SignInInv => SignInSound
  BY DEF SignInInv, SignInSound, GoodLogin, OwnAnswer, KeepsPace, ListedMethod, SiAt
<1>2. SignInInv /\ [SignInNext]_siVars => SignInInv'
  BY SignInStep
<1> QED
  BY <1>1, <1>2, SignInStart, PTL DEF SignInSpec

-----------------------------------------------------------------------------
(* The screen                                                              *)

UiFields ==
  {"busy", "mood", "saved", "flash", "picker", "confirm", "history", "palette", "search", "pane",
   "prefix", "draft", "completing", "asked", "disposed", "session", "model"}
AgentFields == {"pc", "spec", "session", "turn", "made", "model", "answer"}

\* What a screen has; only what the property looks at has a type.
Screen(s) ==
  /\ DOMAIN s = UiFields /\ DOMAIN s.confirm = {"spec", "at", "selected"}
  /\ s.busy \in BOOLEAN /\ s.asked \in BOOLEAN /\ s.disposed \in BOOLEAN

\* What ScreenTellsTheAgent says, field by field.
Told(s, pc, spec, chosen) ==
  /\ s.busy <=> pc \in {"turn", "asking", "announced", "waiting", "ended"}
  /\ s.confirm.spec # 0 => /\ pc \in {"announced", "waiting"}
                           /\ s.confirm.spec = spec /\ s.confirm.at = chosen + 1
  /\ s.asked /\ ~s.disposed => pc = "asking"

UiInv ==
  Screen(ui) /\ DOMAIN uiAgent = AgentFields /\ Told(ui, uiAgent.pc, uiAgent.spec, uiChosen)

\* The screen says the same of the agent.
Alike(s, t) ==
  /\ Screen(s)
  /\ s.busy = t.busy /\ s.confirm = t.confirm /\ s.asked = t.asked /\ s.disposed = t.disposed

\* A key that the agent has nothing to do with: at most a picker or a palette asks for
\* a model or a session.
Harmless(s, does) ==
  Alike(does.screen, s) /\ does.call.name \in {"none", "abort", "model", "new"}

\* A key of the confirmation: it goes with its answer, or the cursor moves.
Confirms(s, key, does) ==
  /\ Screen(does.screen)
  /\ does.screen.busy = s.busy /\ does.screen.asked = s.asked /\ does.screen.disposed = s.disposed
  /\ \/ /\ does.call.name \in {"confirm", "decline"} /\ does.call.spec = s.confirm.spec
        /\ does.screen.confirm.spec = 0
     \/ /\ does.call.name = "none" /\ does.screen.confirm.spec = s.confirm.spec
        /\ does.screen.confirm.at = IF key = "enter" THEN s.confirm.at + 1 ELSE s.confirm.at

\* A key that answers an approval, closes the terminal or enters a line.
Answers(s, does) ==
  /\ Screen(does.screen)
  /\ does.screen.busy = s.busy /\ does.screen.confirm = s.confirm
  /\ \/ s.asked /\ ~does.screen.asked /\ does.call.name = "answer"
     \/ ~s.asked /\ ~does.screen.asked /\ does.call.name \in {"line", "none"}

LEMMA HarmlessShows ==
  ASSUME NEW s, NEW t, Alike(t, s) PROVE Harmless(s, Shows(t))
  BY DEF Harmless, Shows, Does, NoCall

LEMMA HarmlessCalls ==
  ASSUME NEW s, NEW t, NEW name \in {"model", "new"}, NEW what, Alike(t, s)
  PROVE  Harmless(s, Does(t, Call(name, what)))
  BY DEF Harmless, Does, Call, NoCall

\* The picker.
LEMMA OpenPickerAlike == ASSUME NEW s, NEW t, Alike(t, s) PROVE Alike(OpenPicker(t), s)
  BY DEF Alike, Screen, OpenPicker, UiFields
LEMMA PickerHarmless ==
  ASSUME NEW s, Screen(s), NEW key \in Keys PROVE Harmless(s, PickerKey(s, key))
<1>1. Alike(s, s)
  BY DEF Alike
<1>2. Alike(ClosePicker(s), s)
  BY DEF Alike, Screen, ClosePicker, UiFields
<1>3. \A p : Alike([s EXCEPT !.picker = p], s)
  BY DEF Alike, Screen, UiFields
<1>4. Harmless(s, ConfirmPicker(s))
  <2>1. CASE Visible(s.picker) = <<>>
    BY <1>1, <2>1, HarmlessShows DEF ConfirmPicker
  <2>2. CASE Visible(s.picker) # <<>>
    <3> DEFINE model == Visible(s.picker)[s.picker.at].name
               t == [s EXCEPT !.model = model, !.picker = NoPicker, !.saved = "none",
                          !.mood = IF s.saved # "none" THEN s.saved ELSE s.mood]
    <3>1. Alike(t, s)
      BY DEF Alike, Screen, UiFields
    <3>2. ConfirmPicker(s) = Does(t, Call("model", model))
      BY <2>2 DEF ConfirmPicker
    <3> HIDE DEF t, model
    <3> QED
      BY <3>1, <3>2, HarmlessCalls
  <2> QED
    BY <2>1, <2>2
<1>5. \/ PickerKey(s, key) \in {Shows(s), Shows(ClosePicker(s)), ConfirmPicker(s)}
      \/ \E p : PickerKey(s, key) = Shows([s EXCEPT !.picker = p])
  BY DEF PickerKey
<1> QED
  BY <1>1, <1>2, <1>3, <1>4, <1>5, HarmlessShows

\* The confirmation.
LEMMA DeclineConfirms ==
  ASSUME NEW s, Screen(s), NEW key PROVE Confirms(s, key, Decline(s))
  BY DEF Confirms, Decline, Does, SpecCall, NoCall, NoConfirmation, Screen, UiFields
LEMMA ConfirmKeyConfirms ==
  ASSUME NEW s, Screen(s), NEW key \in Keys PROVE Confirms(s, key, ConfirmKey(s, key))
<1>1. CASE key = "esc"
  BY <1>1, DeclineConfirms DEF ConfirmKey
<1>2. CASE key \in {"up", "down"}
  BY <1>2 DEF ConfirmKey, Confirms, Shows, Does, NoCall, Screen, UiFields
<1>3. CASE key = "enter"
  BY <1>3 DEF ConfirmKey, Confirms, Shows, Does, NoCall, SpecCall, NoConfirmation, Screen, UiFields
<1>4. CASE key \notin {"esc", "up", "down", "enter"}
  BY <1>4 DEF ConfirmKey, Confirms, Shows, Does, NoCall, Screen
<1> QED
  BY <1>1, <1>2, <1>3, <1>4

\* The palette, which no confirmation is under.
LEMMA PaletteHarmless ==
  ASSUME NEW s, Screen(s), s.confirm.spec = 0, NEW key \in Keys
  PROVE  Harmless(s, PaletteKey(s, key))
<1>1. \A p : Alike([s EXCEPT !.palette = p], s)
  BY DEF Alike, Screen, UiFields
<1>2. ASSUME NEW name PROVE Harmless(s, PaletteCommand(s, name))
  <2> DEFINE closed == [s EXCEPT !.palette = Closed]
  <2>1. Alike(closed, s) /\ Alike(OpenPicker(closed), s) /\ Alike([closed EXCEPT !.search = TRUE], s)
    <3>1. Alike(closed, s) /\ Alike([closed EXCEPT !.search = TRUE], s)
      BY DEF Alike, Screen, UiFields
    <3> QED
      BY <3>1, OpenPickerAlike
  <2> HIDE DEF closed
  <2>2. PaletteCommand(s, name) \in {Shows(closed), Shows(OpenPicker(closed)), Does(closed, Call("new", "")),
                                     Shows([closed EXCEPT !.search = TRUE])}
    BY DEF PaletteCommand, closed
  <2>3. /\ Harmless(s, Shows(closed)) /\ Harmless(s, Shows(OpenPicker(closed)))
        /\ Harmless(s, Shows([closed EXCEPT !.search = TRUE]))
    BY <2>1, HarmlessShows
  <2>4. Harmless(s, Does(closed, Call("new", "")))
    BY <2>1, HarmlessCalls
  <2> QED
    BY <2>2, <2>3, <2>4
<1>3. \/ PaletteKey(s, key) = Shows(s)
      \/ \E name : PaletteKey(s, key) = PaletteCommand(s, name)
      \/ \E p : PaletteKey(s, key) = Shows([s EXCEPT !.palette = p])
      \/ \E q : PaletteKey(s, key) = Shows([s EXCEPT !.palette.query = q, !.palette.at = 1])
  BY DEF PaletteKey
<1>4. \A q : Alike([s EXCEPT !.palette.query = q, !.palette.at = 1], s)
  BY DEF Alike, Screen, UiFields
<1>5. Alike(s, s)
  BY DEF Alike
<1> QED
  BY <1>1, <1>2, <1>3, <1>4, <1>5, HarmlessShows

\* A line is entered, or an approval answered.
LEMMA EnterAnswers ==
  ASSUME NEW s, Screen(s), NEW does \in Enter(s)
  PROVE  Harmless(s, does) \/ Answers(s, does)
<1> DEFINE cleared == [s EXCEPT !.draft = ""]
<1>1. Alike(s, s) /\ Alike(cleared, s) /\ \A line : Alike([s EXCEPT !.completing = FALSE, !.draft = line], s)
  BY DEF Alike, Screen, UiFields
<1>2. ASSUME s.completing \/ s.draft = "" PROVE Harmless(s, does)
  BY <1>1, <1>2, HarmlessShows DEF Enter
<1>3. ASSUME ~s.completing, s.draft # "", s.asked PROVE Answers(s, does)
  <2> DEFINE what == IF s.draft = "yes" THEN "granted" ELSE "denied"
             answered == [cleared EXCEPT !.asked = FALSE]
  <2>1. does = Does(answered, Call("answer", what))
    BY <1>3 DEF Enter
  <2> HIDE DEF what
  <2>2. /\ Screen(answered) /\ answered.busy = s.busy /\ answered.confirm = s.confirm
        /\ ~answered.asked
    BY DEF Screen, UiFields
  <2> HIDE DEF answered
  <2>3. does.screen = answered /\ does.call.name = "answer"
    BY <2>1 DEF Does, Call, NoCall
  <2> QED
    BY <1>3, <2>2, <2>3 DEF Answers
<1>4. ASSUME ~s.completing, s.draft # "", ~s.asked PROVE Answers(s, does)
  <2>1. does = Does(cleared, Call("line", s.draft))
    BY <1>4 DEF Enter
  <2> HIDE DEF cleared
  <2>2. does.screen = cleared /\ does.call.name = "line"
    BY <2>1 DEF Does, Call, NoCall
  <2> QED
    BY <1>1, <1>4, <2>2 DEF Answers, Alike
<1> QED
  BY <1>2, <1>3, <1>4 DEF Screen

LEMMA DisposeAnswers == ASSUME NEW s, Screen(s) PROVE Answers(s, Dispose(s))
<1>1. CASE s.asked
  BY <1>1 DEF Dispose, Answers, Does, Call, NoCall, Screen, UiFields
<1>2. CASE ~s.asked
  BY <1>2 DEF Dispose, Answers, Does, Call, NoCall, Screen, UiFields
<1> QED
  BY <1>1, <1>2 DEF Screen

\* What is typed.
LEMMA InputAnswers ==
  ASSUME NEW s, Screen(s), NEW key \in Keys, NEW does \in InputKey(s, key)
  PROVE  Harmless(s, does) \/ Answers(s, does)
<1> DEFINE plain == [s EXCEPT !.completing = FALSE]
<1>1. /\ Alike(s, s) /\ \A line, c : Alike([plain EXCEPT !.draft = line, !.completing = c], s)
      /\ Alike([plain EXCEPT !.draft = ""], s) /\ Alike([s EXCEPT !.palette = Opened], s)
      /\ Alike([s EXCEPT !.prefix = TRUE], s) /\ Alike([s EXCEPT !.history = TRUE], s)
  BY DEF Alike, Screen, UiFields
<1>2. Harmless(s, Does(s, Call("abort", "")))
  BY <1>1 DEF Harmless, Does, Call, NoCall
<1>3. \/ does \in Enter(s)
      \/ \E line, c : does = Shows([plain EXCEPT !.draft = line, !.completing = c])
      \/ does \in {Shows(s), Shows([plain EXCEPT !.draft = ""]), Shows([s EXCEPT !.palette = Opened]),
                   Shows([s EXCEPT !.prefix = TRUE]), Shows([s EXCEPT !.history = TRUE]),
                   Does(s, Call("abort", "")), Dispose(s)}
  <2>1. CASE key = "char"
    BY <2>1 DEF InputKey
  <2>2. CASE key # "char"
    BY <2>2 DEF InputKey
  <2> QED
    BY <2>1, <2>2
<1> HIDE DEF plain
<1> QED
  BY <1>1, <1>2, <1>3, HarmlessShows, EnterAnswers, DisposeAnswers

\* The outermost overlay takes the key.
LEMMA KeyDoes ==
  ASSUME NEW s, Screen(s), NEW key \in Keys, NEW does \in OnData(s, key)
  PROVE  \/ Harmless(s, does) /\ (s.picker.open \/ s.confirm.spec = 0)
         \/ Confirms(s, key, does) /\ ~(s.picker.open \/ s.confirm.spec = 0)
         \/ Answers(s, does) /\ s.confirm.spec = 0
<1>1. CASE s.picker.open
  BY <1>1, PickerHarmless DEF OnData
<1>2. CASE ~s.picker.open /\ s.confirm.spec # 0
  BY <1>2, ConfirmKeyConfirms DEF OnData
<1>3. CASE ~s.picker.open /\ s.confirm.spec = 0
  <2>1. Alike(s, s) /\ \A pane : Alike([s EXCEPT !.prefix = FALSE, !.pane = pane], s)
    BY DEF Alike, Screen, UiFields
  <2>2. /\ Alike([s EXCEPT !.history = FALSE], s) /\ Alike([s EXCEPT !.search = FALSE], s)
        /\ Alike([s EXCEPT !.pane = "input"], s)
    BY DEF Alike, Screen, UiFields
  <2>3. CASE does \in FeedInput(s, key)
    <3>1. CASE does = PaletteKey(s, key)
      BY <1>3, <3>1, PaletteHarmless
    <3>2. CASE does = SearchKey(s, key) \/ does = PaneKey(s, key)
      BY <2>1, <2>2, <1>3, <3>2, HarmlessShows DEF SearchKey, PaneKey
    <3>3. CASE \E pane : does = Shows([s EXCEPT !.prefix = FALSE, !.pane = pane])
      BY <2>1, <1>3, <3>3, HarmlessShows
    <3>4. CASE does \in InputKey(s, key)
      BY <1>3, <3>4, InputAnswers
    <3> QED
      BY <2>3, <3>1, <3>2, <3>3, <3>4 DEF FeedInput
  <2>4. CASE does \in {HistoryKey(s, key), Shows(OpenPicker(s))}
    BY <2>1, <2>2, <2>4, <1>3, OpenPickerAlike, HarmlessShows DEF HistoryKey
  <2> QED
    BY <1>3, <2>3, <2>4 DEF OnData
<1> QED
  BY <1>1, <1>2, <1>3

-----------------------------------------------------------------------------
\* A harmless key is made, and the agent goes on with what it does.
LEMMA HarmlessKeeps ==
  ASSUME UiInv, NEW does, Harmless(ui, does), Make(does.screen, does.call), UNCHANGED uiChosen
  PROVE  UiInv'
<1> DEFINE s == does.screen
<1>1. Alike(s, ui)
  BY DEF Harmless
<1>2. /\ ui' \in {s, Oops(s)} /\ DOMAIN uiAgent' = AgentFields
      /\ uiAgent'.pc = uiAgent.pc /\ uiAgent'.spec = uiAgent.spec
  BY DEF UiInv, Harmless, Make, NewSession, AgentFields
<1> HIDE DEF s
<1>3. Alike(Oops(s), ui)
  BY <1>1 DEF Oops, Alike, Screen, UiFields
<1>4. PICK t : ui' = t /\ Alike(t, ui)
  BY <1>1, <1>2, <1>3
<1> QED
  BY <1>2, <1>4 DEF UiInv, Told, Alike

LEMMA ConfirmKeeps ==
  ASSUME UiInv, NEW key \in Keys, NEW does, Confirms(ui, key, does), ui.confirm.spec # 0,
         Make(does.screen, does.call),
         uiChosen' = IF key = "enter" THEN uiChosen + 1 ELSE uiChosen
  PROVE  UiInv'
<1>1. ui' = does.screen /\ Screen(ui')
  BY DEF Confirms, Make
<1>2. /\ uiAgent.pc \in {"announced", "waiting"} /\ uiAgent.spec = ui.confirm.spec
      /\ ui.confirm.at = uiChosen + 1 /\ ui.busy
  BY DEF UiInv, Told
<1>3. ~(ui.asked /\ ~ui.disposed)
  BY <1>2 DEF UiInv, Told
<1>4. /\ DOMAIN uiAgent' = AgentFields /\ uiAgent'.spec = uiAgent.spec
      /\ uiAgent'.pc \in {uiAgent.pc, "turn"}
      /\ does.call.name = "none" => uiAgent' = uiAgent
  BY DEF UiInv, Confirms, Make, AgentFields
<1> QED
  BY <1>1, <1>2, <1>3, <1>4 DEF UiInv, Told, Confirms

\* An answer, when the agent asks; a line, which starts a turn only from rest.
LEMMA AnswersKeep ==
  ASSUME UiInv, NEW does, Answers(ui, does), ~ui.disposed, does.call.name = "line" => ui.confirm.spec = 0,
         Make(does.screen, does.call), UNCHANGED uiChosen
  PROVE  UiInv'
<1> DEFINE s == does.screen
<1>1. Screen(s) /\ s.busy = ui.busy /\ s.confirm = ui.confirm /\ ~s.asked
  BY DEF Answers
<1>2. CASE does.call.name = "none"
  <2>1. ui' = s /\ uiAgent' = uiAgent
    BY <1>2 DEF Make
  <2> HIDE DEF s
  <2> QED
    BY <1>1, <2>1 DEF UiInv, Told
<1>3. CASE does.call.name = "answer"
  <2>1. /\ ui' = s /\ uiAgent' = [uiAgent EXCEPT !.pc = "turn", !.answer = does.call.what]
        /\ ui.asked
    BY <1>3 DEF Make, Answers
  <2> HIDE DEF s
  <2>2. uiAgent.pc = "asking" /\ DOMAIN uiAgent' = AgentFields /\ uiAgent'.pc = "turn"
    BY <2>1 DEF UiInv, Told, AgentFields
  <2>3. ui.busy /\ ui.confirm.spec = 0
    BY <2>2 DEF UiInv, Told
  <2> QED
    BY <1>1, <2>1, <2>2, <2>3 DEF UiInv, Told
<1>4. CASE does.call.name = "line"
  <2>1. \/ ui' \in {s, Oops(s)} /\ DOMAIN uiAgent' = AgentFields
           /\ uiAgent'.pc = uiAgent.pc /\ uiAgent'.spec = uiAgent.spec
        \/ ui' = s /\ ~Running /\ uiAgent' = [uiAgent EXCEPT !.pc = "tool"]
        \/ SubmitText(s)
    BY <1>4 DEF Make, NewSession, UiInv, AgentFields
  <2> HIDE DEF s
  <2>2. CASE ui' \in {s, Oops(s)} /\ DOMAIN uiAgent' = AgentFields
             /\ uiAgent'.pc = uiAgent.pc /\ uiAgent'.spec = uiAgent.spec
    <3>1. /\ Screen(ui') /\ ui'.busy = ui.busy /\ ui'.confirm = ui.confirm /\ ~ui'.asked
      BY <1>1, <2>2 DEF Oops, Screen, UiFields
    <3> QED
      BY <2>2, <3>1 DEF UiInv, Told
  <2>3. CASE ui' = s /\ ~Running /\ uiAgent' = [uiAgent EXCEPT !.pc = "tool"]
    <3>1. uiAgent.pc = "idle" /\ DOMAIN uiAgent' = AgentFields /\ uiAgent'.pc = "tool"
      BY <2>3 DEF Running, UiInv, AgentFields
    <3> QED
      BY <1>1, <1>4, <2>3, <3>1 DEF UiInv, Told
  <2>4. CASE SubmitText(s)
    <3>1. CASE s.busy
      BY <1>1, <1>4, <2>4, <3>1 DEF SubmitText, UiInv, Told
    <3>2. CASE ~s.busy /\ Running
      <4>1. /\ ui' = Oops(SetBusy(s, FALSE)) /\ uiAgent' = uiAgent
        BY <2>4, <3>2 DEF SubmitText
      <4>2. Screen(ui') /\ ~ui'.busy /\ ui'.confirm = ui.confirm /\ ~ui'.asked
        BY <1>1, <4>1 DEF Oops, SetBusy, Screen, UiFields
      <4> QED
        BY <1>1, <3>2, <4>1, <4>2 DEF UiInv, Told
    <3>3. CASE ~s.busy /\ ~Running
      <4>1. /\ ui' = SetBusy(s, TRUE)
            /\ uiAgent' = [uiAgent EXCEPT !.pc = "turn", !.turn = uiAgent.session]
        BY <2>4, <3>3 DEF SubmitText
      <4>2. Screen(ui') /\ ui'.busy /\ ui'.confirm = ui.confirm /\ ~ui'.asked
        BY <1>1, <4>1 DEF SetBusy, Screen, UiFields
      <4>3. DOMAIN uiAgent' = AgentFields /\ uiAgent'.pc = "turn"
        BY <4>1 DEF UiInv, AgentFields
      <4> QED
        BY <1>4, <4>2, <4>3 DEF UiInv, Told
    <3> QED
      BY <1>1, <3>1, <3>2, <3>3 DEF Screen
  <2> QED
    BY <2>1, <2>2, <2>3, <2>4
<1> QED
  BY <1>2, <1>3, <1>4 DEF Answers

LEMMA KeyKeeps == ASSUME UiInv, NEW key \in Keys, Key(key) PROVE UiInv'
<1>1. Screen(ui) /\ ~ui.disposed
  BY DEF UiInv, Key
<1>2. PICK does \in OnData(ui, key) : Make(does.screen, does.call)
  BY DEF Key
<1>3. uiChosen' = IF ui.picker.open \/ ui.confirm.spec = 0 THEN uiChosen
                  ELSE IF key = "enter" THEN uiChosen + 1 ELSE uiChosen
  BY DEF Key
<1> QED
  BY <1>1, <1>2, <1>3, KeyDoes, HarmlessKeeps, ConfirmKeeps, AnswersKeep

LEMMA SignalKeeps == ASSUME UiInv, Signal PROVE UiInv'
<1>1. Screen(ui) /\ ~ui.disposed /\ UNCHANGED uiChosen /\ Make(Dispose(ui).screen, Dispose(ui).call)
  BY DEF UiInv, Signal
<1>2. Answers(ui, Dispose(ui)) /\ Dispose(ui).call.name # "line"
  BY <1>1, DisposeAnswers DEF Dispose, Does, Call, NoCall
<1> QED
  BY <1>1, <1>2, AnswersKeep

\* What the agent does meanwhile.
LEMMA AgentKeeps ==
  ASSUME UiInv, \/ Progress \/ AskApproval \/ AnnounceSpec \/ WaitForAnswer
                \/ EndTurn \/ Settle \/ FlashEnds \/ ToolEnds
  PROVE  UiInv'
<1>1. Screen(ui) /\ DOMAIN uiAgent = AgentFields /\ Told(ui, uiAgent.pc, uiAgent.spec, uiChosen)
  BY DEF UiInv
<1>2. CASE Progress \/ FlashEnds
  <2>1. Alike(ui', ui) /\ UNCHANGED <<uiAgent, uiChosen>>
    BY <1>1, <1>2 DEF Progress, FlashEnds, Alike, Screen, UiFields
  <2> QED
    BY <1>1, <2>1 DEF UiInv, Told, Alike
<1>3. CASE AskApproval
  <2>1. DOMAIN uiAgent' = AgentFields /\ uiAgent.pc = "turn" /\ uiAgent'.pc = "asking"
    BY <1>1, <1>3 DEF AskApproval, AgentFields
  <2>2. Screen(ui') /\ ui'.busy = ui.busy /\ ui'.confirm = ui.confirm
    BY <1>1, <1>3 DEF AskApproval, Screen, UiFields
  <2> QED
    BY <1>1, <2>1, <2>2 DEF UiInv, Told
<1>4. CASE AnnounceSpec
  <2>1. /\ DOMAIN uiAgent' = AgentFields /\ uiAgent.pc = "turn" /\ uiAgent'.pc = "announced"
        /\ uiAgent'.spec = uiAgent.spec + 1
    BY <1>1, <1>4 DEF AnnounceSpec, AgentFields
  <2>2. /\ Screen(ui') /\ ui'.busy = ui.busy /\ ui'.asked = ui.asked /\ ~ui.disposed
        /\ ui'.disposed = ui.disposed /\ ui'.confirm.spec = uiAgent.spec + 1 /\ ui'.confirm.at = 1
    <3>1. PICK picked :
            ui' = [ui EXCEPT !.mood = "thinking",
                     !.confirm = [spec |-> uiAgent.spec + 1, at |-> 1, selected |-> picked]]
      BY <1>4 DEF AnnounceSpec
    <3>2. ~ui.disposed
      BY <1>4 DEF AnnounceSpec
    <3> QED
      BY <1>1, <3>1, <3>2 DEF Screen, UiFields
  <2>3. uiChosen' = 0
    BY <1>4 DEF AnnounceSpec
  <2> QED
    BY <1>1, <2>1, <2>2, <2>3 DEF UiInv, Told
<1>5. CASE WaitForAnswer \/ ToolEnds
  <2>1. /\ DOMAIN uiAgent' = AgentFields /\ uiAgent'.spec = uiAgent.spec /\ UNCHANGED <<ui, uiChosen>>
        /\ \/ uiAgent.pc = "announced" /\ uiAgent'.pc = "waiting"
           \/ uiAgent.pc = "tool" /\ uiAgent'.pc = "idle"
    BY <1>1, <1>5 DEF WaitForAnswer, ToolEnds, AgentFields
  <2> QED
    BY <1>1, <2>1 DEF UiInv, Told
<1>6. CASE EndTurn
  <2>1. DOMAIN uiAgent' = AgentFields /\ uiAgent.pc = "turn" /\ uiAgent'.pc = "ended"
    BY <1>1, <1>6 DEF EndTurn, AgentFields
  <2>2. Alike(ui', ui)
    BY <1>1, <1>6 DEF EndTurn, LevelUp, Alike, Screen, UiFields
  <2> QED
    BY <1>1, <2>1, <2>2 DEF UiInv, Told, Alike
<1>7. CASE Settle
  <2>1. DOMAIN uiAgent' = AgentFields /\ uiAgent.pc = "ended" /\ uiAgent'.pc = "idle"
    BY <1>1, <1>7 DEF Settle, AgentFields
  <2>2. /\ Screen(ui') /\ ~ui'.busy /\ ui'.confirm = ui.confirm
        /\ ui'.asked = ui.asked /\ ui'.disposed = ui.disposed
    BY <1>1, <1>7 DEF Settle, SetBusy, Screen, UiFields
  <2> QED
    BY <1>1, <2>1, <2>2 DEF UiInv, Told
<1> QED
  BY <1>2, <1>3, <1>4, <1>5, <1>6, <1>7

LEMMA CallKeeps ==
  ASSUME UiInv, NEW c \in uiCalls, SessionMade(c) \/ ModelResolved(c) \/ ModelSaved(c)
  PROVE  UiInv'
<1>1. Screen(ui) /\ DOMAIN uiAgent = AgentFields /\ Told(ui, uiAgent.pc, uiAgent.spec, uiChosen)
  BY DEF UiInv
<1>2. Alike(ui', ui) /\ uiChosen' = uiChosen
  BY <1>1 DEF SessionMade, ModelResolved, ModelSaved, Alike, Screen, UiFields
<1>3. DOMAIN uiAgent' = AgentFields /\ uiAgent'.pc = uiAgent.pc /\ uiAgent'.spec = uiAgent.spec
  BY <1>1 DEF SessionMade, ModelResolved, ModelSaved, AgentFields
<1> QED
  BY <1>1, <1>2, <1>3 DEF UiInv, Told, Alike

LEMMA UiStart == ASSUME UiInit PROVE UiInv
<1>1. DOMAIN ui = UiFields /\ ui.confirm = NoConfirmation
  BY DEF UiInit, UiFields
<1>2. ui.busy = FALSE /\ ui.asked = FALSE /\ ui.disposed = FALSE
  BY DEF UiInit
<1>3. DOMAIN uiAgent = AgentFields /\ uiAgent.pc = "idle"
  BY DEF UiInit, AgentFields
<1>4. DOMAIN NoConfirmation = {"spec", "at", "selected"} /\ NoConfirmation.spec = 0
  BY DEF NoConfirmation
<1> QED
  BY <1>1, <1>2, <1>3, <1>4 DEF UiInv, Screen, Told

LEMMA UiStep == ASSUME UiInv, [UiNext]_uiVars PROVE UiInv'
<1>1. CASE UNCHANGED uiVars
  BY <1>1 DEF uiVars, UiInv
<1> QED
  BY <1>1, KeyKeeps, SignalKeeps, AgentKeeps, CallKeeps DEF UiNext

\* The screen says that the agent is busy when it is, shows the specification that the
\* agent waits to be confirmed, with the decision the user is at, and asks only what
\* the agent asks (FullScreenTui keeps all of this in fields of its own, app.ts), for
\* any models, commands, decisions, sessions and numbers of keys and events.
THEOREM ScreenIsTrue == UiSpec => []ScreenTellsTheAgent
<1>1. UiInv /\ [UiNext]_uiVars => UiInv'
  BY UiStep
<1>2. UiInv => ScreenTellsTheAgent
  BY DEF UiInv, Told, Screen, ScreenTellsTheAgent
<1> QED
  BY <1>1, <1>2, UiStart, PTL DEF UiSpec

-----------------------------------------------------------------------------
(* Launches *)

LnChild == {"none", "up", "stopping", "gone"}
LnLoaded == [ext : LaunchExt, child : LnChild]

LaunchTypes ==
  /\ lnCase \in LaunchCase /\ lnAt \in Nat
  /\ lnServers \in [ServerIds -> [child : LnChild, seen : {"nothing", "pinned", "changed"}]]
  /\ lnTools \subseteq ServerIds
  /\ lnExts \in Seq(LnLoaded)
  /\ lnPc # "threw" => lnFailed = "none"

\* An extension an agent of the enterprise may have.
Allowed(ext) ==
  \/ ext.signed /\ ext.listed /\ ~ext.privileged
  \/ lnCase.projectAllowed /\ ext \in ToSet(lnCase.project)

\* The enterprise's checks come before what they are about.
ChecksFirst ==
  /\ lnPc = "load" => ~Forbidden
  /\ lnCase.enterprise =>
       /\ lnSandbox # "host"
       /\ \A k \in DOMAIN lnExts : Allowed(lnExts[k].ext)
       /\ lnAgent # "none" => lnAgent = "audited"

\* An agent is made behind the configuration, where nobody may be asked.
AgentLast ==
  /\ lnAgent # "none" => lnPc \in {"prompt", "made", "run", "closing", "closed", "over", "threw"}
  /\ lnPc \notin {"config", "threw"} \/ lnAgent # "none" =>
       (Root = "cli" /\ ~lnCase.tty => lnApproval # "ask")

\* Tools are registered when the pins hold, after which no server is asked again.
PinnedFirst ==
  /\ lnTools # {} => lnPc \in {"session", "agent", "prompt", "made", "run", "closing", "closed",
                               "over", "threw"}
  /\ \A i \in lnTools \cap lnCase.pinned : lnServers[i].seen = "pinned"
  /\ lnPc = "unpinned" \/ lnFailed = "unpinned" =>
       lnTools = {} /\ \A i \in ServerIds : lnServers[i].child # "up"
  /\ lnFailed = "unpinned" => \A i \in ServerIds : lnServers[i].child # "stopping"

\* The end of a run goes from the prompter to the extensions and the servers.
PutAway ==
  /\ lnPc \in {"closing", "closed", "over"} =>
       ~lnPrompter /\ \A k \in DOMAIN lnExts : lnExts[k].child # "up"
  /\ lnPc \in {"closed", "over"} =>
       /\ \A k \in DOMAIN lnExts : lnExts[k].child # "stopping"
       /\ \A i \in ServerIds : lnServers[i].child # "up"
  /\ lnPc = "over" => \A i \in ServerIds : lnServers[i].child # "stopping"

LaunchInv == LaunchTypes /\ ChecksFirst /\ AgentLast /\ PinnedFirst /\ PutAway

\* A set of natural numbers has a least one.
LEMMA MinOfNats ==
  ASSUME NEW T, T \subseteq Nat, T # {}
  PROVE  Min(T) \in T
<1> DEFINE R == OpToRel(<, Nat)
<1>1. IsWellFoundedOn(R, Nat)
  BY NatLessThanWellFounded
<1>2. \A x, y \in Nat : y < x => <<y, x>> \in R
  BY DEF OpToRel
<1> HIDE DEF R
<1>3. PICK x \in T : \A y \in T : ~(<<y, x>> \in R)
  BY <1>1, WFMin
<1>4. \A y \in T : ~(y < x) /\ y \in Nat /\ x \in Nat
  BY <1>2, <1>3
<1>5. \A y \in T : x <= y
  BY <1>4
<1> QED
  BY <1>5 DEF Min

\* What the configuration of a launch is.
LEMMA CaseTypes ==
  ASSUME lnCase \in LaunchCase
  PROVE  /\ {lnCase.tty, lnCase.enterprise, lnCase.projectAllowed} \subseteq BOOLEAN
         /\ {lnCase.installed, lnCase.project, lnCase.adhoc} \subseteq Seq(LaunchExt)
         /\ Len(lnCase.servers) \in Nat /\ ServerIds = 1..Len(lnCase.servers)
         /\ lnCase.enterprise => lnCase.kind # "host" /\ ~lnCase.hostFallback /\ lnCase.signatures
BY LaunchAssumption DEF ServerIds

\* The host is what the enterprise does not get.
LEMMA NeverTheHost ==
  ASSUME lnCase \in LaunchCase, lnCase.enterprise, NEW healthy \in SUBSET {"gvisor", "docker", "seatbelt", "vm"}
  PROVE  Chosen(healthy) # "host"
<1>1. lnCase.kind # "host" /\ ~lnCase.hostFallback
  BY CaseTypes
<1>2. PICK found : found = {i \in DOMAIN Backends : Backends[i] \in healthy}
  OBVIOUS
<1>3. ASSUME found # {} PROVE Backends[Min(found)] \in healthy
  <2>1. found \subseteq Nat
    BY <1>2 DEF Backends
  <2>2. Min(found) \in found
    BY <1>3, <2>1, MinOfNats
  <2> QED
    BY <1>2, <2>2
<1>4. \A b \in healthy : b # "host"
  OBVIOUS
<1> QED
  BY <1>1, <1>2, <1>3, <1>4 DEF Chosen

\* What is loaded of the candidates is allowed.
LEMMA CandidateAllowed ==
  ASSUME lnCase \in LaunchCase, ~Forbidden, NEW k \in ToLoad
  PROVE  Candidates[k] \in LaunchExt /\ (lnCase.enterprise => Allowed(Candidates[k]))
<1>1. lnCase.installed \in Seq(LaunchExt) /\ lnCase.project \in Seq(LaunchExt)
      /\ lnCase.adhoc \in Seq(LaunchExt)
  BY CaseTypes
<1> DEFINE project == IF lnCase.enterprise /\ ~lnCase.projectAllowed THEN <<>> ELSE lnCase.project
<1>2. PICK p \in Seq(LaunchExt) : p = project
  <2>1. <<>> \in Seq(LaunchExt)
    OBVIOUS
  <2>2. project \in Seq(LaunchExt)
    BY <1>1, <2>1
  <2> QED
    BY <2>2
<1>3. Candidates = lnCase.installed \o p \o lnCase.adhoc /\ Candidates \in Seq(LaunchExt)
  BY <1>1, <1>2 DEF Candidates
<1>4. k \in DOMAIN Candidates /\ Candidates[k] \in LaunchExt
  <2>1. k \in DOMAIN Candidates
    BY DEF ToLoad
  <2>2. \A c \in Seq(LaunchExt) : \A i \in DOMAIN c : c[i] \in LaunchExt
    OBVIOUS
  <2> QED
    BY <1>3, <2>1, <2>2
<1>5. ASSUME lnCase.enterprise PROVE Allowed(Candidates[k])
  <2>1. lnCase.adhoc = <<>> /\ lnCase.signatures
    BY <1>5, CaseTypes DEF Forbidden
  <2>2. CASE k <= Len(lnCase.installed)
    <3>1. k \in DOMAIN lnCase.installed /\ Candidates[k] = lnCase.installed[k]
      BY <1>1, <1>3, <1>4, <2>2
    <3>2. Admitted(lnCase.installed[k])
      BY <2>2, <3>1 DEF ToLoad
    <3>3. lnCase.installed[k].listed
      BY <1>5, <3>2 DEF Admitted
    <3>4. lnCase.installed[k].signed /\ ~lnCase.installed[k].privileged
      BY <1>5, <2>1, <3>1, <3>2 DEF Forbidden
    <3> QED
      BY <3>1, <3>3, <3>4 DEF Allowed
  <2>3. CASE ~(k <= Len(lnCase.installed))
    <3>1. k - Len(lnCase.installed) \in DOMAIN p
          /\ Candidates[k] = p[k - Len(lnCase.installed)]
      BY <1>1, <1>3, <1>4, <2>1, <2>3
    <3>2. lnCase.projectAllowed /\ p = lnCase.project
      BY <1>2, <1>5, <3>1
    <3> QED
      BY <3>1, <3>2 DEF Allowed, ToSet
  <2> QED
    BY <2>2, <2>3
<1> QED
  BY <1>4, <1>5

LEMMA LaunchStart == ASSUME LaunchInit PROVE LaunchInv
<1>1. lnServers = [i \in ServerIds |-> [child |-> "none", seen |-> "nothing"]]
  BY DEF LaunchInit, ServerIds
<1>2. /\ lnCase \in LaunchCase /\ lnPc = "config" /\ lnAt = 0 /\ lnSandbox = "none" /\ lnExts = <<>>
      /\ lnTools = {} /\ lnAgent = "none" /\ lnFailed = "none"
  BY DEF LaunchInit
<1>3. LaunchTypes
  BY <1>1, <1>2 DEF LaunchTypes, LnChild
<1> QED
  BY <1>2, <1>3 DEF LaunchInv, ChecksFirst, AgentLast, PinnedFirst, PutAway

\* What is read of the case stays with it.
LEMMA CaseStays ==
  ASSUME UNCHANGED lnCase
  PROVE  /\ Root' = Root /\ ServerIds' = ServerIds /\ Forbidden' = Forbidden
         /\ \A ext : Allowed(ext)' = Allowed(ext)
BY DEF Root, ServerIds, Forbidden, Allowed, Admitted

\* A step that is not about the servers, the tools, or the end of a run.
LEMMA EarlyStep ==
  ASSUME LaunchInv, UNCHANGED <<lnServers, lnTools>>,
         lnPc \notin {"unpinned", "closing", "closed", "over", "threw"},
         lnPc' \notin {"unpinned", "closing", "closed", "over"},
         lnTools # {} => lnPc' \in {"session", "agent", "prompt", "made", "run", "threw"},
         lnFailed' # "unpinned", UNCHANGED lnCase
  PROVE  PinnedFirst' /\ PutAway'
<1>1. ServerIds' = ServerIds
  BY CaseStays
<1> QED
  BY <1>1 DEF LaunchInv, PinnedFirst, PutAway

\* A step that makes no agent, and loads nothing.
LEMMA NothingMade ==
  ASSUME LaunchInv, UNCHANGED <<lnCase, lnSandbox, lnApproval, lnAgent>>,
         \A k \in DOMAIN lnExts' : k \in DOMAIN lnExts /\ lnExts'[k].ext = lnExts[k].ext,
         lnPc' = "load" => ~Forbidden,
         lnPc' \in {"config", "threw"} \/ lnPc \notin {"config", "threw"},
         lnAgent # "none" => lnPc' \in {"prompt", "made", "run", "closing", "closed", "over", "threw"}
  PROVE  ChecksFirst' /\ AgentLast'
<1>1. Root' = Root /\ Forbidden' = Forbidden /\ \A ext : Allowed(ext)' = Allowed(ext)
  BY CaseStays
<1>2. ChecksFirst'
  BY <1>1 DEF LaunchInv, ChecksFirst
<1>3. AgentLast'
  BY <1>1 DEF LaunchInv, AgentLast
<1> QED
  BY <1>2, <1>3

\* A step of the root that changes nothing but where it is.
LEMMA OnlyMoves ==
  ASSUME LaunchInv, UNCHANGED <<lnCase, lnSandbox, lnApproval, lnExts, lnServers, lnTools, lnAgent>>,
         lnAt' \in Nat, lnPc' # "threw" => lnFailed' = "none",
         lnPc' = "load" => ~Forbidden,
         lnPc' = "threw" \/ lnPc \notin {"config", "threw"},
         lnAgent # "none" => lnPc' \in {"prompt", "made", "run", "threw"},
         lnPc \notin {"unpinned", "closing", "closed", "over", "threw"},
         lnPc' \notin {"unpinned", "closing", "closed", "over"}, lnFailed' # "unpinned",
         lnTools # {} => lnPc' \in {"session", "agent", "prompt", "made", "run", "threw"}
  PROVE  LaunchInv'
<1>1. LaunchTypes'
  BY CaseStays DEF LaunchInv, LaunchTypes
<1>2. PinnedFirst' /\ PutAway'
  BY EarlyStep
<1>3. ChecksFirst' /\ AgentLast'
  BY NothingMade
<1> QED
  BY <1>1, <1>2, <1>3 DEF LaunchInv

LEMMA ConfigKeeps ==
  ASSUME LaunchInv, Configured \/ Misconfigured \/ ChooseSandbox
  PROVE  LaunchInv'
<1>1. lnPc \in {"config", "sandbox"} /\ lnAgent = "none" /\ lnTools = {}
  BY DEF Configured, Misconfigured, ChooseSandbox, LaunchInv, AgentLast, PinnedFirst
<1>2. /\ UNCHANGED <<lnCase, lnExts, lnServers, lnTools, lnAgent>> /\ lnAt' = 0
      /\ lnPc' \in {"sandbox", "permit", "threw"} /\ lnFailed' \in {lnFailed, "config", "sandbox"}
      /\ (lnPc' # "threw" => lnFailed' = lnFailed)
  BY DEF Configured, Misconfigured, ChooseSandbox, lnFound, lnMade, Passes, Throws, LnGoto
<1>3. lnFailed = "none"
  BY <1>1 DEF LaunchInv, LaunchTypes
<1>4. LaunchTypes'
  BY <1>2, <1>3, CaseStays DEF LaunchInv, LaunchTypes
<1>5. PinnedFirst' /\ PutAway'
  BY <1>1, <1>2, <1>3, EarlyStep
<1>6. ChecksFirst' /\ AgentLast'
  <2>1. Root' = Root /\ Forbidden' = Forbidden /\ \A ext : Allowed(ext)' = Allowed(ext)
    BY <1>2, CaseStays
  <2>2. lnCase.enterprise => lnSandbox' # "host"
    <3>1. CASE ChooseSandbox
      <4>1. PICK healthy \in SUBSET {"gvisor", "docker", "seatbelt", "vm"} :
              lnSandbox' \in {lnSandbox, Chosen(healthy)}
        BY <3>1 DEF ChooseSandbox
      <4>2. lnCase.enterprise => Chosen(healthy) # "host"
        BY NeverTheHost DEF LaunchInv, LaunchTypes
      <4> QED
        BY <4>1, <4>2 DEF LaunchInv, ChecksFirst
    <3>2. CASE Configured \/ Misconfigured
      BY <3>2 DEF Configured, Misconfigured, lnFound, LaunchInv, ChecksFirst
    <3> QED
      BY <3>1, <3>2
  <2>3. ChecksFirst'
    BY <1>2, <2>1, <2>2 DEF LaunchInv, ChecksFirst
  <2>4. lnPc' # "threw" => (Root = "cli" /\ ~lnCase.tty => lnApproval' # "ask")
    <3>1. CASE Configured
      BY <3>1 DEF Configured
    <3>2. CASE Misconfigured
      BY <3>2 DEF Misconfigured, Throws, LnGoto
    <3>3. CASE ChooseSandbox
      BY <3>3 DEF ChooseSandbox, LaunchInv, AgentLast
    <3> QED
      BY <3>1, <3>2, <3>3
  <2>5. AgentLast'
    BY <1>1, <1>2, <2>1, <2>4 DEF AgentLast
  <2> QED
    BY <2>3, <2>5
<1> QED
  BY <1>4, <1>5, <1>6 DEF LaunchInv

LEMMA LoadKeeps ==
  ASSUME LaunchInv, PermitExtensions \/ LoadExtension \/ ExtensionsLoaded
  PROVE  LaunchInv'
<1>1. lnPc \in {"permit", "load"} /\ lnAgent = "none" /\ lnTools = {} /\ lnFailed = "none"
  BY DEF PermitExtensions, LoadExtension, ExtensionsLoaded, LaunchInv, AgentLast, PinnedFirst, LaunchTypes
<1>2. CASE PermitExtensions \/ ExtensionsLoaded
  <2>1. /\ UNCHANGED <<lnCase, lnSandbox, lnApproval, lnExts, lnServers, lnTools, lnAgent>> /\ lnAt' = 0
        /\ lnPc' \in {"load", "session", "connect", "threw"} /\ lnFailed' \in {lnFailed, "permit"}
        /\ (lnPc' # "threw" => lnFailed' = lnFailed)
        /\ (lnPc' = "load" => ~Forbidden)
    BY <1>2 DEF PermitExtensions, ExtensionsLoaded, lnFound, lnMade, Passes, Throws, LnGoto
  <2> QED
    BY <1>1, <2>1, OnlyMoves
<1>3. CASE LoadExtension /\ Throws /\ UNCHANGED lnExts
  <2>1. /\ UNCHANGED <<lnCase, lnSandbox, lnApproval, lnExts, lnServers, lnTools, lnAgent>> /\ lnAt' = 0
        /\ lnPc' = "threw" /\ lnFailed' = lnPc
    BY <1>3 DEF LoadExtension, lnFound, Throws, LnGoto
  <2> QED
    BY <1>1, <2>1, OnlyMoves
<1>4. CASE /\ LoadExtension /\ lnAt' = Min(ToLoad) /\ UNCHANGED <<lnPc, lnFailed>>
           /\ lnExts' = Append(lnExts,
                [ext |-> Candidates[lnAt'], child |-> IF lnCase.processes THEN "up" ELSE "none"])
  <2>1. /\ UNCHANGED <<lnCase, lnSandbox, lnApproval, lnServers, lnTools, lnAgent>>
        /\ lnPc = "load" /\ lnPc' = "load" /\ lnFailed' = "none" /\ ToLoad # {}
    BY <1>1, <1>4 DEF LoadExtension, lnFound
  <2>2. ~Forbidden /\ lnCase \in LaunchCase /\ lnExts \in Seq(LnLoaded)
    BY <2>1 DEF LaunchInv, ChecksFirst, LaunchTypes
  <2>3. ToLoad \subseteq Nat
    <3>1. {lnCase.installed, lnCase.project, lnCase.adhoc} \subseteq Seq(LaunchExt)
      BY <2>2, CaseTypes
    <3>2. Candidates \in Seq(LaunchExt)
      <4>1. <<>> \in Seq(LaunchExt)
        OBVIOUS
      <4>2. (IF lnCase.enterprise /\ ~lnCase.projectAllowed THEN <<>> ELSE lnCase.project)
              \in Seq(LaunchExt)
        BY <3>1, <4>1
      <4> QED
        BY <3>1, <4>2 DEF Candidates
    <3>3. DOMAIN Candidates \subseteq Nat
      BY <3>2
    <3> QED
      BY <3>3 DEF ToLoad
  <2>4. lnAt' \in ToLoad /\ lnAt' \in Nat
    BY <1>4, <2>1, <2>3, MinOfNats
  <2>5. PICK e \in LaunchExt : e = Candidates[lnAt'] /\ (lnCase.enterprise => Allowed(e))
    BY <2>2, <2>4, CandidateAllowed
  <2>6. PICK loaded \in LnLoaded : loaded.ext = e /\ lnExts' = Append(lnExts, loaded)
    <3>1. [ext |-> e, child |-> IF lnCase.processes THEN "up" ELSE "none"] \in LnLoaded
      BY DEF LnLoaded, LnChild
    <3> QED
      BY <1>4, <2>5, <3>1
  <2>7. /\ lnExts' \in Seq(LnLoaded)
        /\ \A k \in DOMAIN lnExts' : lnExts'[k].ext = e \/ (k \in DOMAIN lnExts /\ lnExts'[k] = lnExts[k])
    BY <2>2, <2>6
  <2>8. LaunchTypes'
    BY <2>1, <2>4, <2>7, CaseStays DEF LaunchInv, LaunchTypes
  <2>9. ChecksFirst'
    <3>1. Forbidden' = Forbidden /\ \A ext : Allowed(ext)' = Allowed(ext)
      BY <2>1, CaseStays
    <3> QED
      BY <1>1, <2>1, <2>2, <2>5, <2>7, <3>1 DEF LaunchInv, ChecksFirst
  <2>10. AgentLast'
    BY <2>1, CaseStays DEF LaunchInv, AgentLast
  <2>11. PinnedFirst' /\ PutAway'
    BY <1>1, <2>1, EarlyStep
  <2> QED
    BY <2>8, <2>9, <2>10, <2>11 DEF LaunchInv
<1> QED
  BY <1>2, <1>3, <1>4 DEF LoadExtension

\* A step of the servers while they are being connected, or one that ends.
LEMMA ServersKeep ==
  ASSUME LaunchInv, UNCHANGED <<lnCase, lnSandbox, lnApproval, lnExts, lnAgent>>, lnAt' \in Nat,
         lnPc' # "threw" => lnFailed' = "none", lnPc \notin {"config", "threw"},
         lnPc' # "load", lnAgent # "none" => lnPc' \in {"prompt", "made", "run", "closing", "closed", "over", "threw"},
         lnServers' \in [ServerIds -> [child : LnChild, seen : {"nothing", "pinned", "changed"}]],
         lnTools' \subseteq ServerIds, PinnedFirst', PutAway'
  PROVE  LaunchInv'
<1>1. ServerIds' = ServerIds
  BY CaseStays
<1>2. LaunchTypes'
  BY <1>1 DEF LaunchInv, LaunchTypes
<1>3. ChecksFirst' /\ AgentLast'
  BY NothingMade
<1> QED
  BY <1>2, <1>3 DEF LaunchInv

LEMMA ConnectKeeps ==
  ASSUME LaunchInv, SkipServer \/ NoCommand \/ ConnectServer \/ ConnectFails \/ ConnectGivenUp
  PROVE  LaunchInv'
<1>1. /\ lnPc = "connect" /\ lnAgent = "none" /\ lnTools = {} /\ lnFailed = "none" /\ lnAt \in Nat
      /\ lnServers \in [ServerIds -> [child : LnChild, seen : {"nothing", "pinned", "changed"}]]
  BY DEF SkipServer, NoCommand, ConnectServer, ConnectFails, ConnectGivenUp, Connecting,
         LaunchInv, AgentLast, PinnedFirst, LaunchTypes
<1>2. CASE SkipServer \/ NoCommand \/ ConnectGivenUp
  <2>1. /\ UNCHANGED <<lnCase, lnSandbox, lnApproval, lnExts, lnServers, lnTools, lnAgent>>
        /\ lnAt' \in {0, lnAt + 1} /\ lnPc' \in {"connect", "threw"} /\ lnFailed' \in {"none", "connect"}
        /\ (lnPc' # "threw" => lnFailed' = "none")
    BY <1>1, <1>2 DEF SkipServer, NoCommand, ConnectGivenUp, PassServer, lnFound, lnMade, Throws, LnGoto
  <2> QED
    BY <1>1, <2>1, OnlyMoves
<1>3. CASE ConnectServer \/ ConnectFails
  <2>1. /\ UNCHANGED <<lnCase, lnSandbox, lnApproval, lnExts, lnTools, lnAgent>>
        /\ lnAt' \in {lnAt, lnAt + 1} /\ lnPc' = "connect" /\ lnFailed' = "none"
    BY <1>1, <1>3 DEF ConnectServer, ConnectFails, PassServer, lnFound
  <2>2. ServerIds' = ServerIds /\ (lnAt + 1 \in ServerIds)
    <3>1. lnAt < Len(lnCase.servers)
      BY <1>3 DEF ConnectServer, ConnectFails, Connecting
    <3>2. Len(lnCase.servers) \in Nat /\ ServerIds = 1..Len(lnCase.servers)
      BY CaseTypes DEF LaunchInv, LaunchTypes
    <3> QED
      BY <1>1, <2>1, <3>1, <3>2, CaseStays
  <2>3. lnServers' \in [ServerIds -> [child : LnChild, seen : {"nothing", "pinned", "changed"}]]
    <3>1. CASE ConnectServer
      <4>1. PICK seen \in {"pinned", "changed"} :
              lnServers' = [lnServers EXCEPT ![lnAt + 1] =
                [child |-> IF NextServer.kind = "http" THEN "none" ELSE "up", seen |-> seen]]
        BY <3>1 DEF ConnectServer
      <4>2. [child |-> IF NextServer.kind = "http" THEN "none" ELSE "up", seen |-> seen]
              \in [child : LnChild, seen : {"nothing", "pinned", "changed"}]
        BY DEF LnChild
      <4> QED
        BY <1>1, <4>1, <4>2
    <3>2. CASE ConnectFails
      <4>1. lnServers' = [lnServers EXCEPT ![lnAt + 1] = [lnServers[lnAt + 1] EXCEPT !.child = "stopping"]]
        BY <3>2 DEF ConnectFails
      <4>2. [lnServers[lnAt + 1] EXCEPT !.child = "stopping"]
              \in [child : LnChild, seen : {"nothing", "pinned", "changed"}]
        BY <1>1, <2>2 DEF LnChild
      <4> QED
        BY <1>1, <4>1, <4>2
    <3> QED
      BY <1>3, <3>1, <3>2
  <2>4. PinnedFirst' /\ PutAway'
    BY <1>1, <2>1 DEF PinnedFirst, PutAway
  <2> QED
    BY <1>1, <2>1, <2>3, <2>4, ServersKeep
<1> QED
  BY <1>2, <1>3

\* Of the servers that are stopped none is up any more.
LEMMA StoppingStops ==
  ASSUME LaunchTypes, lnServers' = Stopping(LnUp), UNCHANGED lnCase
  PROVE  /\ lnServers' \in [ServerIds -> [child : LnChild, seen : {"nothing", "pinned", "changed"}]]
         /\ \A i \in ServerIds : lnServers'[i].child # "up" /\ lnServers'[i].seen = lnServers[i].seen
<1>1. lnServers \in [ServerIds -> [child : LnChild, seen : {"nothing", "pinned", "changed"}]]
  BY DEF LaunchTypes
<1>2. lnServers' = [i \in ServerIds |-> IF lnServers[i].child = "up"
                                        THEN [lnServers[i] EXCEPT !.child = "stopping"] ELSE lnServers[i]]
  BY DEF Stopping, LnUp
<1>3. \A i \in ServerIds :
        /\ lnServers'[i] \in [child : LnChild, seen : {"nothing", "pinned", "changed"}]
        /\ lnServers'[i].child # "up" /\ lnServers'[i].seen = lnServers[i].seen
  BY <1>1, <1>2 DEF LnChild
<1> QED
  BY <1>2, <1>3

LEMMA PinsKeep == ASSUME LaunchInv, CheckPins \/ Unpinned PROVE LaunchInv'
<1>1. /\ lnPc \in {"connect", "unpinned"} /\ lnAgent = "none" /\ lnTools = {} /\ lnFailed = "none"
      /\ lnServers \in [ServerIds -> [child : LnChild, seen : {"nothing", "pinned", "changed"}]]
      /\ LaunchTypes
  BY DEF CheckPins, Unpinned, LaunchInv, AgentLast, PinnedFirst, LaunchTypes
<1>2. /\ UNCHANGED <<lnCase, lnSandbox, lnApproval, lnExts, lnAgent>> /\ lnAt' = 0
      /\ ServerIds' = ServerIds
  <2>1. UNCHANGED <<lnCase, lnSandbox, lnApproval, lnExts, lnAgent>> /\ lnAt' = 0
    BY DEF CheckPins, Unpinned, Register, Passes, Throws, LnGoto, lnFound, lnMade
  <2> QED
    BY <2>1, CaseStays
<1>3. CASE CheckPins /\ PinsHold /\ Register
  <2>1. /\ lnPc' = "session" /\ lnFailed' = "none" /\ lnServers' = lnServers
        /\ lnTools' = {i \in ServerIds : lnServers[i].seen # "nothing"}
    BY <1>1, <1>3 DEF Register, Passes, LnGoto
  <2>2. \A i \in lnTools' \cap lnCase.pinned : lnServers[i].seen = "pinned"
    <3>1. CASE lnCase.servers = <<>>
      BY <2>1, <3>1 DEF ServerIds
    <3>2. CASE \A i \in lnCase.pinned : i \in ServerIds /\ lnServers[i].seen = "pinned"
      BY <3>2
    <3> QED
      BY <1>3, <3>1, <3>2 DEF PinsHold
  <2>3. PinnedFirst' /\ PutAway'
    BY <1>2, <2>1, <2>2 DEF PinnedFirst, PutAway
  <2> QED
    BY <1>1, <1>2, <2>1, <2>3, ServersKeep
<1>4. CASE CheckPins /\ Passes("unpinned") /\ lnServers' = Stopping(LnUp) /\ UNCHANGED lnTools
  <2>1. lnPc = "connect" /\ lnPc' = "unpinned" /\ lnFailed' = "none" /\ lnTools' = {}
    BY <1>1, <1>4 DEF CheckPins, Passes, LnGoto
  <2>2. /\ lnServers' \in [ServerIds -> [child : LnChild, seen : {"nothing", "pinned", "changed"}]]
        /\ \A i \in ServerIds : lnServers'[i].child # "up"
    BY <1>1, <1>2, <1>4, StoppingStops
  <2>3. PinnedFirst' /\ PutAway'
    BY <1>2, <2>1, <2>2 DEF PinnedFirst, PutAway
  <2> QED
    BY <1>1, <1>2, <2>1, <2>2, <2>3, ServersKeep
<1>5. CASE Unpinned
  <2>1. /\ lnPc = "unpinned" /\ lnPc' = "threw" /\ lnFailed' = "unpinned"
        /\ UNCHANGED <<lnServers, lnTools>> /\ NoneStopping
    BY <1>5 DEF Unpinned, Throws, LnGoto, lnMade
  <2>2. PinnedFirst' /\ PutAway'
    BY <1>1, <1>2, <2>1 DEF LaunchInv, PinnedFirst, PutAway, NoneStopping
  <2> QED
    BY <1>1, <1>2, <2>1, <2>2, ServersKeep
<1> QED
  BY <1>3, <1>4, <1>5 DEF CheckPins

LEMMA MadeKeeps ==
  ASSUME LaunchInv, SelectSession \/ MakeAgent \/ ReadPrompt
  PROVE  LaunchInv'
<1>1. lnPc \in {"session", "agent", "prompt"} /\ lnFailed = "none"
  BY DEF SelectSession, MakeAgent, ReadPrompt, LaunchInv, LaunchTypes
<1>2. CASE SelectSession \/ ReadPrompt \/ (MakeAgent /\ UNCHANGED lnAgent)
  <2>1. /\ UNCHANGED <<lnCase, lnSandbox, lnApproval, lnExts, lnServers, lnTools, lnAgent>> /\ lnAt' = 0
        /\ lnPc' \in {"agent", "prompt", "made", "run", "threw"} /\ lnFailed' \in {"none", lnPc}
        /\ (lnPc' # "threw" => lnFailed' = "none")
    BY <1>1, <1>2 DEF SelectSession, MakeAgent, ReadPrompt, lnFound, lnMade, Passes, Throws, LnGoto
  <2>2. lnAgent # "none" => lnPc = "prompt"
    BY <1>1 DEF LaunchInv, AgentLast
  <2>3. lnPc = "prompt" => lnPc' \in {"run", "made", "prompt", "threw"}
    BY <1>2 DEF SelectSession, MakeAgent, ReadPrompt, Passes, Throws, LnGoto
  <2> QED
    BY <1>1, <2>1, <2>2, <2>3, OnlyMoves
<1>3. CASE /\ MakeAgent /\ Passes(IF Root = "cli" THEN "prompt" ELSE "made")
           /\ lnAgent' = (IF lnCase.enterprise THEN "audited" ELSE "unaudited")
  <2>1. /\ UNCHANGED <<lnCase, lnSandbox, lnApproval, lnExts, lnServers, lnTools>> /\ lnAt' = 0
        /\ lnPc = "agent" /\ lnPc' \in {"prompt", "made"} /\ lnFailed' = "none"
    BY <1>1, <1>3 DEF MakeAgent, lnFound, Passes, LnGoto
  <2>2. /\ Root' = Root /\ ServerIds' = ServerIds /\ Forbidden' = Forbidden
        /\ \A ext : Allowed(ext)' = Allowed(ext)
    BY <2>1, CaseStays
  <2>3. LaunchTypes'
    BY <2>1, <2>2 DEF LaunchInv, LaunchTypes
  <2>4. ChecksFirst'
    BY <1>3, <2>1, <2>2 DEF LaunchInv, ChecksFirst
  <2>5. AgentLast'
    BY <2>1, <2>2 DEF LaunchInv, AgentLast
  <2>6. PinnedFirst' /\ PutAway'
    BY <2>1, EarlyStep
  <2> QED
    BY <2>3, <2>4, <2>5, <2>6 DEF LaunchInv
<1> QED
  BY <1>2, <1>3 DEF MakeAgent

\* The children of extensions, some of which end.
LEMMA ExtsEnd ==
  ASSUME LaunchTypes, NEW k \in SUBSET DOMAIN lnExts, NEW child \in LnChild,
         lnExts' = [j \in DOMAIN lnExts |->
                      IF j \in k THEN [lnExts[j] EXCEPT !.child = child] ELSE lnExts[j]]
  PROVE  /\ lnExts' \in Seq(LnLoaded) /\ DOMAIN lnExts' = DOMAIN lnExts
         /\ \A j \in DOMAIN lnExts :
              /\ lnExts'[j].ext = lnExts[j].ext
              /\ lnExts'[j].child = (IF j \in k THEN child ELSE lnExts[j].child)
<1>1. PICK n \in Nat : n = Len(lnExts) /\ DOMAIN lnExts = 1..n /\ \A j \in 1..n : lnExts[j] \in LnLoaded
  BY DEF LaunchTypes
<1>2. \A j \in 1..n : /\ lnExts'[j] \in LnLoaded /\ lnExts'[j].ext = lnExts[j].ext
                      /\ lnExts'[j].child = (IF j \in k THEN child ELSE lnExts[j].child)
  BY <1>1 DEF LnLoaded
<1>3. lnExts' \in [1..n -> LnLoaded]
  BY <1>1, <1>2
<1> QED
  BY <1>1, <1>2, <1>3

\* Behind the agent nothing of it changes.
LEMMA LateStep ==
  ASSUME LaunchInv, UNCHANGED <<lnCase, lnSandbox, lnApproval, lnAgent>>, lnAt' \in Nat,
         lnPc' = "threw" \/ lnFailed' = "none",
         lnPc' = "load" => lnPc = "load",
         lnPc' = lnPc \/ (lnPc \notin {"config", "threw"} /\ lnPc' \in {"closing", "closed", "over"}),
         lnServers' \in [ServerIds -> [child : LnChild, seen : {"nothing", "pinned", "changed"}]],
         lnTools' \subseteq ServerIds, lnExts' \in Seq(LnLoaded), DOMAIN lnExts' = DOMAIN lnExts,
         \A k \in DOMAIN lnExts : lnExts'[k].ext = lnExts[k].ext,
         PinnedFirst', PutAway'
  PROVE  LaunchInv'
<1>1. ServerIds' = ServerIds
  BY CaseStays
<1>2. LaunchTypes'
  BY <1>1 DEF LaunchInv, LaunchTypes
<1>3. ChecksFirst' /\ AgentLast'
  <2>1. lnPc' = "load" => ~Forbidden
    BY DEF LaunchInv, ChecksFirst
  <2>2. lnPc' \in {"config", "threw"} \/ lnPc \notin {"config", "threw"}
    OBVIOUS
  <2>3. lnAgent # "none" => lnPc' \in {"prompt", "made", "run", "closing", "closed", "over", "threw"}
    BY DEF LaunchInv, AgentLast
  <2>4. \A k \in DOMAIN lnExts' : k \in DOMAIN lnExts /\ lnExts'[k].ext = lnExts[k].ext
    OBVIOUS
  <2> QED
    BY <2>1, <2>2, <2>3, <2>4, NothingMade
<1> QED
  BY <1>2, <1>3 DEF LaunchInv

LEMMA LeaveKeeps ==
  ASSUME LaunchInv, LeaveRun \/ CloseServers \/ RunOver
  PROVE  LaunchInv'
<1>1. /\ LaunchTypes /\ lnPc \in {"run", "closing", "closed"} /\ lnFailed = "none" /\ lnTools \subseteq ServerIds
      /\ lnServers \in [ServerIds -> [child : LnChild, seen : {"nothing", "pinned", "changed"}]]
      /\ lnExts \in Seq(LnLoaded)
  BY DEF LeaveRun, CloseServers, RunOver, LaunchInv, LaunchTypes
<1>2. /\ UNCHANGED <<lnCase, lnSandbox, lnApproval, lnAgent, lnTools>> /\ lnAt' = 0 /\ lnFailed' = "none"
      /\ ServerIds' = ServerIds /\ lnPc' \in {"closing", "closed", "over"}
  <2>1. /\ UNCHANGED <<lnCase, lnSandbox, lnApproval, lnAgent, lnTools>> /\ lnAt' = 0 /\ lnFailed' = "none"
        /\ lnPc' \in {"closing", "closed", "over"}
    BY <1>1 DEF LeaveRun, CloseServers, RunOver, Passes, LnGoto, lnFound, lnMade
  <2> QED
    BY <2>1, CaseStays
<1>3. CASE LeaveRun
  <2>1. /\ lnPc' = "closing" /\ lnPrompter' = FALSE /\ UNCHANGED lnServers
        /\ lnExts' = [k \in DOMAIN lnExts |->
             IF lnExts[k].child = "up" THEN [lnExts[k] EXCEPT !.child = "stopping"] ELSE lnExts[k]]
    BY <1>3 DEF LeaveRun, Passes, LnGoto
  <2>2. PICK up \in SUBSET DOMAIN lnExts : up = {k \in DOMAIN lnExts : lnExts[k].child = "up"}
    OBVIOUS
  <2>3. lnExts' = [k \in DOMAIN lnExts |->
          IF k \in up THEN [lnExts[k] EXCEPT !.child = "stopping"] ELSE lnExts[k]]
    BY <2>1, <2>2
  <2>4. /\ lnExts' \in Seq(LnLoaded) /\ DOMAIN lnExts' = DOMAIN lnExts
        /\ \A k \in DOMAIN lnExts :
             /\ lnExts'[k].ext = lnExts[k].ext
             /\ lnExts'[k].child = (IF k \in up THEN "stopping" ELSE lnExts[k].child)
    <3>1. "stopping" \in LnChild
      BY DEF LnChild
    <3> QED
      BY <1>1, <2>3, <3>1, ExtsEnd
  <2>5. \A k \in DOMAIN lnExts' : lnExts'[k].child # "up"
    BY <2>2, <2>4
  <2>6. PinnedFirst' /\ PutAway'
    BY <1>2, <2>1, <2>5 DEF LaunchInv, PinnedFirst, PutAway
  <2> QED
    BY <1>1, <1>2, <2>1, <2>4, <2>6, LateStep
<1>4. CASE CloseServers
  <2>1. /\ lnPc = "closing" /\ lnPc' = "closed" /\ UNCHANGED <<lnExts, lnPrompter>>
        /\ lnServers' = Stopping(LnUp) /\ \A k \in DOMAIN lnExts : lnExts[k].child # "stopping"
    BY <1>4 DEF CloseServers, Passes, LnGoto
  <2>2. /\ lnServers' \in [ServerIds -> [child : LnChild, seen : {"nothing", "pinned", "changed"}]]
        /\ \A i \in ServerIds : lnServers'[i].child # "up" /\ lnServers'[i].seen = lnServers[i].seen
    BY <1>1, <1>2, <2>1, StoppingStops
  <2>3. PutAway'
    BY <1>2, <2>1, <2>2 DEF LaunchInv, PutAway
  <2>4. PinnedFirst'
    BY <1>1, <1>2, <2>1, <2>2 DEF LaunchInv, PinnedFirst
  <2> QED
    BY <1>1, <1>2, <2>1, <2>2, <2>3, <2>4, LateStep
<1>5. CASE RunOver
  <2>1. /\ lnPc = "closed" /\ lnPc' = "over" /\ UNCHANGED <<lnExts, lnPrompter, lnServers>> /\ NoneStopping
    BY <1>5 DEF RunOver, Passes, LnGoto, lnMade
  <2>2. PinnedFirst' /\ PutAway'
    BY <1>2, <2>1 DEF LaunchInv, PinnedFirst, PutAway, NoneStopping
  <2> QED
    BY <1>1, <1>2, <2>1, <2>2, LateStep
<1> QED
  BY <1>3, <1>4, <1>5

LEMMA EndKeeps ==
  ASSUME LaunchInv, (\E k \in DOMAIN lnExts : ExtensionEnds(k)) \/ \E i \in ServerIds : ServerEnds(i)
  PROVE  LaunchInv'
<1>1. /\ LaunchTypes /\ lnTools \subseteq ServerIds /\ (lnPc # "threw" => lnFailed = "none") /\ lnAt \in Nat
      /\ lnServers \in [ServerIds -> [child : LnChild, seen : {"nothing", "pinned", "changed"}]]
      /\ lnExts \in Seq(LnLoaded)
  BY DEF LaunchInv, LaunchTypes
<1>2. /\ UNCHANGED <<lnCase, lnSandbox, lnApproval, lnAgent, lnTools, lnPc, lnAt, lnFailed, lnPrompter>>
      /\ ServerIds' = ServerIds
  <2>1. UNCHANGED <<lnCase, lnSandbox, lnApproval, lnAgent, lnTools, lnPc, lnAt, lnFailed, lnPrompter>>
    BY DEF ExtensionEnds, ServerEnds, lnFound
  <2> QED
    BY <2>1, CaseStays
<1>3. ASSUME NEW k \in DOMAIN lnExts, ExtensionEnds(k) PROVE LaunchInv'
  <2>1. UNCHANGED lnServers /\ lnExts' = [lnExts EXCEPT ![k].child = "gone"]
    BY <1>3 DEF ExtensionEnds
  <2>2. PICK one \in SUBSET DOMAIN lnExts : one = {k}
    OBVIOUS
  <2>3. /\ lnExts' \in Seq(LnLoaded) /\ DOMAIN lnExts' = DOMAIN lnExts
        /\ \A j \in DOMAIN lnExts :
             /\ lnExts'[j].ext = lnExts[j].ext
             /\ lnExts'[j].child = (IF j \in one THEN "gone" ELSE lnExts[j].child)
    <3>1. "gone" \in LnChild
      BY DEF LnChild
    <3>2. lnExts' = [j \in DOMAIN lnExts |->
                       IF j \in one THEN [lnExts[j] EXCEPT !.child = "gone"] ELSE lnExts[j]]
      BY <1>1, <2>1, <2>2
    <3> QED
      BY <1>1, <3>1, <3>2, ExtsEnd
  <2>4. PinnedFirst' /\ PutAway'
    BY <1>2, <2>1, <2>3 DEF LaunchInv, PinnedFirst, PutAway
  <2> QED
    BY <1>1, <1>2, <2>1, <2>3, <2>4, LateStep
<1>4. ASSUME NEW i \in ServerIds, ServerEnds(i) PROVE LaunchInv'
  <2>1. UNCHANGED lnExts /\ lnServers' = [lnServers EXCEPT ![i] = [lnServers[i] EXCEPT !.child = "gone"]]
    BY <1>4 DEF ServerEnds
  <2>2. [lnServers[i] EXCEPT !.child = "gone"] \in [child : LnChild, seen : {"nothing", "pinned", "changed"}]
    BY <1>1 DEF LnChild
  <2>3. lnServers' \in [ServerIds -> [child : LnChild, seen : {"nothing", "pinned", "changed"}]]
    BY <1>1, <2>1, <2>2
  <2>4. \A j \in ServerIds : /\ lnServers'[j].seen = lnServers[j].seen
                             /\ lnServers'[j].child \in {lnServers[j].child, "gone"}
    BY <1>1, <2>1
  <2>5. PinnedFirst' /\ PutAway'
    BY <1>1, <1>2, <2>1, <2>4 DEF LaunchInv, PinnedFirst, PutAway
  <2> QED
    BY <1>1, <1>2, <2>1, <2>3, <2>5, LateStep
<1> QED
  BY <1>3, <1>4

LEMMA LaunchStep == ASSUME LaunchInv, [LaunchNext]_launchVars PROVE LaunchInv'
<1>1. CASE UNCHANGED launchVars
  <2>1. /\ UNCHANGED <<lnCase, lnPc, lnAt, lnApproval, lnSandbox, lnExts, lnServers, lnTools>>
        /\ UNCHANGED <<lnPrompter, lnAgent, lnFailed>>
    BY <1>1 DEF launchVars
  <2>2. PinnedFirst' /\ PutAway'
    BY <2>1, CaseStays DEF LaunchInv, PinnedFirst, PutAway
  <2>3. /\ lnTools \subseteq ServerIds /\ (lnPc # "threw" => lnFailed = "none") /\ lnAt \in Nat
        /\ lnServers \in [ServerIds -> [child : LnChild, seen : {"nothing", "pinned", "changed"}]]
        /\ lnExts \in Seq(LnLoaded)
    BY DEF LaunchInv, LaunchTypes
  <2> QED
    BY <2>1, <2>2, <2>3, LateStep
<1>2. CASE LaunchNext
  BY <1>2, ConfigKeeps, LoadKeeps, ConnectKeeps, PinsKeep, MadeKeeps, LeaveKeeps, EndKeeps DEF LaunchNext
<1> QED
  BY <1>1, <1>2

\* An agent of the enterprise is audited, isolated and has no extension it did not list,
\* no agent has a pinned tool that changed, and what was opened is put away behind a run
\* or a pin that failed (agent-command.ts:721-752, mcp-wiring.ts:40-46).
THEOREM LaunchesAreSound == LaunchSpec => []LaunchSound
<1>1. LaunchInv => LaunchSound
  <2> SUFFICES ASSUME LaunchInv PROVE LaunchSound
    OBVIOUS
  <2>1. /\ lnServers \in [ServerIds -> [child : LnChild, seen : {"nothing", "pinned", "changed"}]]
        /\ \A k \in DOMAIN lnExts : lnExts[k].child \in LnChild
        /\ (lnPc # "threw" => lnFailed = "none")
    <3>1. lnExts \in Seq(LnLoaded)
      BY DEF LaunchInv, LaunchTypes
    <3>2. \A k \in DOMAIN lnExts : lnExts[k] \in LnLoaded
      BY <3>1
    <3>3. \A k \in DOMAIN lnExts : lnExts[k].child \in LnChild
      BY <3>2 DEF LnLoaded
    <3> QED
      BY <3>3 DEF LaunchInv, LaunchTypes
  <2>2. lnAgent # "none" =>
          /\ lnCase.enterprise =>
               /\ lnAgent = "audited" /\ lnSandbox # "host"
               /\ \A k \in DOMAIN lnExts :
                    LET ext == lnExts[k].ext IN
                    \/ ext.signed /\ ext.listed /\ ~ext.privileged
                    \/ lnCase.projectAllowed /\ ext \in ToSet(lnCase.project)
          /\ \A i \in lnTools \cap lnCase.pinned : lnServers[i].seen = "pinned"
          /\ Root = "cli" /\ ~lnCase.tty => lnApproval # "ask"
    BY DEF LaunchInv, ChecksFirst, AgentLast, PinnedFirst, Allowed
  <2>3. lnPc = "over" =>
          /\ LnOpen = {} /\ ~lnPrompter
          /\ \A k \in DOMAIN lnExts : lnExts[k].child \in {"none", "gone"}
    BY <2>1 DEF LaunchInv, PutAway, LnOpen, LnChild
  <2>4. lnFailed = "unpinned" => LnOpen = {} /\ lnTools = {}
    BY <2>1 DEF LaunchInv, PinnedFirst, LnOpen
  <2> QED
    BY <2>2, <2>3, <2>4 DEF LaunchSound
<1> QED
  BY <1>1, LaunchStart, LaunchStep, PTL DEF LaunchSpec

-----------------------------------------------------------------------------
(* The configuration *)

\* What the log of an edit's reads and writes is made of.
CfgEntry == [job : CfgJob, what : {"read", "write"}]
CfgTypes ==
  /\ cfgCase \in CfgCase /\ ListsFallbacks(cfgUser)
  /\ DOMAIN cfgPc = CfgJob /\ DOMAIN cfgRead = CfgJob /\ DOMAIN cfgResult = CfgJob
  /\ cfgLog \in Seq(CfgEntry)

\* How many files a job has read.
FilesRead(pc) ==
  CASE pc = "idle" -> {0} [] pc \in {"project", "truncate", "write"} -> {1} [] pc = "local" -> {2}
    [] pc = "merge" -> {3} [] OTHER -> 0..3
LayersRead ==
  \A j \in CfgJob :
    /\ cfgRead[j] \in Seq(ToSet(cfgRead[j])) /\ Len(cfgRead[j]) \in FilesRead(cfgPc[j])
    /\ \A i \in DOMAIN cfgRead[j] : ListsFallbacks(cfgRead[j][i]) /\ cfgRead[j][i] # TornFile
    /\ cfgResult[j] # NoConfig => cfgPc[j] = "done" /\ Decided(Layers(j), cfgResult[j])

\* A later edit changed the field that edit i wrote, or overlapped it.
Written(i) == cfgLog[i].what = "write"
LetOff(i) ==
  \E k \in i+1..Len(cfgLog) :
    /\ Written(k)
    /\ Task(cfgLog[k].job).field = Task(cfgLog[i].job).field \/ ReadBefore(cfgLog[k].job, i)

\* What is in the file a job has read, or is to be written over, is so as well.
WrittenStays ==
  \A i \in DOMAIN cfgLog : Written(i) /\ cfgUser # TornFile => EditIn(cfgUser, i) \/ LetOff(i)
EditsInHand ==
  \A j \in CfgJob : cfgPc[j] \in {"truncate", "write"} =>
    /\ ReadBefore(j, Len(cfgLog))
    /\ \A i \in DOMAIN cfgLog : Written(i) => EditIn(cfgRead[j][1], i) \/ LetOff(i) \/ ReadBefore(j, i)

CfgInv == CfgTypes /\ LayersRead /\ WrittenStays /\ EditsInHand

\* The last of four layers.
LEMMA LastOfFour ==
  ASSUME NEW says \in SUBSET (1..4)
  PROVE  /\ 4 \in says => Max(says) = 4
         /\ 4 \notin says /\ 3 \in says => Max(says) = 3
         /\ 4 \notin says /\ 3 \notin says /\ 2 \in says => Max(says) = 2
         /\ says = {1} => Max(says) = 1
<1>1. \A k \in says : k \in Int /\ k <= 4 /\ (k # 4 => k <= 3) /\ (k \notin {3, 4} => k <= 2)
  OBVIOUS
<1>2. ASSUME NEW m \in says, \A k \in says : k <= m PROVE Max(says) = m
  <2>1. Max(says) \in says /\ \A k \in says : k <= Max(says)
    BY <1>2 DEF Max
  <2>2. Max(says) \in Int /\ m \in Int
    BY <1>1, <1>2, <2>1
  <2> QED
    BY <1>2, <2>1, <2>2
<1> QED
  BY <1>1, <1>2

LEMMA NothingSaid ==
  ASSUME NEW key, NEW default
  PROVE  Value(<<>>, key, default) = default
BY DEF Value

\* A layer has the last word in a field of a section.
LEMMA MergeSaysField ==
  ASSUME NEW config, NEW layer, NEW section \in MergedSections, NEW field, NEW default
  PROVE  Value(Value(Merge(config, layer), section, <<>>), field, default) =
           IF field \in DOMAIN Value(layer, section, <<>>) THEN layer[section][field]
           ELSE Value(Value(config, section, <<>>), field, default)
<1>2. CASE section \notin DOMAIN layer
  <2>1. Value(layer, section, <<>>) = <<>> /\ DOMAIN <<>> = {}
    BY <1>2 DEF Value
  <2>2. Value(Merge(config, layer), section, <<>>) = Value(config, section, <<>>)
    BY <1>2 DEF Merge, Value
  <2> QED
    BY <1>2, <2>1, <2>2
<1>3. CASE section \in DOMAIN layer
  <2>1. Value(layer, section, <<>>) = layer[section]
    BY <1>3 DEF Value
  <2>2. CASE section \notin DOMAIN config
    <3>1. Value(Merge(config, layer), section, <<>>) = layer[section]
      BY <1>3, <2>2 DEF Merge, Value
    <3>2. Value(Value(config, section, <<>>), field, default) = default
      BY <2>2 DEF Value
    <3> QED
      BY <1>3, <2>1, <3>1, <3>2 DEF Value
  <2>3. CASE section \in DOMAIN config
    <3>1. Value(Merge(config, layer), section, <<>>) = Overlaid(layer[section], config[section])
      BY <1>3, <2>3 DEF Merge, Value
    <3>2. Value(config, section, <<>>) = config[section]
      BY <2>3 DEF Value
    <3>3. Value(Overlaid(layer[section], config[section]), field, default) =
            IF field \in DOMAIN layer[section] THEN layer[section][field]
            ELSE Value(config[section], field, default)
      BY DEF Overlaid, Value
    <3> QED
      BY <1>3, <2>1, <3>1, <3>2, <3>3
  <2> QED
    BY <2>2, <2>3
<1> QED
  BY <1>2, <1>3

\* What is merged of four layers is what the last to say so says.
LEMMA LastSays ==
  ASSUME NEW S, NEW layers \in Seq(S), Len(layers) = 4, NEW key, key \notin MergedSections, NEW default
  PROVE  Value(MergeConfig(layers), key, default) = LastSaid(layers, key, default)
<1> DEFINE says == {i \in DOMAIN layers : key \in DOMAIN layers[i]}
           m1 == Merge(<<>>, layers[1])
           m2 == Merge(m1, layers[2])
           m3 == Merge(m2, layers[3])
<1>1. DOMAIN layers = 1..4
  OBVIOUS
<1>2. /\ \A i \in 1..4 : i \in says <=> key \in DOMAIN layers[i]
      /\ says \subseteq 1..4 /\ {1, 2, 3, 4} \subseteq 1..4
  BY <1>1
<1>3. LastSaid(layers, key, default) = IF says = {} THEN default ELSE layers[Max(says)][key]
  BY DEF LastSaid
<1>4. MergeConfig(layers) = Merge(m3, layers[4])
  BY DEF MergeConfig
<1>5. ASSUME NEW config, NEW layer
      PROVE  Value(Merge(config, layer), key, default) =
               IF key \in DOMAIN layer THEN layer[key] ELSE Value(config, key, default)
  BY DEF Merge, Value
<1>6. /\ Value(Merge(m3, layers[4]), key, default) =
           IF key \in DOMAIN layers[4] THEN layers[4][key] ELSE Value(m3, key, default)
      /\ Value(m3, key, default) =
           IF key \in DOMAIN layers[3] THEN layers[3][key] ELSE Value(m2, key, default)
      /\ Value(m2, key, default) =
           IF key \in DOMAIN layers[2] THEN layers[2][key] ELSE Value(m1, key, default)
      /\ Value(m1, key, default) =
           IF key \in DOMAIN layers[1] THEN layers[1][key] ELSE Value(<<>>, key, default)
  BY <1>5
<1>7. Value(<<>>, key, default) = default
  BY NothingSaid
<1> HIDE DEF says, m1, m2, m3
<1>8. says \in SUBSET (1..4)
  BY <1>2
<1>9. CASE 4 \in says
  BY <1>2, <1>3, <1>4, <1>6, <1>8, <1>9, LastOfFour
<1>10. CASE 4 \notin says /\ 3 \in says
  BY <1>2, <1>3, <1>4, <1>6, <1>8, <1>10, LastOfFour
<1>11. CASE 4 \notin says /\ 3 \notin says /\ 2 \in says
  BY <1>2, <1>3, <1>4, <1>6, <1>8, <1>11, LastOfFour
<1>12. CASE 4 \notin says /\ 3 \notin says /\ 2 \notin says
  <2>1. says \subseteq {1, 2, 3, 4}
    BY <1>2
  <2>2. says = {} \/ says = {1}
    BY <1>12, <2>1
  <2>3. CASE says = {1}
    BY <1>2, <1>3, <1>4, <1>6, <1>8, <1>12, <2>3, LastOfFour
  <2>4. CASE says = {}
    BY <1>2, <1>3, <1>4, <1>6, <1>7, <2>4
  <2> QED
    BY <2>2, <2>3, <2>4
<1> QED
  BY <1>9, <1>10, <1>11, <1>12

LEMMA LastSaysField ==
  ASSUME NEW S, NEW layers \in Seq(S), Len(layers) = 4, NEW section \in MergedSections, NEW field, NEW default
  PROVE  Value(Value(MergeConfig(layers), section, <<>>), field, default)
           = LastField(layers, section, field, default)
<1> DEFINE Speaks(i) == field \in DOMAIN Value(layers[i], section, <<>>)
           says == {i \in DOMAIN layers : Speaks(i)}
           m1 == Merge(<<>>, layers[1])
           m2 == Merge(m1, layers[2])
           m3 == Merge(m2, layers[3])
           Of(config) == Value(Value(config, section, <<>>), field, default)
<1>1. DOMAIN layers = 1..4
  OBVIOUS
<1>2. /\ \A i \in 1..4 : i \in says <=> Speaks(i)
      /\ says \subseteq 1..4 /\ {1, 2, 3, 4} \subseteq 1..4
  BY <1>1
<1>3. LastField(layers, section, field, default) = IF says = {} THEN default ELSE layers[Max(says)][section][field]
  BY DEF LastField
<1>4. MergeConfig(layers) = Merge(m3, layers[4])
  BY DEF MergeConfig
<1>5. /\ Of(Merge(m3, layers[4])) = IF Speaks(4) THEN layers[4][section][field] ELSE Of(m3)
      /\ Of(m3) = IF Speaks(3) THEN layers[3][section][field] ELSE Of(m2)
      /\ Of(m2) = IF Speaks(2) THEN layers[2][section][field] ELSE Of(m1)
      /\ Of(m1) = IF Speaks(1) THEN layers[1][section][field] ELSE Of(<<>>)
  BY MergeSaysField
<1>6. Of(<<>>) = default
  BY NothingSaid
<1>7. Of(MergeConfig(layers)) = Value(Value(MergeConfig(layers), section, <<>>), field, default)
  OBVIOUS
<1> HIDE DEF says, m1, m2, m3, Of, Speaks
<1>8. says \in SUBSET (1..4)
  BY <1>2
<1>9. CASE 4 \in says
  BY <1>2, <1>3, <1>4, <1>5, <1>7, <1>8, <1>9, LastOfFour
<1>10. CASE 4 \notin says /\ 3 \in says
  BY <1>2, <1>3, <1>4, <1>5, <1>7, <1>8, <1>10, LastOfFour
<1>11. CASE 4 \notin says /\ 3 \notin says /\ 2 \in says
  BY <1>2, <1>3, <1>4, <1>5, <1>7, <1>8, <1>11, LastOfFour
<1>12. CASE 4 \notin says /\ 3 \notin says /\ 2 \notin says
  <2>1. says \subseteq {1, 2, 3, 4}
    BY <1>2
  <2>2. says = {} \/ says = {1}
    BY <1>12, <2>1
  <2>3. CASE says = {1}
    BY <1>2, <1>3, <1>4, <1>5, <1>7, <1>8, <1>12, <2>3, LastOfFour
  <2>4. CASE says = {}
    BY <1>2, <1>3, <1>4, <1>5, <1>6, <1>7, <2>4
  <2> QED
    BY <2>2, <2>3, <2>4
<1> QED
  BY <1>9, <1>10, <1>11, <1>12

\* What is said of fallbacks is a list.
LEMMA FallbacksListed ==
  ASSUME NEW S, NEW layers \in Seq(S), Len(layers) = 4,
         \A i \in 1..4 : ListsFallbacks(layers[i]) /\ layers[i] # TornFile
  PROVE  \E T : LastSaid(layers, "fallbacks", <<>>) \in Seq(T)
<1> DEFINE says == {i \in DOMAIN layers : "fallbacks" \in DOMAIN layers[i]}
<1>1. says \in SUBSET (1..4)
  OBVIOUS
<1>2. LastSaid(layers, "fallbacks", <<>>) = IF says = {} THEN <<>> ELSE layers[Max(says)]["fallbacks"]
  BY DEF LastSaid
<1>3. CASE says = {}
  <2>1. <<>> \in Seq({})
    OBVIOUS
  <2> QED
    BY <1>2, <1>3, <2>1
<1>4. CASE says # {}
  <2>1. says = {1} \/ 2 \in says \/ 3 \in says \/ 4 \in says
    BY <1>1, <1>4
  <2>2. Max(says) \in says
    <3> HIDE DEF says
    <3> QED
      BY <1>1, <2>1, LastOfFour
  <2>3. PICK i \in 1..4 : i = Max(says) /\ "fallbacks" \in DOMAIN layers[i]
    BY <2>2
  <2>4. layers[i].fallbacks \in Seq(ToSet(layers[i].fallbacks))
    BY <2>3 DEF ListsFallbacks
  <2> QED
    BY <1>2, <1>4, <2>3, <2>4
<1> QED
  BY <1>3, <1>4

\* What is resolved from four layers is what they say, and listed.
LEMMA ResolvedDecided ==
  ASSUME NEW S, NEW layers \in Seq(S), Len(layers) = 4,
         \A i \in 1..4 : ListsFallbacks(layers[i]) /\ layers[i] # TornFile,
         ~Refused(MergeConfig(layers))
  PROVE  Decided(layers, Resolved(MergeConfig(layers)))
<1> DEFINE merged == MergeConfig(layers)
<1>1. /\ {"model", "revision", "loop", "fallbacks", "signatures"} \cap MergedSections = {}
      /\ {"sandbox", "tui", "enterprise", "media", "extensions"} \subseteq MergedSections
  BY DEF MergedSections
<1>2. \A default : /\ Value(merged, "model", default) = LastSaid(layers, "model", default)
                   /\ Value(merged, "revision", default) = LastSaid(layers, "revision", default)
                   /\ Value(merged, "loop", default) = LastSaid(layers, "loop", default)
                   /\ Value(merged, "fallbacks", default) = LastSaid(layers, "fallbacks", default)
  BY <1>1, LastSays
<1>3. \A field, default :
        /\ Value(Value(merged, "sandbox", <<>>), field, default) = LastField(layers, "sandbox", field, default)
        /\ Value(Value(merged, "tui", <<>>), field, default) = LastField(layers, "tui", field, default)
        /\ Value(Value(merged, "enterprise", <<>>), field, default)
             = LastField(layers, "enterprise", field, default)
  BY <1>1, LastSaysField
<1>20. merged = MergeConfig(layers) /\ ~Refused(merged)
  OBVIOUS
<1> HIDE DEF merged
<1>4. PICK T : Value(merged, "fallbacks", <<>>) \in Seq(T)
  BY <1>2, FallbacksListed
<1>5. PICK entries \in Seq(T) : entries = Value(merged, "fallbacks", <<>>)
  BY <1>4
<1>6. PICK first : first = Primary(merged)
  OBVIOUS
<1>7. PICK rest : rest = Fallbacks(merged)
  OBVIOUS
<1>8. /\ DOMAIN rest = 1..Len(entries) /\ rest \in Seq(ToSet(rest)) /\ Len(rest) = Len(entries)
  <2>1. rest = [i \in 1..Len(entries) |-> Fallback(merged, entries[i])]
    BY <1>5, <1>7 DEF Fallbacks
  <2>2. PICK n \in Nat : n = Len(entries)
    OBVIOUS
  <2>3. DOMAIN rest = 1..n /\ \A i \in 1..n : rest[i] \in ToSet(rest)
    BY <2>1, <2>2 DEF ToSet
  <2>4. rest \in [1..n -> ToSet(rest)]
    BY <2>1, <2>2, <2>3
  <2> QED
    BY <2>2, <2>3, <2>4
<1>9. PICK chain : chain = <<first>> \o rest
  OBVIOUS
<1>10. PICK All : first \in All /\ All = {first} \cup ToSet(rest)
  OBVIOUS
<1>11. /\ Len(chain) = 1 + Len(entries) /\ chain[1] = first
       /\ \A i \in DOMAIN chain : chain[i] \in All
  <2>1. rest \in Seq(All) /\ <<first>> \in Seq(All) /\ Len(<<first>>) = 1
    BY <1>8, <1>10
  <2>2. chain \in Seq(All) /\ Len(chain) = 1 + Len(rest) /\ chain[1] = first
    BY <1>9, <2>1
  <2> QED
    BY <1>8, <2>2
<1>12. PICK result : result = Resolved(merged)
  OBVIOUS
<1>13. /\ result.chain = chain
       /\ result.loop = Bounded(Value(Value(merged, "loop", <<>>), "iterations", NoConfig), 2, 1, 9)
       /\ result.sandbox = Value(Value(merged, "sandbox", <<>>), "kind", "auto")
       /\ result.skin = Value(Value(merged, "tui", <<>>), "skin", "foxglow")
       /\ result.enterprise = Enforced(merged)
       /\ result.fallback = Value(Value(merged, "sandbox", <<>>), "fallback", FALSE)
       /\ result.pinned = Value(Value(merged, "sandbox", <<>>), "pinned", FALSE)
       /\ result.digest = Value(Value(merged, "sandbox", <<>>), "digest", Enforced(merged))
       /\ result.remote = Value(Value(merged, "media", <<>>), "remote", ~Enforced(merged))
       /\ result.host = Value(Value(merged, "extensions", <<>>), "host",
                              IF Enforced(merged) THEN "process" ELSE "in-process")
       /\ result.signatures = Value(merged, "signatures", TRUE)
  BY <1>6, <1>7, <1>9, <1>12 DEF Resolved
<1>14. first.model = LastSaid(layers, "model", first.model)
  <2>1. first.model = ModelId(merged)
    BY <1>6 DEF Primary, ModelProfile
  <2>2. PICK other : first.model = Value(merged, "model", other)
    BY <2>1 DEF ModelId
  <2> QED
    BY <1>2, <2>2 DEF Value
<1>15. LastSaid(layers, "revision", first.revision) = first.revision
  <2>1. PICK other : first.revision = Value(merged, "revision", other)
    BY <1>6 DEF Primary, ModelProfile
  <2> QED
    BY <1>2, <2>1 DEF Value
<1>16. result.enterprise = (LastField(layers, "enterprise", "enabled", FALSE) = TRUE)
  <2>1. Value(Enterprise(merged), "enabled", FALSE) = LastField(layers, "enterprise", "enabled", FALSE)
    BY <1>3 DEF Enterprise
  <2>2. result.enterprise = (Value(Enterprise(merged), "enabled", FALSE) = TRUE)
    BY <1>13, Zenon DEF Enforced
  <2> QED
    BY <2>1, <2>2, Zenon
<1>17. ASSUME result.enterprise PROVE UnderPolicy(layers, result)
  <2> DEFINE providers == LastField(layers, "enterprise", "providers", {})
             models == LastField(layers, "enterprise", "models", {})
             sandbox == Value(merged, "sandbox", <<>>)
  <2>1. Enforced(merged) /\ ~DeniedModel(merged) /\ ~DeniedSandbox(merged) /\ ~DeniedSetting(merged)
    BY <1>13, <1>17, <1>20 DEF Refused
  <2>2. \A field, default : Value(Enterprise(merged), field, default) = LastField(layers, "enterprise", field, default)
    BY <1>3 DEF Enterprise
  <2>3. \A i \in DOMAIN chain : AllowedProvider(merged, chain[i]) /\ AllowedModel(merged, chain[i])
    BY <1>6, <1>7, <1>10, <1>11, <2>1 DEF DeniedModel
  <2>4. providers # {} => \A i \in DOMAIN chain : chain[i].provider \in providers
    BY <2>2, <2>3 DEF AllowedProvider
  <2>5. ASSUME models # {}, NEW i \in DOMAIN chain
        PROVE  \E e \in models : /\ e.model = chain[i].model
                                 /\ Value(e, "provider", chain[i].provider) = chain[i].provider
                                 /\ Value(e, "revision", chain[i].revision) = chain[i].revision
    <3>1. Value(Enterprise(merged), "models", {}) = models /\ AllowedModel(merged, chain[i])
      BY <2>2, <2>3, <2>5
    <3>2. PICK e \in models : /\ e.model = chain[i].model
                              /\ "provider" \in DOMAIN e => e.provider = chain[i].provider
                              /\ "revision" \in DOMAIN e => e.revision = chain[i].revision
      BY <2>5, <3>1 DEF AllowedModel
    <3> QED
      BY <3>2 DEF Value
  <2>6. LastField(layers, "enterprise", "isolated", TRUE) = TRUE => result.sandbox # "host" /\ result.fallback # TRUE
    <3>1. /\ result.sandbox = Value(sandbox, "kind", "auto") /\ result.fallback = Value(sandbox, "fallback", FALSE)
          /\ Value(Enterprise(merged), "isolated", TRUE) = LastField(layers, "enterprise", "isolated", TRUE)
      BY <1>13, <2>2
    <3>2. Value(Enterprise(merged), "isolated", TRUE) = TRUE =>
            Value(sandbox, "kind", "auto") # "host" /\ Value(sandbox, "fallback", FALSE) # TRUE
      BY <2>1, Zenon DEF DeniedSandbox
    <3> QED
      BY <3>1, <3>2, Zenon
  <2>7. result.digest = TRUE /\ result.sandbox # "vm" => result.pinned = TRUE
    <3>1. /\ result.sandbox = Value(sandbox, "kind", "auto") /\ result.pinned = Value(sandbox, "pinned", FALSE)
          /\ result.digest = Value(sandbox, "digest", Enforced(merged))
      BY <1>13
    <3>2. Value(sandbox, "digest", TRUE) = TRUE /\ Value(sandbox, "kind", "auto") # "vm" =>
            Value(sandbox, "pinned", FALSE) = TRUE
      BY <2>1, Zenon DEF DeniedSandbox
    <3>3. Enforced(merged) = TRUE
      BY <2>1, Zenon DEF Enforced
    <3>4. result.digest = Value(sandbox, "digest", TRUE)
      BY <3>1, <3>3
    <3> QED
      BY <3>1, <3>2, <3>4, Zenon
  <2>8. result.host # "in-process" /\ result.signatures # FALSE /\ result.remote # TRUE
    <3>1. /\ result.remote = Value(Value(merged, "media", <<>>), "remote", ~Enforced(merged))
          /\ result.host = Value(Value(merged, "extensions", <<>>), "host",
                                 IF Enforced(merged) THEN "process" ELSE "in-process")
          /\ result.signatures = Value(merged, "signatures", TRUE)
      BY <1>13
    <3>2. /\ Value(merged, "signatures", TRUE) # FALSE
          /\ Value(Value(merged, "extensions", <<>>), "host", "process") # "in-process"
          /\ Value(Value(merged, "media", <<>>), "remote", FALSE) # TRUE
      BY <2>1, Zenon DEF DeniedSetting
    <3>3. (~Enforced(merged)) = FALSE
      BY <2>1, Zenon DEF Enforced
    <3>4. /\ result.remote = Value(Value(merged, "media", <<>>), "remote", FALSE)
          /\ result.host = Value(Value(merged, "extensions", <<>>), "host", "process")
      BY <2>1, <3>1, <3>3
    <3> QED
      BY <3>1, <3>2, <3>4, Zenon
  <2> HIDE DEF providers, models, sandbox
  <2> QED
    BY <1>13, <2>4, <2>5, <2>6, <2>7, <2>8 DEF UnderPolicy, providers, models
<1>18. /\ result.sandbox = LastField(layers, "sandbox", "kind", "auto")
       /\ result.skin = LastField(layers, "tui", "skin", "foxglow")
       /\ result.loop = Bounded(Value(LastSaid(layers, "loop", <<>>), "iterations", NoConfig), 2, 1, 9)
       /\ Len(result.chain) = 1 + Len(LastSaid(layers, "fallbacks", <<>>))
  BY <1>2, <1>3, <1>5, <1>11, <1>13
<1>19. Decided(layers, result)
  BY <1>11, <1>13, <1>14, <1>15, <1>16, <1>17, <1>18 DEF Decided
<1> QED
  BY <1>12, <1>19 DEF merged

LEMMA CfgStart == ASSUME CfgInit PROVE CfgInv
<1>1. /\ cfgCase \in CfgCase /\ cfgUser = cfgCase.user /\ cfgLog = <<>>
      /\ DOMAIN cfgPc = CfgJob /\ DOMAIN cfgRead = CfgJob /\ DOMAIN cfgResult = CfgJob
      /\ \A j \in CfgJob : cfgPc[j] = "idle" /\ cfgRead[j] = <<>> /\ cfgResult[j] = NoConfig
  BY DEF CfgInit
<1>2. CfgTypes
  BY <1>1, CfgAssumption DEF CfgTypes
<1>3. LayersRead
  <2>1. <<>> \in Seq(ToSet(<<>>)) /\ Len(<<>>) = 0 /\ DOMAIN <<>> = {}
    OBVIOUS
  <2>2. \A j \in CfgJob : Len(cfgRead[j]) \in FilesRead(cfgPc[j])
    BY <1>1, <2>1 DEF FilesRead
  <2> QED
    BY <1>1, <2>1, <2>2 DEF LayersRead
<1>4. WrittenStays /\ EditsInHand
  BY <1>1 DEF WrittenStays, EditsInHand
<1> QED
  BY <1>2, <1>3, <1>4 DEF CfgInv

LEMMA LogStays ==
  ASSUME UNCHANGED <<cfgLog, cfgCase>>
  PROVE  /\ \A i : (Written(i)' <=> Written(i)) /\ (LetOff(i)' <=> LetOff(i))
         /\ \A file, i : EditIn(file, i)' <=> EditIn(file, i)
         /\ \A j, i : ReadBefore(j, i)' <=> ReadBefore(j, i)
BY DEF Written, LetOff, EditIn, ReadBefore, Task

LEMMA LogGrows ==
  ASSUME CfgTypes, NEW entry \in CfgEntry, cfgLog' = Append(cfgLog, entry), UNCHANGED cfgCase
  PROVE  /\ cfgLog' \in Seq(CfgEntry) /\ Len(cfgLog) \in Nat /\ Len(cfgLog') = Len(cfgLog) + 1
         /\ DOMAIN cfgLog = 1..Len(cfgLog) /\ DOMAIN cfgLog' = 1..(Len(cfgLog) + 1)
         /\ cfgLog'[Len(cfgLog) + 1] = entry /\ \A i \in DOMAIN cfgLog : cfgLog'[i] = cfgLog[i]
         /\ \A i \in DOMAIN cfgLog : (Written(i)' <=> Written(i)) /\ (LetOff(i) => LetOff(i)')
         /\ \A i \in DOMAIN cfgLog : \A file : EditIn(file, i)' <=> EditIn(file, i)
         /\ \A j : \A i \in 0..Len(cfgLog) : ReadBefore(j, i) => ReadBefore(j, i)'
<1>1. PICK n \in Nat : n = Len(cfgLog)
  BY DEF CfgTypes
<1>2. /\ cfgLog' \in Seq(CfgEntry) /\ Len(cfgLog') = n + 1 /\ DOMAIN cfgLog = 1..n /\ DOMAIN cfgLog' = 1..(n + 1)
      /\ cfgLog'[n + 1] = entry /\ \A i \in 1..n : cfgLog'[i] = cfgLog[i]
  BY <1>1, AppendProperties DEF CfgTypes
<1>3. \A j : Task(j)' = Task(j)
  BY DEF Task
<1>4. \A j : \A i \in 0..n : ReadBefore(j, i)' <=> ReadBefore(j, i)
  BY <1>2 DEF ReadBefore
<1>5. \A i \in 1..n : Written(i)' <=> Written(i)
  BY <1>2 DEF Written
<1>6. ASSUME NEW i \in 1..n, LetOff(i) PROVE LetOff(i)'
  <2>1. PICK k \in i+1..n : /\ Written(k)
                            /\ \/ Task(cfgLog[k].job).field = Task(cfgLog[i].job).field
                               \/ ReadBefore(cfgLog[k].job, i)
    BY <1>1, <1>6 DEF LetOff
  <2>2. k \in i+1..Len(cfgLog') /\ k \in 1..n /\ cfgLog'[k] = cfgLog[k] /\ cfgLog'[i] = cfgLog[i] /\ Written(k)'
    BY <1>2, <1>5, <2>1
  <2>3. PICK a, b : a = cfgLog[k].job /\ b = cfgLog[i].job
    OBVIOUS
  <2>4. Task(a)' = Task(a) /\ Task(b)' = Task(b) /\ (ReadBefore(a, i)' <=> ReadBefore(a, i))
    BY <1>3, <1>4
  <2>5. Task(a)'.field = Task(b)'.field \/ ReadBefore(a, i)'
    BY <2>1, <2>3, <2>4
  <2> QED
    BY <2>2, <2>3, <2>5 DEF LetOff
<1>7. \A i \in 1..n : \A file : EditIn(file, i)' <=> EditIn(file, i)
  BY <1>2, <1>3 DEF EditIn
<1> QED
  BY <1>1, <1>2, <1>4, <1>5, <1>6, <1>7

\* What a job that reads or resolves does to the others, and to the edits: nothing.
LEMMA OthersConfig ==
  ASSUME CfgInv, NEW j \in CfgJob, UNCHANGED <<cfgCase, cfgUser, cfgLog>>,
         DOMAIN cfgPc' = CfgJob, DOMAIN cfgRead' = CfgJob, DOMAIN cfgResult' = CfgJob,
         \A k \in CfgJob \ {j} : /\ cfgPc'[k] = cfgPc[k] /\ cfgRead'[k] = cfgRead[k]
                                 /\ cfgResult'[k] = cfgResult[k],
         cfgPc'[j] \notin {"truncate", "write"},
         cfgRead'[j] \in Seq(ToSet(cfgRead'[j])), Len(cfgRead'[j]) \in FilesRead(cfgPc'[j]),
         \A i \in DOMAIN cfgRead'[j] : ListsFallbacks(cfgRead'[j][i]) /\ cfgRead'[j][i] # TornFile,
         cfgResult'[j] # NoConfig => cfgPc'[j] = "done" /\ Decided(Layers(j)', cfgResult'[j])
  PROVE  CfgInv'
<1>1. CfgTypes'
  BY DEF CfgInv, CfgTypes
<1>2. LayersRead'
  <2>1. ASSUME NEW k \in CfgJob \ {j}
        PROVE  /\ cfgRead'[k] \in Seq(ToSet(cfgRead'[k])) /\ Len(cfgRead'[k]) \in FilesRead(cfgPc'[k])
               /\ \A i \in DOMAIN cfgRead'[k] : ListsFallbacks(cfgRead'[k][i]) /\ cfgRead'[k][i] # TornFile
               /\ cfgResult'[k] # NoConfig => cfgPc'[k] = "done" /\ Decided(Layers(k)', cfgResult'[k])
    <3>1. Layers(k)' = Layers(k)
      BY <2>1 DEF Layers
    <3> QED
      BY <2>1, <3>1 DEF CfgInv, LayersRead
  <2> QED
    BY <2>1 DEF LayersRead
<1>3. WrittenStays'
  BY LogStays DEF CfgInv, WrittenStays
<1>4. EditsInHand'
  BY LogStays DEF CfgInv, EditsInHand
<1> QED
  BY <1>1, <1>2, <1>3, <1>4 DEF CfgInv

\* A list that is one longer, with what it is made of.
LEMMA OneLonger ==
  ASSUME NEW T, NEW list \in Seq(T), NEW item
  PROVE  /\ Append(list, item) \in Seq(ToSet(Append(list, item)))
         /\ Len(Append(list, item)) = Len(list) + 1 /\ Len(list) \in Nat
         /\ Append(list, item)[Len(list) + 1] = item
         /\ \A i \in 1..Len(list) : Append(list, item)[i] = list[i]
         /\ DOMAIN Append(list, item) = 1..(Len(list) + 1) /\ DOMAIN list = 1..Len(list)
<1>1. PICK S : S = T \cup {item}
  OBVIOUS
<1>2. PICK more : more = Append(list, item)
  OBVIOUS
<1>3. list \in Seq(S) /\ item \in S
  <2>1. T \subseteq S /\ item \in S
    BY <1>1
  <2> QED
    BY <2>1, SeqMonotonic
<1>4. /\ more \in Seq(S) /\ Len(more) = Len(list) + 1 /\ Len(list) \in Nat
      /\ more[Len(list) + 1] = item /\ \A i \in 1..Len(list) : more[i] = list[i]
      /\ DOMAIN more = 1..(Len(list) + 1) /\ DOMAIN list = 1..Len(list)
  BY <1>2, <1>3, AppendProperties
<1>5. list \in Seq(ToSet(more)) /\ item \in ToSet(more)
  <2>1. PICK n \in Nat : n = Len(list)
    BY <1>4
  <2>2. DOMAIN list = 1..n /\ \A i \in 1..n : list[i] = more[i] /\ i \in DOMAIN more
    BY <1>4, <2>1
  <2>3. \A i \in 1..n : list[i] \in ToSet(more)
    BY <2>2 DEF ToSet
  <2>4. item \in ToSet(more)
    BY <1>4, <2>1 DEF ToSet
  <2>5. list = [i \in 1..n |-> list[i]]
    BY <2>2
  <2>6. list \in [1..n -> ToSet(more)]
    BY <2>3, <2>5
  <2> QED
    BY <2>4, <2>6, SeqDef
<1>6. more \in Seq(ToSet(more))
  BY <1>2, <1>5, AppendProperties
<1> QED
  BY <1>2, <1>4, <1>6

\* A layer that is read is one more, and a list where it has to be.
LEMMA ReadLayerKeeps ==
  ASSUME CfgInv, NEW j \in CfgJob, NEW file, NEW next, ReadLayer(j, file, next), ListsFallbacks(file),
         <<cfgPc[j], next>> \in {<<"idle", "project">>, <<"project", "local">>, <<"local", "merge">>},
         UNCHANGED <<cfgCase, cfgUser, cfgLog>>
  PROVE  CfgInv'
<1>1. /\ DOMAIN cfgPc = CfgJob /\ DOMAIN cfgRead = CfgJob /\ DOMAIN cfgResult = CfgJob
      /\ cfgRead[j] \in Seq(ToSet(cfgRead[j])) /\ Len(cfgRead[j]) \in FilesRead(cfgPc[j])
      /\ \A i \in DOMAIN cfgRead[j] : ListsFallbacks(cfgRead[j][i]) /\ cfgRead[j][i] # TornFile
      /\ cfgResult[j] # NoConfig => cfgPc[j] = "done"
  BY DEF CfgInv, CfgTypes, LayersRead
<1>2. cfgPc[j] \in {"idle", "project", "local"} /\ cfgResult[j] = NoConfig
  BY <1>1
<1>3. CASE Unreadable(file)
  <2>1. /\ cfgPc' = [cfgPc EXCEPT ![j] = "threw"] /\ UNCHANGED <<cfgRead, cfgResult>>
    BY <1>3 DEF ReadLayer, ConfigThrows
  <2>2. Len(cfgRead'[j]) \in FilesRead(cfgPc'[j])
    BY <1>1, <1>2, <2>1 DEF FilesRead
  <2> QED
    BY <1>1, <1>2, <2>1, <2>2, OthersConfig
<1>4. CASE ~Unreadable(file)
  <2>1. /\ cfgPc' = [cfgPc EXCEPT ![j] = next] /\ UNCHANGED cfgResult /\ file # TornFile
        /\ cfgRead' = [cfgRead EXCEPT ![j] = Append(cfgRead[j], file)]
    BY <1>4 DEF ReadLayer, Unreadable
  <2>2. PICK read : read = cfgRead[j]
    OBVIOUS
  <2>3. PICK more : more = Append(read, file)
    OBVIOUS
  <2>4. read \in Seq(ToSet(read))
    BY <1>1, <2>2
  <2>5. /\ more \in Seq(ToSet(more)) /\ Len(more) = Len(read) + 1 /\ Len(read) \in Nat
        /\ more[Len(read) + 1] = file /\ (\A i \in 1..Len(read) : more[i] = read[i])
        /\ DOMAIN more = 1..(Len(read) + 1) /\ DOMAIN read = 1..Len(read)
    BY <2>3, <2>4, OneLonger
  <2>8. \A i \in DOMAIN more : ListsFallbacks(more[i]) /\ more[i] # TornFile
    BY <1>1, <2>1, <2>2, <2>5
  <2>9. cfgPc'[j] = next /\ cfgRead'[j] = more
    BY <1>1, <2>1, <2>2, <2>3
  <2>10. Len(more) \in FilesRead(next)
    BY <1>1, <2>2, <2>5 DEF FilesRead
  <2> QED
    BY <1>1, <1>2, <2>1, <2>5, <2>8, <2>9, <2>10, OthersConfig
<1> QED
  BY <1>3, <1>4

LEMMA ResolveKeeps ==
  ASSUME CfgInv, NEW j \in CfgJob, ReadUser(j) \/ ReadProject(j) \/ ReadLocal(j) \/ Resolve(j)
  PROVE  CfgInv'
<1>1. /\ cfgCase \in CfgCase /\ ListsFallbacks(cfgUser)
      /\ DOMAIN cfgPc = CfgJob /\ DOMAIN cfgRead = CfgJob /\ DOMAIN cfgResult = CfgJob
      /\ cfgRead[j] \in Seq(ToSet(cfgRead[j])) /\ Len(cfgRead[j]) \in FilesRead(cfgPc[j])
      /\ \A i \in DOMAIN cfgRead[j] : ListsFallbacks(cfgRead[j][i]) /\ cfgRead[j][i] # TornFile
      /\ cfgResult[j] # NoConfig => cfgPc[j] = "done"
  BY DEF CfgInv, CfgTypes, LayersRead
<1>2. /\ ListsFallbacks(cfgCase.project) /\ ListsFallbacks(cfgCase.local) /\ ListsFallbacks(<<>>)
      /\ ListsFallbacks(cfgCase.overrides) /\ cfgCase.overrides # TornFile
  BY <1>1, CfgAssumption DEF ListsFallbacks
<1>3. CASE ReadUser(j)
  BY <1>1, <1>3, ReadLayerKeeps DEF ReadUser
<1>4. CASE ReadProject(j)
  <2>1. PICK file : file = IF MayRead("project", cfgRead[j][1]) THEN cfgCase.project ELSE <<>>
    OBVIOUS
  <2> QED
    BY <1>2, <1>4, <2>1, ReadLayerKeeps DEF ReadProject
<1>5. CASE ReadLocal(j)
  <2>1. PICK file : file = IF MayRead("local", cfgRead[j][1]) THEN cfgCase.local ELSE <<>>
    OBVIOUS
  <2> QED
    BY <1>2, <1>5, <2>1, ReadLayerKeeps DEF ReadLocal
<1>6. CASE Resolve(j)
  <2>1. cfgPc[j] = "merge" /\ UNCHANGED <<cfgCase, cfgUser, cfgLog, cfgRead>>
    BY <1>6 DEF Resolve, ConfigThrows
  <2>2. PICK layers : layers = Append(cfgRead[j], cfgCase.overrides)
    OBVIOUS
  <2>3. Len(cfgRead[j]) = 3
    BY <1>1, <2>1 DEF FilesRead
  <2>4. PICK S : S = ToSet(cfgRead[j]) \cup {cfgCase.overrides}
    OBVIOUS
  <2>5. cfgRead[j] \in Seq(S) /\ cfgCase.overrides \in S
    BY <1>1, <2>4
  <2>6. /\ layers \in Seq(S) /\ Len(layers) = 4 /\ layers[4] = cfgCase.overrides
        /\ \A i \in 1..3 : i \in DOMAIN cfgRead[j] /\ layers[i] = cfgRead[j][i]
    BY <2>2, <2>3, <2>5, AppendProperties
  <2>7. \A i \in 1..4 : ListsFallbacks(layers[i]) /\ layers[i] # TornFile
    <3>1. \A i \in 1..3 : ListsFallbacks(layers[i]) /\ layers[i] # TornFile
      BY <1>1, <2>6
    <3> QED
      BY <1>2, <2>6, <3>1
  <2>8. Layers(j)' = layers
    BY <2>1, <2>2 DEF Layers
  <2>9. PICK merged : merged = MergeConfig(layers)
    OBVIOUS
  <2>10. CASE Refused(merged)
    <3>1. cfgPc' = [cfgPc EXCEPT ![j] = "threw"] /\ UNCHANGED cfgResult
      BY <1>6, <2>2, <2>9, <2>10 DEF Resolve, ConfigThrows
    <3>2. Len(cfgRead'[j]) \in FilesRead(cfgPc'[j])
      BY <1>1, <2>1, <2>3, <3>1 DEF FilesRead
    <3> QED
      BY <1>1, <2>1, <3>1, <3>2, OthersConfig
  <2>11. CASE ~Refused(merged)
    <3>1. /\ cfgPc' = [cfgPc EXCEPT ![j] = "done"]
          /\ cfgResult' = [cfgResult EXCEPT ![j] = Resolved(merged)]
      BY <1>6, <2>2, <2>9, <2>11 DEF Resolve
    <3>2. Len(cfgRead'[j]) \in FilesRead(cfgPc'[j])
      BY <1>1, <2>1, <2>3, <3>1 DEF FilesRead
    <3>3. Decided(layers, Resolved(merged))
      BY <2>6, <2>7, <2>9, <2>11, ResolvedDecided
    <3> QED
      BY <1>1, <2>1, <2>8, <3>1, <3>2, <3>3, OthersConfig
  <2> QED
    BY <2>10, <2>11
<1> QED
  BY <1>3, <1>4, <1>5, <1>6

\* An edit reads the file as it is, and changes one field of what it read.
LEMMA EditKeeps ==
  ASSUME CfgInv, NEW j \in CfgJob, ReadToEdit(j) \/ TruncateToEdit(j) \/ WriteEdit(j) \/ DieEditing(j)
  PROVE  CfgInv'
<1>1. /\ CfgTypes /\ cfgCase \in CfgCase /\ ListsFallbacks(cfgUser)
      /\ DOMAIN cfgPc = CfgJob /\ DOMAIN cfgRead = CfgJob /\ DOMAIN cfgResult = CfgJob
      /\ cfgRead[j] \in Seq(ToSet(cfgRead[j])) /\ Len(cfgRead[j]) \in FilesRead(cfgPc[j])
      /\ \A i \in DOMAIN cfgRead[j] : ListsFallbacks(cfgRead[j][i]) /\ cfgRead[j][i] # TornFile
      /\ cfgResult[j] # NoConfig => cfgPc[j] = "done"
  BY DEF CfgInv, CfgTypes, LayersRead
<1>2. /\ UNCHANGED <<cfgCase, cfgResult>> /\ cfgPc[j] \in {"idle", "truncate", "write"} /\ cfgResult[j] = NoConfig
  <2>1. UNCHANGED <<cfgCase, cfgResult>> /\ cfgPc[j] \in {"idle", "truncate", "write"}
    BY DEF ReadToEdit, TruncateToEdit, WriteEdit, DieEditing, ConfigThrows
  <2> QED
    BY <1>1, <2>1
<1>3. ASSUME DOMAIN cfgPc' = CfgJob, DOMAIN cfgRead' = CfgJob, ListsFallbacks(cfgUser)', cfgLog' \in Seq(CfgEntry),
             \A k \in CfgJob \ {j} : cfgPc'[k] = cfgPc[k] /\ cfgRead'[k] = cfgRead[k],
             cfgRead'[j] \in Seq(ToSet(cfgRead'[j])), Len(cfgRead'[j]) \in FilesRead(cfgPc'[j]),
             \A i \in DOMAIN cfgRead'[j] : ListsFallbacks(cfgRead'[j][i]) /\ cfgRead'[j][i] # TornFile
      PROVE  CfgTypes' /\ LayersRead'
  <2>1. CfgTypes'
    BY <1>1, <1>2, <1>3 DEF CfgTypes
  <2>2. ASSUME NEW k \in CfgJob \ {j}
        PROVE  /\ cfgRead'[k] \in Seq(ToSet(cfgRead'[k])) /\ Len(cfgRead'[k]) \in FilesRead(cfgPc'[k])
               /\ \A i \in DOMAIN cfgRead'[k] : ListsFallbacks(cfgRead'[k][i]) /\ cfgRead'[k][i] # TornFile
               /\ cfgResult'[k] # NoConfig => cfgPc'[k] = "done" /\ Decided(Layers(k)', cfgResult'[k])
    <3>1. Layers(k)' = Layers(k)
      BY <1>2, <1>3, <2>2 DEF Layers
    <3> QED
      BY <1>2, <1>3, <2>2, <3>1 DEF CfgInv, LayersRead
  <2>3. LayersRead'
    BY <1>2, <1>3, <2>2 DEF LayersRead
  <2> QED
    BY <2>1, <2>3
<1>4. CASE ReadToEdit(j) /\ cfgUser = TornFile
  <2>1. /\ cfgPc[j] = "idle" /\ cfgPc' = [cfgPc EXCEPT ![j] = "threw"]
        /\ UNCHANGED <<cfgCase, cfgUser, cfgRead, cfgResult, cfgLog>>
    BY <1>4 DEF ReadToEdit, ConfigThrows
  <2>2. Len(cfgRead'[j]) \in FilesRead(cfgPc'[j])
    BY <1>1, <2>1 DEF FilesRead
  <2> QED
    BY <1>1, <1>2, <2>1, <2>2, OthersConfig
<1>5. CASE DieEditing(j)
  <2>1. /\ cfgPc[j] = "write" /\ cfgPc' = [cfgPc EXCEPT ![j] = "dead"]
        /\ UNCHANGED <<cfgCase, cfgUser, cfgRead, cfgResult, cfgLog>>
    BY <1>5 DEF DieEditing
  <2>2. Len(cfgRead'[j]) \in FilesRead(cfgPc'[j])
    BY <1>1, <2>1 DEF FilesRead
  <2> QED
    BY <1>1, <1>2, <2>1, <2>2, OthersConfig
<1>6. CASE TruncateToEdit(j)
  <2>1. /\ cfgPc[j] = "truncate" /\ cfgPc' = [cfgPc EXCEPT ![j] = "write"] /\ cfgUser' = TornFile
        /\ UNCHANGED <<cfgCase, cfgRead, cfgResult, cfgLog>>
    BY <1>6 DEF TruncateToEdit
  <2>2. Len(cfgRead'[j]) \in FilesRead(cfgPc'[j]) /\ ListsFallbacks(cfgUser)'
    BY <1>1, <2>1 DEF FilesRead, ListsFallbacks
  <2>3. CfgTypes' /\ LayersRead'
    BY <1>1, <1>3, <2>1, <2>2 DEF CfgTypes
  <2>4. WrittenStays'
    BY <2>1 DEF WrittenStays
  <2>5. EditsInHand'
    BY <1>1, <2>1, LogStays DEF CfgInv, EditsInHand
  <2> QED
    BY <2>3, <2>4, <2>5 DEF CfgInv
<1>7. CASE ReadToEdit(j) /\ cfgUser # TornFile
  <2>1. /\ cfgPc[j] = "idle" /\ cfgPc' = [cfgPc EXCEPT ![j] = "truncate"]
        /\ cfgRead' = [cfgRead EXCEPT ![j] = <<cfgUser>>] /\ cfgLog' = Append(cfgLog, [job |-> j, what |-> "read"])
        /\ UNCHANGED <<cfgCase, cfgUser, cfgResult>>
    BY <1>7 DEF ReadToEdit, Logged
  <2>2. PICK entry \in CfgEntry : entry = [job |-> j, what |-> "read"]
    BY DEF CfgEntry
  <2>3. /\ cfgLog' \in Seq(CfgEntry) /\ Len(cfgLog) \in Nat /\ Len(cfgLog') = Len(cfgLog) + 1
        /\ DOMAIN cfgLog = 1..Len(cfgLog) /\ DOMAIN cfgLog' = 1..(Len(cfgLog) + 1)
        /\ cfgLog'[Len(cfgLog) + 1] = entry /\ \A i \in DOMAIN cfgLog : cfgLog'[i] = cfgLog[i]
        /\ \A i \in DOMAIN cfgLog : (Written(i)' <=> Written(i)) /\ (LetOff(i) => LetOff(i)')
        /\ \A i \in DOMAIN cfgLog : \A file : EditIn(file, i)' <=> EditIn(file, i)
        /\ \A k : \A i \in 0..Len(cfgLog) : ReadBefore(k, i) => ReadBefore(k, i)'
    BY <1>1, <2>1, <2>2, LogGrows
  <2>4. PICK n \in Nat : n = Len(cfgLog)
    BY <2>3
  <2>5. CfgTypes' /\ LayersRead'
    <3>1. PICK read : read = <<cfgUser>>
      OBVIOUS
    <3>2. /\ read \in Seq(ToSet(read)) /\ Len(read) = 1 /\ DOMAIN read = {1} /\ read[1] = cfgUser
      BY <3>1 DEF ToSet
    <3>3. cfgPc'[j] = "truncate" /\ cfgRead'[j] = read
      BY <1>1, <2>1, <3>1
    <3>4. Len(read) \in FilesRead("truncate")
      BY <3>2 DEF FilesRead
    <3> QED
      BY <1>1, <1>3, <1>7, <2>1, <2>3, <3>2, <3>3, <3>4
  <2>6. ~Written(n + 1)'
    BY <2>2, <2>3, <2>4 DEF Written
  <2>7. \A i \in DOMAIN cfgLog' : Written(i)' => i \in DOMAIN cfgLog /\ Written(i)
    BY <2>3, <2>4, <2>6
  <2>8. WrittenStays'
    <3>1. ASSUME NEW i \in DOMAIN cfgLog', Written(i)' PROVE EditIn(cfgUser, i)' \/ LetOff(i)'
      BY <1>7, <2>1, <2>3, <2>7, <3>1 DEF CfgInv, WrittenStays
    <3> QED
      BY <2>1, <3>1 DEF WrittenStays
  <2>9. EditsInHand'
    <3>1. ReadBefore(j, n + 1)'
      BY <2>2, <2>3, <2>4 DEF ReadBefore
    <3>2. ASSUME NEW k \in CfgJob \ {j}, ReadBefore(k, n) PROVE ReadBefore(k, n + 1)'
      <4>1. ReadBefore(k, n)'
        BY <2>3, <2>4, <3>2
      <4> QED
        BY <2>4, <4>1 DEF ReadBefore
    <3>3. ASSUME NEW k \in CfgJob, cfgPc'[k] \in {"truncate", "write"}, NEW i \in DOMAIN cfgLog', Written(i)'
          PROVE  EditIn(cfgRead[k][1], i)' \/ LetOff(i)' \/ ReadBefore(k, i)'
      <4>1. i \in DOMAIN cfgLog /\ Written(i) /\ i \in 0..Len(cfgLog)
        BY <2>3, <2>4, <2>7, <3>3
      <4>2. CASE k = j
        <5>1. cfgRead'[k][1] = cfgUser
          BY <1>1, <2>1, <4>2
        <5>2. EditIn(cfgUser, i) \/ LetOff(i)
          BY <1>7, <4>1 DEF CfgInv, WrittenStays
        <5> QED
          BY <2>3, <4>1, <5>1, <5>2
      <4>3. CASE k # j
        <5>1. cfgRead'[k] = cfgRead[k] /\ cfgPc'[k] = cfgPc[k]
          BY <1>1, <2>1, <4>3
        <5>2. EditIn(cfgRead[k][1], i) \/ LetOff(i) \/ ReadBefore(k, i)
          BY <3>3, <4>1, <5>1 DEF CfgInv, EditsInHand
        <5> QED
          BY <2>3, <4>1, <5>1, <5>2
      <4> QED
        BY <4>2, <4>3
    <3>4. ASSUME NEW k \in CfgJob, cfgPc'[k] \in {"truncate", "write"} PROVE ReadBefore(k, Len(cfgLog))'
      <4>1. CASE k = j
        BY <2>3, <2>4, <3>1, <4>1
      <4>2. CASE k # j
        <5>1. cfgPc'[k] = cfgPc[k]
          BY <1>1, <2>1, <4>2
        <5>2. ReadBefore(k, n)
          BY <2>4, <3>4, <5>1 DEF CfgInv, EditsInHand
        <5> QED
          BY <2>3, <2>4, <3>2, <4>2, <5>2
      <4> QED
        BY <4>1, <4>2
    <3> QED
      BY <3>3, <3>4 DEF EditsInHand
  <2> QED
    BY <2>5, <2>8, <2>9 DEF CfgInv
<1>8. CASE WriteEdit(j)
  <2>1. /\ cfgPc[j] = "write" /\ cfgPc' = [cfgPc EXCEPT ![j] = "done"]
        /\ cfgUser' = EditWith(cfgRead[j][1], Task(j)) /\ cfgLog' = Append(cfgLog, [job |-> j, what |-> "write"])
        /\ UNCHANGED <<cfgCase, cfgRead, cfgResult>>
    BY <1>8 DEF WriteEdit, Logged
  <2>2. PICK entry \in CfgEntry : entry = [job |-> j, what |-> "write"]
    BY DEF CfgEntry
  <2>3. /\ cfgLog' \in Seq(CfgEntry) /\ Len(cfgLog) \in Nat /\ Len(cfgLog') = Len(cfgLog) + 1
        /\ DOMAIN cfgLog = 1..Len(cfgLog) /\ DOMAIN cfgLog' = 1..(Len(cfgLog) + 1)
        /\ cfgLog'[Len(cfgLog) + 1] = entry /\ \A i \in DOMAIN cfgLog : cfgLog'[i] = cfgLog[i]
        /\ \A i \in DOMAIN cfgLog : (Written(i)' <=> Written(i)) /\ (LetOff(i) => LetOff(i)')
        /\ \A i \in DOMAIN cfgLog : \A file : EditIn(file, i)' <=> EditIn(file, i)
        /\ \A k : \A i \in 0..Len(cfgLog) : ReadBefore(k, i) => ReadBefore(k, i)'
    BY <1>1, <2>1, <2>2, LogGrows
  <2>4. PICK n \in Nat : n = Len(cfgLog)
    BY <2>3
  <2>5. PICK read, task : read = cfgRead[j][1] /\ task = Task(j)
    OBVIOUS
  <2>6. Len(cfgRead[j]) = 1 /\ ListsFallbacks(read) /\ read # TornFile
    <3>1. Len(cfgRead[j]) = 1
      BY <1>1, <2>1 DEF FilesRead
    <3>2. 1 \in DOMAIN cfgRead[j]
      BY <1>1, <3>1
    <3> QED
      BY <1>1, <2>5, <3>1, <3>2
  <2>8. PICK tui : tui = Overlaid([field \in {task.field} |-> task.value], Value(read, "tui", <<>>))
    OBVIOUS
  <2>9. cfgUser' = Overlaid([section \in {"tui"} |-> tui], read)
    BY <2>1, <2>5, <2>8 DEF EditWith
  <2>10. /\ "tui" \in DOMAIN cfgUser' /\ cfgUser'.tui = tui
         /\ DOMAIN cfgUser' = DOMAIN read \cup {"tui"}
         /\ \A key \in DOMAIN read \ {"tui"} : cfgUser'[key] = read[key]
    BY <2>9 DEF Overlaid, Value
  <2>11. \A field : Value(tui, field, NoConfig) =
           IF field = task.field THEN task.value ELSE Value(Value(read, "tui", <<>>), field, NoConfig)
    BY <2>8 DEF Overlaid, Value
  <2>12. ListsFallbacks(cfgUser)'
    <3>1. "fallbacks" \in DOMAIN read => read.fallbacks \in Seq(ToSet(read.fallbacks))
      BY <2>6 DEF ListsFallbacks
    <3>2. "fallbacks" \in DOMAIN cfgUser' => "fallbacks" \in DOMAIN read /\ cfgUser'.fallbacks = read.fallbacks
      BY <2>10
    <3> QED
      BY <3>1, <3>2 DEF ListsFallbacks
  <2>13. CfgTypes' /\ LayersRead'
    <3>1. Len(cfgRead'[j]) \in FilesRead(cfgPc'[j])
      BY <1>1, <2>1, <2>6 DEF FilesRead
    <3> QED
      BY <1>1, <1>3, <2>1, <2>3, <2>12, <3>1
  <2>14. WrittenStays'
    <3>1. ASSUME NEW i \in DOMAIN cfgLog', Written(i)', cfgUser' # TornFile
          PROVE  EditIn(cfgUser, i)' \/ LetOff(i)'
      <4>0. cfgLog'[i] \in CfgEntry
        BY <2>3
      <4>1. PICK by \in CfgJob : by = cfgLog'[i].job
        BY <4>0 DEF CfgEntry
      <4>2. Task(by)' = Task(by) /\ Task(j)' = Task(j)
        BY <2>1 DEF Task
      <4>3. EditIn(cfgUser, i)' <=> Value(tui, Task(by).field, NoConfig) = Task(by).value
        BY <2>10, <3>1, <4>1, <4>2 DEF EditIn
      <4>4. Written(n + 1)' /\ cfgLog'[n + 1].job = j
        BY <2>2, <2>3, <2>4 DEF Written
      <4>5. CASE i = n + 1
        BY <2>5, <2>11, <4>1, <4>3, <4>4, <4>5
      <4>6. CASE i # n + 1
        <5>1. i \in 1..n /\ i \in DOMAIN cfgLog /\ Written(i) /\ cfgLog[i].job = by /\ n + 1 \in i+1..Len(cfgLog')
          BY <2>3, <2>4, <3>1, <4>1, <4>6
        <5>2. EditIn(read, i) \/ LetOff(i) \/ ReadBefore(j, i)
          BY <2>1, <2>5, <5>1 DEF CfgInv, EditsInHand
        <5>3. CASE LetOff(i)
          BY <2>3, <5>1, <5>3
        <5>4. CASE ReadBefore(j, i)
          <6>1. ReadBefore(j, i)'
            BY <2>3, <2>4, <5>1, <5>4
          <6> QED
            BY <4>4, <5>1, <6>1 DEF LetOff
        <5>5. CASE EditIn(read, i)
          <6>1. CASE Task(by).field = task.field
            <7>1. Task(j)'.field = Task(by)'.field
              BY <2>5, <4>2, <6>1
            <7> QED
              BY <4>1, <4>4, <5>1, <7>1 DEF LetOff
          <6>2. CASE Task(by).field # task.field
            <7>1. Value(read, "tui", <<>>) = read.tui
              BY <5>5 DEF EditIn, Value
            <7>2. Value(read.tui, Task(by).field, NoConfig) = Task(by).value
              BY <5>1, <5>5 DEF EditIn
            <7> QED
              BY <2>11, <4>3, <6>2, <7>1, <7>2
          <6> QED
            BY <6>1, <6>2
        <5> QED
          BY <5>2, <5>3, <5>4, <5>5
      <4> QED
        BY <4>5, <4>6
    <3> QED
      BY <3>1 DEF WrittenStays
  <2>15. EditsInHand'
    <3>1. ASSUME NEW k \in CfgJob, cfgPc'[k] \in {"truncate", "write"}
          PROVE  /\ ReadBefore(k, Len(cfgLog))'
                 /\ \A i \in DOMAIN cfgLog' : Written(i)' =>
                      EditIn(cfgRead[k][1], i)' \/ LetOff(i)' \/ ReadBefore(k, i)'
      <4>1. cfgPc'[k] = cfgPc[k] /\ UNCHANGED cfgRead
        BY <1>1, <2>1, <3>1
      <4>2. ReadBefore(k, n)
        BY <2>4, <3>1, <4>1 DEF CfgInv, EditsInHand
      <4>3. ReadBefore(k, n)'
        BY <2>3, <2>4, <4>2
      <4>4. ReadBefore(k, n + 1)'
        BY <2>4, <4>3 DEF ReadBefore
      <4>5. ASSUME NEW i \in DOMAIN cfgLog', Written(i)'
            PROVE  EditIn(cfgRead[k][1], i)' \/ LetOff(i)' \/ ReadBefore(k, i)'
        <5>1. CASE i = n + 1
          BY <4>4, <5>1
        <5>2. CASE i # n + 1
          <6>1. i \in DOMAIN cfgLog /\ Written(i) /\ i \in 0..Len(cfgLog)
            BY <2>3, <2>4, <4>5, <5>2
          <6>2. EditIn(cfgRead[k][1], i) \/ LetOff(i) \/ ReadBefore(k, i)
            BY <3>1, <4>1, <6>1 DEF CfgInv, EditsInHand
          <6> QED
            BY <2>3, <4>1, <6>1, <6>2
        <5> QED
          BY <5>1, <5>2
      <4> QED
        BY <2>3, <2>4, <4>4, <4>5
    <3> QED
      BY <3>1 DEF EditsInHand
  <2> QED
    BY <2>13, <2>14, <2>15 DEF CfgInv
<1> QED
  BY <1>4, <1>5, <1>6, <1>7, <1>8

LEMMA CfgStep == ASSUME CfgInv, [CfgNext]_cfgVars PROVE CfgInv'
<1>1. CASE UNCHANGED cfgVars
  <2>1. UNCHANGED <<cfgCase, cfgUser, cfgPc, cfgRead, cfgResult, cfgLog>>
    BY <1>1 DEF cfgVars
  <2>2. \A j : Layers(j)' = Layers(j)
    BY <2>1 DEF Layers
  <2>3. CfgTypes' /\ LayersRead'
    BY <2>1, <2>2 DEF CfgInv, CfgTypes, LayersRead
  <2>4. WrittenStays' /\ EditsInHand'
    BY <2>1, LogStays DEF CfgInv, WrittenStays, EditsInHand
  <2> QED
    BY <2>3, <2>4 DEF CfgInv
<1>2. CASE CfgNext
  BY <1>2, ResolveKeeps, EditKeeps DEF CfgNext
<1> QED
  BY <1>1, <1>2

\* A session runs with what the last layer that speaks of a setting says and, if the
\* enterprise's policy is enforced, as the policy asks; an edit that returned is in the
\* user's file unless a later one changed the same field or overlapped it
\* (config.ts:979-1040, 1757-1800, 1945-1952, 2081-2105).
THEOREM ConfigsAreSound == CfgSpec => []ConfigSound
<1>1. CfgInv => ConfigSound
  <2> SUFFICES ASSUME CfgInv PROVE ConfigSound
    OBVIOUS
  <2>1. ResolvedByLayers
    BY DEF CfgInv, LayersRead, ResolvedByLayers
  <2>2. ASSUME cfgUser # TornFile, NEW i \in Edits PROVE EditIn(cfgUser, i) \/ Overwritten(i) \/ Overlapped(i)
    <3>1. EditIn(cfgUser, i) \/ LetOff(i)
      BY <2>2 DEF CfgInv, WrittenStays, Edits, Written
    <3>2. PICK n \in Nat : DOMAIN cfgLog = 1..n /\ Len(cfgLog) = n
      BY DEF CfgInv, CfgTypes
    <3>3. i \in 1..n
      BY <2>2, <3>2 DEF Edits
    <3>4. CASE LetOff(i)
      <4>1. PICK k \in i+1..n : /\ Written(k)
                                /\ \/ Task(cfgLog[k].job).field = Task(cfgLog[i].job).field
                                   \/ ReadBefore(cfgLog[k].job, i)
        BY <3>2, <3>4 DEF LetOff
      <4>2. k \in Edits /\ k > i
        BY <3>2, <3>3, <4>1 DEF Edits, Written
      <4> QED
        BY <4>1, <4>2 DEF Overwritten, Overlapped
    <3> QED
      BY <3>1, <3>4
  <2> QED
    BY <2>1, <2>2 DEF ConfigSound, EditsKept
<1> QED
  BY <1>1, CfgStart, CfgStep, PTL DEF CfgSpec
=============================================================================
