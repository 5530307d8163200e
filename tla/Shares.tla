------------------------------- MODULE Shares -------------------------------
(***************************************************************************)
(* Signed shares of sessions: the commands that export, publish and        *)
(* download them and the user's key pair they make on first use            *)
(* (packages/ecosystem, share.ts), and the server that keeps them          *)
(* (apps/share-server).  Commands of one user run at once; the server      *)
(* handles requests at once; either may die between two file operations.   *)
(*                                                                         *)
(* A key file is 0 (absent), -1 (opened, not filled yet) or the key.  A    *)
(* bundle is [id, key, public, created]: it verifies when the public key   *)
(* it names is that of the private key it was signed with.                 *)
(***************************************************************************)
EXTENDS Integers

CONSTANTS ShUser, ShRequest,
          ShCommand,                         \* numbers: each would make a key of its own
          ShSetups,
          MaxNow, MaxShares, MaxShPosts, MaxShDeaths  \* bounds

ASSUME SharesAssumption ==
  /\ ShCommand \subseteq Nat \ {0}
  /\ \A setup \in ShSetups : setup.of \in [ShCommand -> ShUser]
  /\ MaxShares \in Nat

VARIABLES
  shSetup,     \* [of, anonymous, authorized, trusted, maximum]: each command's
               \* user, whether the server asks for its token, the users who have
               \* it, the keys it takes signatures of, the requests in a window
  shKeys,      \* each user's key files [private, public]
  shCommands,  \* each command: [pc, pair, bundle]
  shExported,  \* the bundles in files, which any command may publish
  shRequests,  \* what the server handles: [pc, by, bundle]
  shStore,     \* the server's file of each id: [held, bundle]
  shBuckets,   \* [since, count] of the token, or of each user without one
  shNow, shMade, shPosts, shDeaths,
  shPublished  \* history: the bundles somebody was told are published

shVars == <<shSetup, shKeys, shCommands, shExported, shRequests, shStore, shBuckets,
            shNow, shMade, shPosts, shDeaths, shPublished>>

NoKey == 0
HalfKey == -1
RateWindow == 1
MaxAge == 0
NoPair == [private |-> NoKey, public |-> NoKey]
NoBundle == [id |-> 0, key |-> 0, public |-> 0, created |-> 0]
NoCommand == [pc |-> "idle", pair |-> NoPair, bundle |-> NoBundle]
NoRequest == [pc |-> "free", by |-> 0, bundle |-> NoBundle]
NoBuckets == [k \in ShUser \cup {"token"} |-> [since |-> -RateWindow, count |-> 0]]

SharesInit ==
  /\ shSetup \in ShSetups
  /\ shKeys = [u \in ShUser |-> NoPair]
  /\ shCommands = [c \in ShCommand |-> NoCommand]
  /\ shExported = {}
  /\ shRequests = [r \in ShRequest |-> NoRequest]
  /\ shStore = [i \in 1..MaxShares |-> [held |-> "nothing", bundle |-> NoBundle]]
  /\ shBuckets = NoBuckets
  /\ shNow = 0 /\ shMade = 0 /\ shPosts = 0 /\ shDeaths = 0
  /\ shPublished = {}

Verifies(b) == b.public = b.key
ShareExpired(b) == shNow - b.created > MaxAge
UserOf(c) == shSetup.of[c]
ShAt(c, pc) == shCommands[c].pc = pc
ShGoto(c, pc) == shCommands' = [shCommands EXCEPT ![c].pc = pc]
ShEnds(c) == shCommands' = [shCommands EXCEPT ![c] = NoCommand]
ShServerKept == UNCHANGED <<shRequests, shStore, shBuckets, shNow, shPosts, shDeaths, shPublished, shSetup>>
ShClientKept == UNCHANGED <<shKeys, shExported, shMade, shSetup, shNow, shDeaths>>

-----------------------------------------------------------------------------
(* share export: the user's key pair, the bundle, its file *)

Export(c) ==
  /\ ShAt(c, "idle") /\ shMade < MaxShares
  /\ ShGoto(c, IF shKeys[UserOf(c)].private = NoKey THEN "makePrivate" ELSE "readPrivate")
  /\ ShServerKept /\ UNCHANGED <<shKeys, shExported, shMade>>

\* A file that is only opened is read as empty.  An absent one throws, and an
\* empty private key signs nothing.
ReadKey(c, file) ==
  /\ ShAt(c, IF file = "private" THEN "readPrivate" ELSE "readPublic")
  /\ LET found == shKeys[UserOf(c)][file] IN
     IF found = NoKey \/ (file = "private" /\ found = HalfKey)
     THEN ShEnds(c)
     ELSE shCommands' = [shCommands EXCEPT ![c].pair[file] = found,
            ![c].pc = IF file = "private" THEN "readPublic" ELSE "sign"]
  /\ ShServerKept /\ UNCHANGED <<shKeys, shExported, shMade>>

\* The private key is written to a new file or not at all (wx).
MakeKey(c, file) ==
  /\ ShAt(c, IF file = "private" THEN "makePrivate" ELSE "makePublic")
  /\ LET u == UserOf(c) IN
     IF file = "private" /\ shKeys[u].private # NoKey
     THEN ShEnds(c) /\ UNCHANGED shKeys
     ELSE /\ shKeys' = [shKeys EXCEPT ![u][file] = HalfKey]
          /\ ShGoto(c, IF file = "private" THEN "fillPrivate" ELSE "fillPublic")
  /\ ShServerKept /\ UNCHANGED <<shExported, shMade>>
FillKey(c, file) ==
  /\ ShAt(c, IF file = "private" THEN "fillPrivate" ELSE "fillPublic")
  /\ shKeys' = [shKeys EXCEPT ![UserOf(c)][file] = c]
  /\ shCommands' = [shCommands EXCEPT ![c].pair[file] = c,
       ![c].pc = IF file = "private" THEN "makePublic" ELSE "sign"]
  /\ ShServerKept /\ UNCHANGED <<shExported, shMade>>

\* The bundle goes into a file by a temporary one.
Sign(c) ==
  /\ ShAt(c, "sign") /\ shMade < MaxShares
  /\ shMade' = shMade + 1
  /\ shExported' = shExported \cup
       {[id |-> shMade + 1, key |-> shCommands[c].pair.private,
         public |-> shCommands[c].pair.public, created |-> shNow]}
  /\ ShEnds(c)
  /\ ShServerKept /\ UNCHANGED shKeys

-----------------------------------------------------------------------------
(* share publish, share download: a request to the server *)

Ask(c, kind, b) ==
  /\ ShAt(c, "idle") /\ shPosts < MaxShPosts
  /\ shPosts' = shPosts + 1
  /\ \E r \in ShRequest :
       /\ shRequests[r].pc = "free"
       /\ shRequests' = [shRequests EXCEPT ![r] = [pc |-> kind, by |-> c, bundle |-> b]]
  /\ shCommands' = [shCommands EXCEPT ![c].pc = kind]
  /\ ShClientKept /\ UNCHANGED <<shStore, shBuckets, shPublished>>
Publish(c) == \E b \in shExported : Verifies(b) /\ Ask(c, "post", b)
Download(c) == \E i \in 1..shMade : Ask(c, "get", [NoBundle EXCEPT !.id = i])

\* The connection is lost or the command killed: the server goes on with what
\* it has received.
Hangup(c) ==
  /\ shDeaths < MaxShDeaths /\ ~ShAt(c, "idle")
  /\ shDeaths' = shDeaths + 1
  /\ ShEnds(c)
  /\ shRequests' = [r \in ShRequest |->
       IF shRequests[r].by # c THEN shRequests[r]
       ELSE IF shRequests[r].pc \in {"post", "get"} THEN NoRequest
       ELSE [shRequests[r] EXCEPT !.by = 0]]
  /\ UNCHANGED <<shSetup, shKeys, shExported, shStore, shBuckets, shNow, shMade, shPosts,
                 shPublished>>

-----------------------------------------------------------------------------
(* The server *)

ShAnswer(r) == shRequests' = [shRequests EXCEPT ![r] = NoRequest]
ShTold(r) == shCommands' =
  [c \in ShCommand |-> IF c = shRequests[r].by THEN NoCommand ELSE shCommands[c]]
ShNext(r, pc) == shRequests' = [shRequests EXCEPT ![r].pc = pc] /\ UNCHANGED shCommands

\* Who asks is let in and is within the rate.
Receive(r) ==
  /\ shRequests[r].pc \in {"post", "get"}
  /\ LET u == UserOf(shRequests[r].by)
         enters == shSetup.anonymous \/ u \in shSetup.authorized
         k == IF shSetup.anonymous THEN u ELSE "token"
         bucket == IF shNow - shBuckets[k].since >= RateWindow
                   THEN [since |-> shNow, count |-> 1]
                   ELSE [shBuckets[k] EXCEPT !.count = @ + 1]
     IN  /\ shBuckets' = (IF enters THEN [shBuckets EXCEPT ![k] = bucket] ELSE shBuckets)
         /\ IF ~enters \/ bucket.count > shSetup.maximum
            THEN ShAnswer(r) /\ ShTold(r)
            ELSE ShNext(r, IF shRequests[r].pc = "post" THEN "body" ELSE "read")
  /\ ShClientKept /\ UNCHANGED <<shStore, shPosts, shPublished>>

\* The body has come: it is signed, fresh, and by somebody who is trusted.
Validate(r) ==
  /\ shRequests[r].pc = "body"
  /\ LET b == shRequests[r].bundle IN
     IF Verifies(b) /\ ~ShareExpired(b) /\ b.key \in shSetup.trusted
     THEN ShNext(r, "exists")
     ELSE ShAnswer(r) /\ ShTold(r)
  /\ ShClientKept /\ UNCHANGED <<shStore, shBuckets, shPosts, shPublished>>

HeldFile(r) == shStore[shRequests[r].bundle.id].held
FileExists(r) ==
  /\ shRequests[r].pc = "exists"
  /\ IF HeldFile(r) # "nothing" THEN ShAnswer(r) /\ ShTold(r) ELSE ShNext(r, "open")
  /\ ShClientKept /\ UNCHANGED <<shStore, shBuckets, shPosts, shPublished>>

\* Mutant: the file that has come meanwhile is opened and cut.
OpenFileOver(r) ==
  /\ shRequests[r].pc = "open"
  /\ shStore' = [shStore EXCEPT ![shRequests[r].bundle.id].held = "half"]
  /\ ShNext(r, "fill")
  /\ ShClientKept /\ UNCHANGED <<shBuckets, shPosts, shPublished>>

\* Only a new file is opened (wx); else it is an error.
OpenFile(r) ==
  /\ shRequests[r].pc = "open"
  /\ IF HeldFile(r) # "nothing"
     THEN ShAnswer(r) /\ ShTold(r) /\ UNCHANGED shStore
     ELSE /\ shStore' = [shStore EXCEPT ![shRequests[r].bundle.id].held = "half"]
          /\ ShNext(r, "fill")
  /\ ShClientKept /\ UNCHANGED <<shBuckets, shPosts, shPublished>>

FillFile(r) ==
  /\ shRequests[r].pc = "fill"
  /\ LET b == shRequests[r].bundle IN
     /\ shStore' = [shStore EXCEPT ![b.id] = [held |-> "whole", bundle |-> b]]
     /\ shPublished' = shPublished \cup {b}
  /\ ShAnswer(r) /\ ShTold(r)
  /\ ShClientKept /\ UNCHANGED <<shBuckets, shPosts>>

\* What is not there, half written or expired is refused; the command verifies
\* what it is given.
ReadFile(r) ==
  /\ shRequests[r].pc = "read"
  /\ LET b == shStore[shRequests[r].bundle.id].bundle IN
     shCommands' = [c \in ShCommand |->
       IF c # shRequests[r].by THEN shCommands[c]
       ELSE IF HeldFile(r) # "whole" \/ ShareExpired(b) \/ ~Verifies(b) THEN NoCommand
       ELSE [NoCommand EXCEPT !.pc = "got", !.bundle = b]]
  /\ ShAnswer(r)
  /\ ShClientKept /\ UNCHANGED <<shStore, shBuckets, shPosts, shPublished>>
Got(c) ==
  /\ ShAt(c, "got")
  /\ shExported' = shExported \cup {shCommands[c].bundle}
  /\ ShEnds(c)
  /\ ShServerKept /\ UNCHANGED <<shKeys, shMade>>

\* The server is started again: requests and buckets are gone.
ServerDies ==
  /\ shDeaths < MaxShDeaths
  /\ shDeaths' = shDeaths + 1
  /\ shRequests' = [r \in ShRequest |-> NoRequest]
  /\ shBuckets' = NoBuckets
  /\ shCommands' = [c \in ShCommand |->
       IF shCommands[c].pc \in {"post", "get"} THEN NoCommand ELSE shCommands[c]]
  /\ UNCHANGED <<shSetup, shKeys, shExported, shStore, shNow, shMade, shPosts, shPublished>>

ShTick ==
  /\ shNow < MaxNow
  /\ shNow' = shNow + 1
  /\ UNCHANGED <<shSetup, shKeys, shCommands, shExported, shRequests, shStore, shBuckets,
                 shMade, shPosts, shDeaths, shPublished>>

SharesNext ==
  \/ \E c \in ShCommand :
       \/ Export(c) \/ Sign(c) \/ Publish(c) \/ Download(c) \/ Got(c) \/ Hangup(c)
       \/ \E file \in {"private", "public"} : ReadKey(c, file) \/ MakeKey(c, file) \/ FillKey(c, file)
  \/ \E r \in ShRequest : Receive(r) \/ Validate(r) \/ FileExists(r) \/ OpenFile(r) \/ FillFile(r) \/ ReadFile(r)
  \/ ServerDies \/ ShTick
SharesSpec == SharesInit /\ [][SharesNext]_shVars

-----------------------------------------------------------------------------
(* Properties *)

\* What somebody was told is published is kept, whole and as it was, whoever
\* publishes it again at the same time, gives up in the middle and tries once
\* more, and wherever the server dies.
PublishedIsKept ==
  \A b \in shPublished : shStore[b.id] = [held |-> "whole", bundle |-> b]

\* What is exported verifies, also when two commands make the user's first key
\* pair at once, unless one of them read the public key before it was written
\* (share.ts:155 looks for the private key only, and nothing verifies a bundle
\* before it is written).
ExportedVerifies == \A b \in shExported : Verifies(b) \/ b.public = HalfKey

SharesSound == PublishedIsKept /\ ExportedVerifies
=============================================================================
