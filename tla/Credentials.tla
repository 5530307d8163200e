------------------------------ MODULE Credentials ------------------------------
(***************************************************************************)
(* The encrypted credential file of packages/auth and the jobs that use it *)
(* (login, logout, and the access token provider of a model client).  A    *)
(* set or a delete loads the whole database, changes one entry and renames *)
(* a temporary file named after the process over the database; nothing is  *)
(* locked.  An identity provider may rotate the refresh token: it then     *)
(* accepts only the new one.                                               *)
(***************************************************************************)
EXTENDS Naturals

CONSTANTS CredJob,       \* concurrent users of the store: commands, agents, sub-agents
          CredProcess,   \* the processes they run in: one names its temporary file
          Placements,    \* where the jobs may run: functions from jobs to processes
          Account,       \* provider:account keys of the database
          NoFile,        \* a temporary file that does not exist
          MaxTokens,     \* bound on the refresh tokens an account is ever given
          MaxCredDeaths  \* bound on the processes killed

ASSUME CredentialAssumption ==
  /\ Placements \subseteq [CredJob -> CredProcess]
  /\ NoFile \notin [Account -> Nat]

VARIABLES idp,         \* external: [rotates, valid, revoked, issued, expired] of each account
          credFile,    \* the database: each account's refresh token, 0 when it has none
          credTemp,    \* the temporary file of each process
          cred,        \* each job: [pc, account, process, held, db]
          credCrossed, \* history: a job loaded the database while another one's save was open
          credLost,    \* history: accounts of jobs killed, or failed, holding a new token
          credDeaths

credVars == <<idp, credFile, credTemp, cred, credCrossed, credLost, credDeaths>>

EmptyDb == [a \in Account |-> 0]
IdleJob(a, p) == [pc |-> "idle", account |-> a, process |-> p, held |-> 0, db |-> EmptyDb]
NewAccount(rotates) ==
  [rotates |-> rotates, valid |-> {}, revoked |-> {}, issued |-> 0, expired |-> 0]

CredInit ==
  /\ \E rotates \in BOOLEAN : idp = [a \in Account |-> NewAccount(rotates)]
  /\ credFile = EmptyDb
  /\ credTemp = [p \in CredProcess |-> NoFile]
  /\ \E place \in Placements, of \in [CredJob -> Account] :
       cred = [j \in CredJob |-> IdleJob(of[j], place[j])]
  /\ credCrossed = FALSE
  /\ credLost = {}
  /\ credDeaths = 0

To(j, pc) == cred' = [cred EXCEPT ![j].pc = pc]
Mine(j) == cred[j].account
CredPid(j) == cred[j].process
Ended(j) == IdleJob(Mine(j), CredPid(j))
Ends(j) == cred' = [cred EXCEPT ![j] = Ended(j)]
KeepHistory == UNCHANGED <<credCrossed, credLost, credDeaths>>

(* The provider hands out a refresh token: by an authorization code, a     *)
(* device code, or a refresh, which retires the token it was made with.    *)
Grant(a, retired) ==
  /\ idp[a].issued < MaxTokens
  /\ idp' = [idp EXCEPT ![a].valid = (@ \ retired) \cup {idp[a].issued + 1},
                        ![a].issued = @ + 1]

(* "auth login": the loopback callback or the device polling ends with a   *)
(* token, or with an error (denied, expired, timed out) that ends the job. *)
LoginGranted(j) ==
  /\ cred[j].pc = "idle"
  /\ Grant(Mine(j), {})
  /\ cred' = [cred EXCEPT ![j].pc = "set", ![j].held = idp[Mine(j)].issued + 1]
  /\ UNCHANGED <<credFile, credTemp>> /\ KeepHistory

(* The access token provider of a model client reads the credential; an    *)
(* access token about to expire is refreshed.  With no credential it throws*)
NeedsRefresh(a, token) == token <= idp[a].expired
GetCredential(j) ==
  LET token == credFile[Mine(j)] IN
  /\ cred[j].pc = "idle" /\ token # 0 /\ NeedsRefresh(Mine(j), token)
  /\ cred' = [cred EXCEPT ![j].pc = "refresh", ![j].held = token]
  /\ UNCHANGED <<idp, credFile, credTemp>> /\ KeepHistory

(* The answer of the token endpoint: a new refresh token, or none, and the *)
(* old one is kept.                                                        *)
RefreshedForgets(old, rotated) == old
Refreshed(old, rotated) == IF rotated # 0 THEN rotated ELSE old

RefreshToken(j) ==
  LET a == Mine(j) IN
  /\ cred[j].pc = "refresh" /\ cred[j].held \in idp[a].valid
  /\ \/ /\ idp[a].rotates
        /\ Grant(a, {cred[j].held})
        /\ cred' = [cred EXCEPT ![j].pc = "set",
                                ![j].held = Refreshed(@, idp[a].issued + 1)]
     \/ /\ ~idp[a].rotates
        /\ cred' = [cred EXCEPT ![j].pc = "set", ![j].held = Refreshed(@, 0)]
        /\ idp' = [idp EXCEPT ![a].expired = 0]
  /\ UNCHANGED <<credFile, credTemp>> /\ KeepHistory

(* A retired or revoked token is refused: the request throws, and with it  *)
(* the model call.                                                         *)
RefreshRefused(j) ==
  /\ cred[j].pc = "refresh" /\ cred[j].held \notin idp[Mine(j)].valid
  /\ Ends(j)
  /\ UNCHANGED <<idp, credFile, credTemp>> /\ KeepHistory

Saving(j) == cred[j].pc \in {"loaded", "written"}

(* The database as set or delete is about to save it.                      *)
LoadCredentials(j) ==
  /\ cred[j].pc = "set"
  /\ cred' = [cred EXCEPT ![j].pc = "loaded",
                          ![j].held = 0,
                          ![j].db = [credFile EXCEPT ![Mine(j)] = cred[j].held]]
  /\ credCrossed' = (credCrossed \/ \E k \in CredJob \ {j} : Saving(k))
  /\ UNCHANGED <<idp, credFile, credTemp, credLost, credDeaths>>

(* "auth logout", with or without --revoke: the token is revoked first, a  *)
(* failure of that keeps the credential; then the entry is deleted.        *)
Logout(j) ==
  /\ cred[j].pc = "idle" /\ credFile[Mine(j)] # 0
  /\ \/ UNCHANGED idp
     \/ idp' = [idp EXCEPT ![Mine(j)].valid = @ \ {credFile[Mine(j)]},
                           ![Mine(j)].revoked = @ \cup {credFile[Mine(j)]}]
  /\ cred' = [cred EXCEPT ![j].pc = "set", ![j].held = 0]
  /\ UNCHANGED <<credFile, credTemp>> /\ KeepHistory

WriteTemporary(j) ==
  /\ cred[j].pc = "loaded"
  /\ credTemp' = [credTemp EXCEPT ![CredPid(j)] = cred[j].db]
  /\ To(j, "written")
  /\ UNCHANGED <<idp, credFile>> /\ KeepHistory

(* rename fails when another job of this process has renamed the file away.*)
RenameTemporary(j) ==
  LET content == credTemp[CredPid(j)] IN
  /\ cred[j].pc = "written"
  /\ IF content # NoFile
       THEN credFile' = content /\ UNCHANGED credLost
       ELSE credLost' = credLost \cup {Mine(j)} /\ UNCHANGED credFile
  /\ credTemp' = [credTemp EXCEPT ![CredPid(j)] = NoFile]
  /\ Ends(j)
  /\ UNCHANGED <<idp, credCrossed, credDeaths>>

(* Access tokens expire with time.                                         *)
ExpireAccess(a) ==
  /\ idp[a].expired < idp[a].issued
  /\ idp' = [idp EXCEPT ![a].expired = idp[a].issued]
  /\ UNCHANGED <<credFile, credTemp, cred>> /\ KeepHistory

(* A process is killed: its jobs end where they are.                       *)
KillProcess(p) ==
  LET dead == {j \in CredJob : CredPid(j) = p} IN
  /\ credDeaths < MaxCredDeaths /\ \E j \in dead : cred[j].pc # "idle"
  /\ credDeaths' = credDeaths + 1
  /\ credLost' = credLost \cup {Mine(j) : j \in {k \in dead : cred[k].pc # "idle"}}
  /\ cred' = [j \in CredJob |-> IF j \in dead THEN Ended(j) ELSE cred[j]]
  /\ UNCHANGED <<idp, credFile, credTemp, credCrossed>>

CredNext ==
  \/ \E j \in CredJob : LoginGranted(j) \/ GetCredential(j) \/ RefreshToken(j)
                        \/ RefreshRefused(j) \/ LoadCredentials(j) \/ Logout(j)
                        \/ WriteTemporary(j) \/ RenameTemporary(j)
  \/ \E a \in Account : ExpireAccess(a)
  \/ \E p \in CredProcess : KillProcess(p)
CredSpec == CredInit /\ [][CredNext]_credVars

(* When no two saves crossed, and no job was killed or failed with a new   *)
(* token in hand, then an account no job is working on has either no       *)
(* credential or a refresh token its provider still accepts, unless the    *)
(* user revoked it (a logout crossed a refresh).  So only a crossed save or*)
(* a crash sends a user back to "auth login", whether the provider rotates *)
(* its refresh tokens or sends none with a refresh.                        *)
StoredTokenUsable ==
  ~credCrossed =>
    \A a \in Account \ credLost :
      (\A j \in CredJob : Mine(j) = a => cred[j].pc = "idle")
        => credFile[a] \in idp[a].valid \cup idp[a].revoked \cup {0}
=============================================================================
