------------------------------- MODULE SignIn -------------------------------
(***************************************************************************)
(* "auth login": what the provider's document says (discovery.ts), then a  *)
(* code by the browser, which calls back on a port of this machine, or by  *)
(* polling for a device the user lets in elsewhere, and the tokens for it  *)
(* (oauth.ts).  Logins of several processes may use one port; the browser  *)
(* keeps the page of a login that has given up.  What is stored is         *)
(* Credentials' matter.                                                    *)
(*                                                                         *)
(* A time is what is left of it; a unit is the five seconds between polls. *)
(***************************************************************************)
EXTENDS Naturals

CONSTANTS SiLogin,
          SiCase,    \* functions from logins to [kind, port, secret, discovered, methods]
          MaxSlow, MaxStray  \* bounds: how often the provider slows a login down, stray requests

ASSUME SignInAssumption ==
  /\ SiCase \subseteq [SiLogin -> [kind : {"web", "device"}, port : Nat, secret : BOOLEAN,
                                  discovered : BOOLEAN, methods : SUBSET STRING]]
  /\ MaxSlow \in Nat

VARIABLES
  siCase,
  siLogins,    \* each login: [pc, method, settled, left, wake, interval, stage]
  siRedirects, \* what browsers are about to ask the callback ports: [port, state, says]
  siAsked,     \* logins whose page is open in a browser
  siProvider,  \* external: [demand, since, gap, slowed] of each login's device code
  siStray

siVars == <<siCase, siLogins, siRedirects, siAsked, siProvider, siStray>>

Patience == 2     \* how long a login waits for the browser
DeviceLife == 3   \* how long a device code lives
Longest == MaxSlow + 1
NobodysState == "none"
NewLogin == [pc |-> "start", method |-> "none", settled |-> NobodysState, left |-> 0, wake |-> 0,
             interval |-> 1, stage |-> "none"]

SignInInit ==
  /\ siCase \in SiCase
  /\ siLogins = [l \in SiLogin |-> NewLogin]
  /\ siRedirects = {} /\ siAsked = {} /\ siStray = 0
  /\ siProvider = [l \in SiLogin |-> [demand |-> 1, since |-> Longest, gap |-> Longest, slowed |-> 0]]

SiAt(l, pc) == siLogins[l].pc = pc
SiGoto(l, pc) == siLogins' = [siLogins EXCEPT ![l].pc = pc]
SiFails(l) == siLogins' = [siLogins EXCEPT ![l] = [NewLogin EXCEPT !.pc = "failed"]]
SignedIn(l) == siLogins' = [siLogins EXCEPT ![l] = [NewLogin EXCEPT !.pc = "signedIn"]]
LoginOver(l) == siLogins[l].pc \in {"failed", "signedIn"}
SiRest == UNCHANGED <<siCase, siRedirects, siAsked, siProvider, siStray>>

\* A request to the provider: the head of its answer, then the body.
Requests(l, pc) == siLogins' = [siLogins EXCEPT ![l].pc = pc, ![l].stage = "head"]
Requesting(l) == siLogins[l].stage # "none"

-----------------------------------------------------------------------------
(* The profile *)

\* clientAuthentication, and selectAuthMethod if the provider's document was read.
Preset(l) == ~siCase[l].discovered
Methods(l) ==
  LET secret == siCase[l].secret
      listed == siCase[l].methods
  IN  IF Preset(l) THEN {IF secret THEN "post" ELSE "none"}
      ELSE IF secret /\ "basic" \in listed THEN {"basic"}
      ELSE IF secret /\ (listed = {} \/ "post" \in listed) THEN {"post"}
      ELSE IF listed = {} \/ "none" \in listed THEN {"none"}
      ELSE {}
Discover(l) ==
  /\ SiAt(l, "start")
  /\ IF Preset(l) THEN SiGoto(l, "profile") ELSE Requests(l, "discover")
  /\ SiRest
Profile(l) ==
  /\ SiAt(l, "profile")
  /\ IF Methods(l) = {} THEN SiFails(l)
     ELSE \E method \in Methods(l) :
            siLogins' = [siLogins EXCEPT ![l].method = method,
              ![l].pc = IF siCase[l].kind = "device" THEN "authorize" ELSE "listen"]
  /\ SiRest

-----------------------------------------------------------------------------
(* By the browser *)

Listening(l) == siLogins[l].pc \in {"opening", "waiting"}
PortTaken(l) == \E k \in SiLogin \ {l} : Listening(k) /\ siCase[k].port = siCase[l].port

Listen(l) ==
  /\ SiAt(l, "listen")
  /\ IF PortTaken(l) THEN SiFails(l)
     ELSE siLogins' = [siLogins EXCEPT ![l].pc = "opening", ![l].left = Patience]
  /\ SiRest
OpenBrowser(l) ==
  /\ SiAt(l, "opening")
  /\ \/ SiGoto(l, "waiting") /\ siAsked' = siAsked \cup {l}
     \/ SiFails(l) /\ UNCHANGED siAsked
  /\ UNCHANGED <<siCase, siRedirects, siProvider, siStray>>

\* The user agrees or not, however late; something else asks the port too.
Consents(l) ==
  /\ l \in siAsked
  /\ siAsked' = siAsked \ {l}
  /\ \E says \in {"code", "error"} :
       siRedirects' = siRedirects \cup {[port |-> siCase[l].port, state |-> l, says |-> says]}
  /\ UNCHANGED <<siCase, siLogins, siProvider, siStray>>
Strays ==
  /\ siStray < MaxStray
  /\ siStray' = siStray + 1
  /\ \E l \in SiLogin, says \in {"code", "nothing"} :
       siRedirects' = siRedirects \cup {[port |-> siCase[l].port, state |-> NobodysState, says |-> says]}
  /\ UNCHANGED <<siCase, siLogins, siAsked, siProvider>>

\* Mutant: whatever carries a code is taken for the answer.
AcceptsAnyCode(l, r) == r.says = "code"

\* Only what carries this login's state is.
Accepts(l, r) == r.says = "code" /\ r.state = l

\* The first callback settles it.  A bad one that comes before the browser has
\* started rejects a promise that nobody awaits yet: that ends the process too.
Callback(r) ==
  /\ r \in siRedirects
  /\ siRedirects' = siRedirects \ {r}
  /\ \/ /\ \A l \in SiLogin : Listening(l) => siCase[l].port # r.port
        /\ UNCHANGED siLogins
     \/ \E l \in SiLogin :
          /\ Listening(l) /\ siCase[l].port = r.port
          /\ IF siLogins[l].settled # NobodysState THEN UNCHANGED siLogins
             ELSE IF Accepts(l, r)
             THEN siLogins' = [siLogins EXCEPT ![l].settled = r.state]
             ELSE SiFails(l)
  /\ UNCHANGED <<siCase, siAsked, siProvider, siStray>>

Exchange(l) ==
  /\ SiAt(l, "waiting") /\ siLogins[l].settled # NobodysState
  /\ Requests(l, "exchange")
  /\ SiRest
CallbackTimesOut(l) ==
  /\ SiAt(l, "waiting") /\ siLogins[l].settled = NobodysState /\ siLogins[l].left = 0
  /\ SiFails(l)
  /\ SiRest

-----------------------------------------------------------------------------
(* By a device code *)

Authorize(l) == SiAt(l, "authorize") /\ Requests(l, "authorizing") /\ SiRest

\* Sleeps once more unless the code has expired by then.
SleepsOn(l, left, interval) ==
  IF left = 0 THEN SiFails(l)
  ELSE siLogins' = [siLogins EXCEPT ![l].pc = "sleep", ![l].stage = "none",
         ![l].left = left, ![l].interval = interval, ![l].wake = interval]
Poll(l) ==
  /\ SiAt(l, "sleep") /\ siLogins[l].wake = 0
  /\ Requests(l, "poll")
  /\ siProvider' = [siProvider EXCEPT ![l].gap = siProvider[l].since, ![l].since = 0]
  /\ UNCHANGED <<siCase, siRedirects, siAsked, siStray>>

-----------------------------------------------------------------------------
(* The provider *)

HeadArrives(l) ==
  /\ siLogins[l].stage = "head"
  /\ siLogins' = [siLogins EXCEPT ![l].stage = "body"]
  /\ SiRest
ProviderRefuses(l) == siLogins[l].stage # "none" /\ SiFails(l) /\ SiRest

\* A code is worth something with the verifier of its own request.
ProviderAnswers(l) ==
  /\ siLogins[l].stage = "body"
  /\ \/ /\ SiAt(l, "discover")
        /\ siLogins' = [siLogins EXCEPT ![l].pc = "profile", ![l].stage = "none"]
     \/ SiAt(l, "authorizing") /\ SleepsOn(l, DeviceLife, 1)
     \/ SiAt(l, "exchange") /\ siLogins[l].settled = l /\ SignedIn(l)
     \/ SiAt(l, "poll") /\ SignedIn(l)
  /\ SiRest
StillPending(l) ==
  /\ SiAt(l, "poll") /\ siLogins[l].stage = "body"
  /\ SleepsOn(l, siLogins[l].left, siLogins[l].interval)
  /\ SiRest
SlowDown(l) ==
  /\ SiAt(l, "poll") /\ siLogins[l].stage = "body" /\ siProvider[l].slowed < MaxSlow
  /\ siProvider' = [siProvider EXCEPT ![l].demand = @ + 1, ![l].slowed = @ + 1]
  /\ SleepsOn(l, siLogins[l].left, siLogins[l].interval + 1)
  /\ UNCHANGED <<siCase, siRedirects, siAsked, siStray>>

\* Mutant: the timer is stopped when the head has come.
RequestTimesOutAtHead(l) == siLogins[l].stage = "head" /\ SiFails(l) /\ SiRest

\* The timer runs until the body has been read.
RequestTimesOut(l) == Requesting(l) /\ SiFails(l) /\ SiRest

-----------------------------------------------------------------------------
OneLess(n) == IF n = 0 THEN 0 ELSE n - 1
SiTick ==
  /\ siLogins' = [l \in SiLogin |->
       [siLogins[l] EXCEPT !.left = OneLess(@), !.wake = OneLess(@)]]
  /\ siProvider' = [l \in SiLogin |->
       [siProvider[l] EXCEPT !.since = IF @ = Longest THEN @ ELSE @ + 1]]
  /\ UNCHANGED <<siCase, siRedirects, siAsked, siStray>>

LoginProceeds(l) ==
  \/ Discover(l) \/ Profile(l) \/ Listen(l) \/ OpenBrowser(l) \/ Exchange(l) \/ CallbackTimesOut(l)
  \/ Authorize(l) \/ Poll(l) \/ RequestTimesOut(l)
SignInNext ==
  \/ \E l \in SiLogin :
       \/ LoginProceeds(l) \/ Consents(l) \/ HeadArrives(l) \/ ProviderRefuses(l) \/ ProviderAnswers(l)
       \/ StillPending(l) \/ SlowDown(l)
  \/ \E r \in siRedirects : Callback(r)
  \/ Strays \/ SiTick
\* The login's own steps and timers; nothing is assumed of provider and browser.
SignInSpec ==
  /\ SignInInit /\ [][SignInNext]_siVars
  /\ WF_siVars(SiTick) /\ \A l \in SiLogin : WF_siVars(LoginProceeds(l))

-----------------------------------------------------------------------------
(* Properties *)

\* Whatever other logins, pages left open and strays call back on the port, a
\* login exchanges the code that answers its own request (oauth.ts:426); it
\* polls no sooner than the provider last asked for (oauth.ts:135); and it
\* authenticates the way the provider's document lists, if that lists any.
SignInSound ==
  \A l \in SiLogin :
    /\ SiAt(l, "exchange") => siLogins[l].settled = l
    /\ SiAt(l, "poll") => siProvider[l].gap >= siProvider[l].demand
    /\ /\ siLogins[l].pc \in {"exchange", "poll"}
       /\ siCase[l].discovered /\ siCase[l].methods # {}
       => siLogins[l].method \in siCase[l].methods

\* A login that has begun ends, however long the user, the browser and the provider take
\* (oauth.ts:195 bounds every request so that a stalled one cannot hang it).
SignInEnds == []<>\A l \in SiLogin : SiAt(l, "start") \/ LoginOver(l)
=============================================================================
