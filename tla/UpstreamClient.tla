---------------------------- MODULE UpstreamClient ----------------------------
(***************************************************************************)
(* The HTTP client of one service instance, shared by every goroutine that   *)
(* talks to that instance: its breaker and, for a BookOrbit, the access      *)
(* token its callers share and mint anew when it ages out.                   *)
(*                                                                          *)
(* call gives each caller's place:                                          *)
(*   idle   not calling                                                     *)
(*   token  wants a bearer: about to take authMu in accessToken             *)
(*   mint   holds authMu, its login is on the wire                          *)
(*   send   has what it needs, about to ask the breaker                     *)
(*   wire   admitted, its exchange is on the wire                           *)
(* with the kind of call, the bearer it carries, the bearer a 401 refused,  *)
(* and whether the breaker admitted its exchange as a probe.                *)
(***************************************************************************)
EXTENDS Breaker

CONSTANTS
  Callers,    \* goroutines that use the client
  Prober,     \* the one of them that never stops: the health prober
  Families,   \* the clients: "bookorbit" signs in, "keyed" carries an API key
  MaxTokens,  \* access tokens told apart at a time
  None     \* the empty string

ASSUME ClientAssumption ==
  /\ Prober \in Callers
  /\ Families \subseteq {"bookorbit", "keyed"}
  /\ MaxTokens \in Nat \ {0} /\ None \notin 1..MaxTokens \cup Callers

VARIABLES
  family,     \* which client this is
  breaker,
  session,    \* the held access token, and whether the client's clock still trusts it
  accepted,   \* upstream: the access tokens it would accept
  authMu,     \* who holds the mutex, or None
  call,
  abandoned   \* history: the probe in flight ended and nobody reported it

clientVars == <<family, breaker, session, accepted, authMu, call, abandoned>>
------------------------------------------------------------------------------
KindsOf(f) == IF f = "bookorbit" THEN {"anonymous", "bearer"} ELSE {"document", "stream"}

NoCall == [at |-> "idle", kind |-> "none", bearer |-> None, refused |-> None, probe |-> FALSE]

NoSession == [token |-> None, usable |-> FALSE]

\* How a keyed client's exchange that reads one document ends, and the verdict it
\* reports: what never was an answer of the upstream is reported by nobody, an
\* answer below 500 is a success whatever became of its body.
DocumentVerdicts ==
  [unbuilt |-> "none", policy |-> "none", cancelled |-> "none",
   broken |-> "failure", fault |-> "failure", oversize |-> "success",
   unauthorized |-> "success", undecodable |-> "success", answered |-> "success"]

\* The same for one that streams a list: the consumer can also end it.
StreamVerdicts ==
  [o \in DOMAIN DocumentVerdicts \cup {"halted"} |->
     IF o = "halted" THEN "success" ELSE DocumentVerdicts[o]]

\* The same for one exchange with a BookOrbit, a login or a read.
ExchangeVerdicts == DocumentVerdicts

VerdictsOf(kind) == IF kind = "stream" THEN StreamVerdicts ELSE ExchangeVerdicts

\* The outcomes the upstream can give: behind the guard it answers 401 to the
\* bearers it does not accept, and to no other.
PossibleOutcomes(c) ==
  LET all == DOMAIN VerdictsOf(call[c].kind)
  IN IF call[c].kind # "bearer" THEN all
     ELSE IF call[c].bearer \in accepted THEN all \ {"unauthorized"}
     ELSE all \ {"answered", "undecodable", "oversize"}
------------------------------------------------------------------------------
\* The breaker is told of an outcome, or is not: c's exchange is over either way.
Concludes(c, verdict) ==
  /\ breaker' \in Reported(breaker, verdict)
  /\ abandoned' = (breaker'.probing /\ (abandoned \/ (call[c].probe /\ verdict = "none")))

\* The breaker admits c's exchange, which goes on the wire at the given place.
GoesOut(c, at) ==
  /\ Admits(breaker)
  /\ breaker' = Admitted(breaker)
  /\ call' = [call EXCEPT ![c].at = at, ![c].probe = breaker.state # "closed"]
  /\ UNCHANGED abandoned

\* The call returns to whoever made it.
Returns(c) == call' = [call EXCEPT ![c] = NoCall]

\* The tokens somebody still holds; what the upstream thinks of any other cannot
\* matter to anyone, so it is forgotten and its name is free for the next one.
Held == {session.token} \cup UNION {{call[c].bearer, call[c].refused} : c \in Callers}

Remembered == accepted' = accepted \cap Held'

NextToken(t) == t \notin Held /\ \A u \in 1..(t - 1) : u \in Held
------------------------------------------------------------------------------
ClientInit ==
  /\ family \in Families
  /\ breaker = NewBreaker
  /\ session = NoSession
  /\ accepted = {}
  /\ authMu = None
  /\ call = [c \in Callers |-> NoCall]
  /\ abandoned = FALSE

\* A read that carries no minted bearer: do and stream of the keyed clients,
\* BookOrbit's health probe.
CallKeyed(c) ==
  /\ call[c].at = "idle"
  /\ \E k \in KindsOf(family) \ {"bearer"} : call' = [call EXCEPT ![c].at = "send", ![c].kind = k]
  /\ UNCHANGED <<family, breaker, session, authMu, abandoned, accepted>>

\* doRaw of a route behind the guard: the bearer comes first.
CallWithBearer(c) ==
  /\ call[c].at = "idle" /\ "bearer" \in KindsOf(family)
  /\ call' = [call EXCEPT ![c].at = "token", ![c].kind = "bearer"]
  /\ UNCHANGED <<family, breaker, session, authMu, abandoned, accepted>>

\* accessToken, when the lock is had too late: the caller's context has ended.
GiveUp(c) ==
  /\ call[c].at = "token" /\ authMu = None
  /\ Returns(c)
  /\ UNCHANGED <<family, breaker, session, authMu, abandoned>>
  /\ Remembered

\* Without the stale token every 401 looks like an aged session.
HasTokenBlindly(c) == call[c].refused = None /\ session.usable

\* accessToken's switch: somebody re-minted after the same 401, or the session is
\* still good by the client's own clock.
HasToken(c) ==
  \/ call[c].refused # None /\ session.token # call[c].refused
  \/ call[c].refused = None /\ session.usable

TakeToken(c) ==
  /\ call[c].at = "token" /\ authMu = None
  /\ HasToken(c)
  /\ call' = [call EXCEPT ![c].at = "send", ![c].bearer = session.token]
  /\ UNCHANGED <<family, breaker, session, authMu, abandoned, accepted>>

\* mint, up to the wire: authMu stays held across it.
StartMint(c) ==
  /\ call[c].at = "token" /\ authMu = None
  /\ ~HasToken(c)
  /\ GoesOut(c, "mint")
  /\ authMu' = c
  /\ UNCHANGED <<family, session, accepted>>

\* mint, refused by the breaker: the session goes with it.
MintRefused(c) ==
  /\ call[c].at = "token" /\ authMu = None
  /\ ~HasToken(c)
  /\ ~Admits(breaker)
  /\ session' = NoSession
  /\ Returns(c)
  /\ UNCHANGED <<family, breaker, authMu, abandoned>>
  /\ Remembered

\* The login succeeds: a token the upstream accepts, and a session the caller's
\* clock trusts.
MintAnswered(c) ==
  /\ call[c].at = "mint"
  /\ Concludes(c, ExchangeVerdicts["answered"])
  /\ \E t \in 1..MaxTokens :
       /\ NextToken(t)
       /\ session' = [token |-> t, usable |-> TRUE]
       /\ call' = [call EXCEPT ![c].at = "send", ![c].bearer = t, ![c].probe = FALSE]
       /\ accepted' = (accepted \cap Held') \cup {t}
  /\ authMu' = None
  /\ UNCHANGED family

\* A failed login that returns past the unlock.
MintFailedLocked(c) ==
  /\ call[c].at = "mint"
  /\ \E o \in DOMAIN ExchangeVerdicts \ {"answered"} : Concludes(c, ExchangeVerdicts[o])
  /\ session' = NoSession
  /\ Returns(c)
  /\ UNCHANGED <<family, authMu>>
  /\ Remembered

\* The login ends any other way: the cached session is cleared and the call fails.
MintFailed(c) ==
  /\ call[c].at = "mint"
  /\ \E o \in DOMAIN ExchangeVerdicts \ {"answered"} : Concludes(c, ExchangeVerdicts[o])
  /\ session' = NoSession
  /\ authMu' = None
  /\ Returns(c)
  /\ UNCHANGED family
  /\ Remembered

\* Allow, for the exchange itself.
Send(c) ==
  /\ call[c].at = "send"
  /\ GoesOut(c, "wire")
  /\ UNCHANGED <<family, session, authMu, accepted>>

SendRefused(c) ==
  /\ call[c].at = "send"
  /\ ~Admits(breaker)
  /\ Returns(c)
  /\ UNCHANGED <<family, breaker, session, authMu, abandoned>>
  /\ Remembered

\* The exchange ends. The first 401 on a bearer asks for another one; everything
\* else is the call's answer.
ExchangeEnds(c) ==
  /\ call[c].at = "wire"
  /\ \E o \in PossibleOutcomes(c) :
       /\ Concludes(c, VerdictsOf(call[c].kind)[o])
       /\ IF /\ o = "unauthorized" /\ call[c].kind = "bearer"
             /\ call[c].bearer # None /\ call[c].refused = None
          THEN call' = [call EXCEPT ![c].at = "token", ![c].refused = call[c].bearer,
                                    ![c].bearer = None, ![c].probe = FALSE]
          ELSE Returns(c)
  /\ UNCHANGED <<family, session, authMu>>
  /\ Remembered

\* The clock the client trusts a session by: within refreshSkew of its expiry it
\* is no longer usable, whatever the upstream would say.
SessionAges ==
  /\ session.usable
  /\ session' = [session EXCEPT !.usable = FALSE]
  /\ UNCHANGED <<family, breaker, accepted, authMu, call, abandoned>>

\* The upstream stops accepting a token: it expired, or its account was changed.
UpstreamForgets ==
  /\ \E t \in accepted : accepted' = accepted \ {t}
  /\ UNCHANGED <<family, breaker, session, authMu, call, abandoned>>

Tick ==
  /\ breaker.wait > 0
  /\ breaker' = Waited(breaker)
  /\ UNCHANGED <<family, session, accepted, authMu, call, abandoned>>

ClientNext ==
  \/ \E c \in Callers :
       \/ CallKeyed(c) \/ CallWithBearer(c)
       \/ GiveUp(c) \/ TakeToken(c) \/ StartMint(c) \/ MintRefused(c)
       \/ MintAnswered(c) \/ MintFailed(c)
       \/ Send(c) \/ SendRefused(c) \/ ExchangeEnds(c)
  \/ SessionAges \/ UpstreamForgets \/ Tick

\* Go's mutex is fair, every exchange is bounded by the deadline doRaw and stream
\* put on it, time passes, and the prober of the instance is never done.
ClientFairness ==
  /\ WF_clientVars(Tick)
  /\ \A c \in Callers :
       /\ WF_clientVars(MintAnswered(c) \/ MintFailed(c))
       /\ WF_clientVars(Send(c) \/ SendRefused(c))
       /\ WF_clientVars(ExchangeEnds(c))
       /\ SF_clientVars(GiveUp(c) \/ TakeToken(c) \/ StartMint(c) \/ MintRefused(c))
  /\ SF_clientVars(CallKeyed(Prober))

ClientSpec == ClientInit /\ [][ClientNext]_clientVars /\ ClientFairness
------------------------------------------------------------------------------

Outstanding(c) == call[c].at \in {"mint", "wire"}

\* While the breaker refuses everybody because a probe is in flight, there is such
\* a probe: an exchange it admitted after its cooldown is still on the wire, or one
\* ended without anything said of the upstream (the client's cancelled and refused
\* requests). Nothing else may hold an instance shut.
ProbeAccounted ==
  breaker.probing => abandoned \/ \E c \in Callers : Outstanding(c) /\ call[c].probe

\* A login replaces a session only if that session was no good: none, aged by the
\* client's clock, or a token the upstream no longer takes. Concurrent 401s on one
\* token must share one login, which the upstream throttles.
NoNeedlessMint ==
  [][(session' # session /\ session'.usable)
       => session.token = None \/ ~session.usable \/ session.token \notin accepted]_clientVars

\* Every call comes back to its caller: nobody waits for ever on the mutex, on a
\* login somebody else is making, or on the breaker.
CallsEnd == \A c \in Callers : (call[c].at # "idle") ~> (call[c].at = "idle")

\* An open breaker is asked again: late failures of calls admitted before the trip
\* may prolong it, and the prober then finds the cooldown over.
OpenIsRetried == (breaker.state = "open") ~> (breaker.state # "open")
==============================================================================
