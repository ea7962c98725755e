---------------------------- MODULE ServiceProofs ----------------------------
(****************************************************************************)
(* What a service instance is reached with: the client its callers share, and *)
(* the envelope its key is kept in.                                          *)
(****************************************************************************)
EXTENDS UpstreamClient, Credentials, FiniteSetTheorems, TLAPS
------------------------------------------------------------------------------
(****************************************************************************)
(* The breaker's probe and the shared session, for any number of callers,    *)
(* thresholds, cooldowns and tokens.                                         *)
(****************************************************************************)

Verdicts == {"success", "failure", "none"}

Shaped == [state : BreakerStates, failures : Nat, openings : Nat, wait : Int, probing : BOOLEAN]

\* Only a half-open breaker has a probe out.
BreakerInv ==
  /\ breaker \in Shaped
  /\ breaker.probing => breaker.state = "half-open"

Tokens == (1..MaxTokens) \cup {None}

Calls == [at : {"idle", "token", "mint", "send", "wire"},
          kind : {"none", "anonymous", "bearer", "document", "stream"},
          bearer : Tokens, refused : Tokens, probe : BOOLEAN]

\* The mutex is held by whoever mints, over a session that is no good; and a token that
\* was refused is not accepted again.
MintInv ==
  /\ call \in [Callers -> Calls]
  /\ session \in [token : Tokens, usable : BOOLEAN]
  /\ \A c \in Callers :
       /\ call[c].refused # None => call[c].refused \notin accepted
       /\ call[c].at = "mint" =>
            /\ authMu = c
            /\ session.token = None \/ ~session.usable \/ session.token \notin accepted

ClientInv == BreakerInv /\ ProbeAccounted /\ MintInv

-------------------------------------------------------------------------------
(* The breaker.                                                               *)

\* Every way an exchange can end has a verdict.
LEMMA VerdictsKnown ==
  ASSUME NEW kind, NEW o \in DOMAIN VerdictsOf(kind)
  PROVE  VerdictsOf(kind)[o] \in Verdicts
<1>1. \A x \in DOMAIN DocumentVerdicts : DocumentVerdicts[x] \in Verdicts
  BY DEF DocumentVerdicts, Verdicts
<1>2. \A x \in DOMAIN StreamVerdicts : StreamVerdicts[x] \in Verdicts
  BY <1>1 DEF StreamVerdicts, Verdicts
<1> QED
  BY <1>1, <1>2 DEF VerdictsOf, ExchangeVerdicts

\* A breaker that trips is open, and keeps the probe it has out.
LEMMA TrippedOpen ==
  ASSUME NEW b \in Shaped,
         NEW t \in Tripped(b)
  PROVE  t \in Shaped /\ t.state = "open" /\ t.probing = b.probing
<1> DEFINE opened == Min({b.openings + 1, Saturation})
<1>1. opened \in Nat
  <2>1. b.openings + 1 \in Nat /\ Saturation \in Nat
    BY BreakerAssumption DEF Shaped
  <2>2. \E x \in {b.openings + 1, Saturation} : \A y \in {b.openings + 1, Saturation} : x <= y
    BY <2>1
  <2>3. opened \in {b.openings + 1, Saturation}
    BY <2>2 DEF Min
  <2> QED
    BY <2>1, <2>3
<1>2. PICK w \in Cooldowns(opened) :
        t = [b EXCEPT !.state = "open", !.failures = 0, !.openings = opened, !.wait = w]
  BY DEF Tripped
<1>3. w \in Int
  BY DEF Cooldowns
<1> HIDE DEF opened
<1> QED
  BY <1>1, <1>2, <1>3 DEF Shaped, BreakerStates

\* A new breaker has no probe out.
LEMMA NewBreakerTyped ==
  /\ NewBreaker \in Shaped
  /\ NewBreaker.probing = FALSE
BY DEF NewBreaker, Shaped, BreakerStates

\* A report ends the probe; without one the breaker is as it was.
LEMMA ReportedBreaker ==
  ASSUME BreakerInv, NEW verdict \in Verdicts, breaker' \in Reported(breaker, verdict)
  PROVE  /\ BreakerInv'
         /\ verdict = "none" => breaker' = breaker
         /\ verdict # "none" => ~breaker'.probing
<1>1. CASE verdict = "success"
  <2>1. breaker' = NewBreaker
    BY <1>1 DEF Reported, Succeeded
  <2> QED
    BY <1>1, <2>1, NewBreakerTyped DEF BreakerInv
<1>2. CASE verdict = "failure"
  <2> DEFINE heard == [breaker EXCEPT !.probing = FALSE]
  <2>1. /\ heard \in Shaped
        /\ heard.probing = FALSE
    BY DEF BreakerInv, Shaped
  <2>2. breaker' \in Tripped(heard) \cup {[heard EXCEPT !.failures = @ + 1]}
    BY <1>2 DEF Reported, Failed
  <2> HIDE DEF heard
  <2>3. CASE breaker' \in Tripped(heard)
    BY <1>2, <2>1, <2>3, TrippedOpen DEF BreakerInv
  <2>4. CASE breaker' = [heard EXCEPT !.failures = @ + 1]
    BY <1>2, <2>1, <2>4 DEF BreakerInv, Shaped
  <2> QED
    BY <2>2, <2>3, <2>4
<1>3. CASE verdict = "none"
  <2>1. breaker' = breaker
    BY <1>3 DEF Reported
  <2> QED
    BY <1>3, <2>1 DEF BreakerInv
<1> QED
  BY <1>1, <1>2, <1>3 DEF Verdicts

\* An exchange ends, and its caller goes anywhere.
LEMMA ConcludeKeeps ==
  ASSUME BreakerInv, ProbeAccounted, NEW c \in Callers, NEW verdict \in Verdicts,
         Concludes(c, verdict), \A d \in Callers \ {c} : call'[d] = call[d]
  PROVE  BreakerInv' /\ ProbeAccounted'
<1>1. /\ BreakerInv'
      /\ verdict = "none" => breaker' = breaker
      /\ verdict # "none" => ~breaker'.probing
  BY ReportedBreaker DEF Concludes
<1>2. abandoned' = (breaker'.probing /\ (abandoned \/ (call[c].probe /\ verdict = "none")))
  BY DEF Concludes
<1>3. ProbeAccounted'
  BY <1>1, <1>2 DEF ProbeAccounted, Outstanding
<1> QED
  BY <1>1, <1>3

\* An exchange goes out, from a place where its caller had none.
LEMMA GoOutKeeps ==
  ASSUME BreakerInv, ProbeAccounted, MintInv, NEW c \in Callers, NEW at \in {"mint", "wire"},
         GoesOut(c, at), ~Outstanding(c)
  PROVE  BreakerInv' /\ ProbeAccounted'
<1>1. /\ breaker' = Admitted(breaker) /\ abandoned' = abandoned
      /\ call' = [call EXCEPT ![c].at = at, ![c].probe = breaker.state # "closed"]
  BY DEF GoesOut
<1>2. /\ \A d \in Callers \ {c} : call'[d] = call[d]
      /\ call'[c].at = at /\ call'[c].probe = (breaker.state # "closed")
  BY <1>1 DEF MintInv, Calls
<1>3. CASE breaker.state = "closed"
  <2>1. breaker' = breaker /\ ~breaker.probing
    BY <1>1, <1>3 DEF Admitted, BreakerInv
  <2> QED
    BY <2>1 DEF BreakerInv, ProbeAccounted
<1>4. CASE breaker.state # "closed"
  <2>1. breaker' = [breaker EXCEPT !.state = "half-open", !.probing = TRUE]
    BY <1>1, <1>4 DEF Admitted
  <2>2. BreakerInv'
    BY <2>1 DEF BreakerInv, Shaped, BreakerStates
  <2>3. Outstanding(c)' /\ call'[c].probe
    BY <1>2, <1>4 DEF Outstanding
  <2> QED
    BY <2>2, <2>3 DEF ProbeAccounted
<1> QED
  BY <1>3, <1>4

\* A caller that has nothing out moves, and the breaker stays.
LEMMA MoveKeeps ==
  ASSUME BreakerInv, ProbeAccounted, NEW c \in Callers, ~Outstanding(c),
         UNCHANGED <<breaker, abandoned>>, \A d \in Callers \ {c} : call'[d] = call[d]
  PROVE  BreakerInv' /\ ProbeAccounted'
<1>1. BreakerInv'
  BY DEF BreakerInv
<1>2. ProbeAccounted'
  BY DEF ProbeAccounted, Outstanding
<1> QED
  BY <1>1, <1>2

-------------------------------------------------------------------------------
(* The session.                                                               *)

\* A step that leaves the session as it is, accepts no new token, and takes c to a place
\* where it neither mints nor holds a refused token that is accepted.
LEMMA CallKeeps ==
  ASSUME MintInv, NEW c \in Callers, NEW h \in Calls, call' = [call EXCEPT ![c] = h],
         accepted' \subseteq accepted, UNCHANGED session,
         h.refused # None => h.refused \notin accepted,
         h.at # "mint",
         \A d \in Callers \ {c} : authMu = d => authMu' = d
  PROVE  MintInv'
<1>1. call' \in [Callers -> Calls] /\ call'[c] = h /\ \A d \in Callers \ {c} : call'[d] = call[d]
  BY DEF MintInv
<1> QED
  BY <1>1 DEF MintInv

\* A step after which no session is held, with nobody else minting.
LEMMA ClearKeeps ==
  ASSUME MintInv, NEW c \in Callers, Returns(c), session' = NoSession,
         accepted' \subseteq accepted, \A d \in Callers \ {c} : authMu # d
  PROVE  MintInv'
<1>1. NoCall \in Calls /\ NoSession \in [token : Tokens, usable : BOOLEAN]
  BY DEF NoCall, Calls, NoSession, Tokens
<1>2. NoCall.at = "idle" /\ NoCall.refused = None
  BY DEF NoCall
<1>3. call' \in [Callers -> Calls] /\ call'[c] = NoCall
        /\ \A d \in Callers \ {c} : call'[d] = call[d]
  BY <1>1 DEF MintInv, Returns
<1>4. \A d \in Callers \ {c} : call[d].at # "mint"
  BY DEF MintInv
<1> QED
  BY <1>1, <1>2, <1>3, <1>4 DEF MintInv

-------------------------------------------------------------------------------
(* Steps.                                                                     *)

\* A caller's steps off the wire.
LEMMA StartKeeps ==
  ASSUME ClientInv, NEW c \in Callers,
         CallKeyed(c) \/ CallWithBearer(c) \/ GiveUp(c) \/ TakeToken(c) \/ MintRefused(c) \/ SendRefused(c)
  PROVE  ClientInv'
<1>1. /\ ~Outstanding(c) /\ UNCHANGED <<breaker, abandoned, authMu>>
      /\ accepted' \subseteq accepted /\ call[c] \in Calls
      /\ call[c].refused # None => call[c].refused \notin accepted
  BY DEF CallKeyed, CallWithBearer, GiveUp, TakeToken, MintRefused, SendRefused, Outstanding,
         Remembered, ClientInv, MintInv
<1>2. PICK h : call' = [call EXCEPT ![c] = h]
  BY DEF CallKeyed, CallWithBearer, GiveUp, TakeToken, MintRefused, SendRefused, Returns,
          ClientInv, MintInv
<1>3. BreakerInv' /\ ProbeAccounted'
  BY <1>1, <1>2, MoveKeeps DEF ClientInv, MintInv
<1>4. NoCall \in Calls /\ NoCall.at = "idle" /\ NoCall.refused = None
  BY DEF NoCall, Calls, Tokens
<1>5. CASE CallKeyed(c)
  <2>1. PICK k \in {"anonymous", "bearer", "document", "stream"} :
          call' = [call EXCEPT ![c].at = "send", ![c].kind = k]
    BY <1>5 DEF CallKeyed, KindsOf
  <2> DEFINE g == [call[c] EXCEPT !.at = "send", !.kind = k]
  <2>2. g \in Calls /\ g.at = "send" /\ g.refused = call[c].refused
    BY <1>1 DEF Calls
  <2>3. call' = [call EXCEPT ![c] = g] /\ UNCHANGED session
    BY <1>5, <2>1 DEF CallKeyed, ClientInv, MintInv
  <2>4. MintInv'
    BY <1>1, <2>2, <2>3, CallKeeps DEF ClientInv
  <2> QED
    BY <1>3, <2>4 DEF ClientInv
<1>6. CASE CallWithBearer(c)
  <2> DEFINE g == [call[c] EXCEPT !.at = "token", !.kind = "bearer"]
  <2>1. g \in Calls /\ g.at = "token" /\ g.refused = call[c].refused
    BY <1>1 DEF Calls
  <2>2. call' = [call EXCEPT ![c] = g] /\ UNCHANGED session
    BY <1>6 DEF CallWithBearer, ClientInv, MintInv
  <2>3. MintInv'
    BY <1>1, <2>1, <2>2, CallKeeps DEF ClientInv
  <2> QED
    BY <1>3, <2>3 DEF ClientInv
<1>7. CASE TakeToken(c)
  <2> DEFINE g == [call[c] EXCEPT !.at = "send", !.bearer = session.token]
  <2>1. g \in Calls /\ g.at = "send" /\ g.refused = call[c].refused
    BY <1>1 DEF Calls, ClientInv, MintInv
  <2>2. call' = [call EXCEPT ![c] = g] /\ UNCHANGED session
    BY <1>7 DEF TakeToken, ClientInv, MintInv
  <2>3. MintInv'
    BY <1>1, <2>1, <2>2, CallKeeps DEF ClientInv
  <2> QED
    BY <1>3, <2>3 DEF ClientInv
<1>8. CASE GiveUp(c) \/ SendRefused(c)
  <2>1. call' = [call EXCEPT ![c] = NoCall] /\ UNCHANGED session
    BY <1>8 DEF GiveUp, SendRefused, Returns
  <2>2. MintInv'
    BY <1>1, <1>4, <2>1, CallKeeps DEF ClientInv
  <2> QED
    BY <1>3, <2>2 DEF ClientInv
<1>9. CASE MintRefused(c)
  <2>1. Returns(c) /\ session' = NoSession /\ authMu = None
    BY <1>9 DEF MintRefused
  <2>2. \A d \in Callers \ {c} : authMu # d
    BY <2>1, ClientAssumption
  <2>3. MintInv'
    BY <1>1, <2>1, <2>2, ClearKeeps DEF ClientInv
  <2> QED
    BY <1>3, <2>3 DEF ClientInv
<1> QED
  BY <1>5, <1>6, <1>7, <1>8, <1>9

\* A login or an exchange goes on the wire, maybe as the probe.
LEMMA OutKeeps ==
  ASSUME ClientInv, NEW c \in Callers, StartMint(c) \/ Send(c)
  PROVE  ClientInv'
<1>1. /\ ~Outstanding(c) /\ UNCHANGED <<session, accepted>> /\ call[c] \in Calls
      /\ call[c].refused # None => call[c].refused \notin accepted
  BY DEF StartMint, Send, Outstanding, ClientInv, MintInv
<1>2. CASE StartMint(c)
  <2>1. /\ GoesOut(c, "mint") /\ authMu = None /\ authMu' = c /\ ~HasToken(c)
        /\ call' = [call EXCEPT ![c].at = "mint", ![c].probe = breaker.state # "closed"]
    BY <1>2 DEF StartMint, GoesOut
  <2>2. BreakerInv' /\ ProbeAccounted'
    BY <1>1, <2>1, GoOutKeeps DEF ClientInv
  <2>3. session.token = None \/ ~session.usable \/ session.token \notin accepted
    BY <1>1, <2>1 DEF HasToken
  <2>4. \A d \in Callers : call[d].at # "mint"
    BY <2>1, ClientAssumption DEF ClientInv, MintInv
  <2> DEFINE p == breaker.state # "closed"
             g == [call[c] EXCEPT !.at = "mint", !.probe = p]
  <2>5. p \in BOOLEAN
    OBVIOUS
  <2>6. g \in Calls /\ g.at = "mint" /\ g.refused = call[c].refused
    <3> HIDE DEF p
    <3> QED
      BY <1>1, <2>5 DEF Calls
  <2>7. call' = [call EXCEPT ![c] = g]
    BY <2>1 DEF ClientInv, MintInv
  <2>8. MintInv'
    <3> HIDE DEF g
    <3>1. call' \in [Callers -> Calls] /\ call'[c] = g
            /\ \A d \in Callers \ {c} : call'[d] = call[d]
      BY <2>6, <2>7 DEF ClientInv, MintInv
    <3> QED
      BY <1>1, <2>1, <2>3, <2>4, <2>6, <3>1 DEF ClientInv, MintInv
  <2> QED
    BY <2>2, <2>8 DEF ClientInv
<1>3. CASE Send(c)
  <2>1. /\ GoesOut(c, "wire") /\ authMu' = authMu
        /\ call' = [call EXCEPT ![c].at = "wire", ![c].probe = breaker.state # "closed"]
    BY <1>3 DEF Send, GoesOut
  <2>2. BreakerInv' /\ ProbeAccounted'
    BY <1>1, <2>1, GoOutKeeps DEF ClientInv
  <2> DEFINE p == breaker.state # "closed"
             g == [call[c] EXCEPT !.at = "wire", !.probe = p]
  <2>3. p \in BOOLEAN
    OBVIOUS
  <2>4. g \in Calls /\ g.at = "wire" /\ g.refused = call[c].refused
    <3> HIDE DEF p
    <3> QED
      BY <1>1, <2>3 DEF Calls
  <2>5. call' = [call EXCEPT ![c] = g]
    BY <2>1 DEF ClientInv, MintInv
  <2>6. MintInv'
    <3> HIDE DEF g
    <3> QED
      BY <1>1, <2>1, <2>4, <2>5, CallKeeps DEF ClientInv
  <2> QED
    BY <2>2, <2>6 DEF ClientInv
<1> QED
  BY <1>2, <1>3

\* A login is answered: its token is one nobody holds.
LEMMA AnswerKeeps ==
  ASSUME ClientInv, NEW c \in Callers, MintAnswered(c)
  PROVE  ClientInv'
<1>1. PICK t \in 1..MaxTokens :
        /\ NextToken(t)
        /\ session' = [token |-> t, usable |-> TRUE]
        /\ call' = [call EXCEPT ![c].at = "send", ![c].bearer = t, ![c].probe = FALSE]
        /\ accepted' = (accepted \cap Held') \cup {t}
  BY DEF MintAnswered
<1>2. call[c] \in Calls /\ call[c].at = "mint" /\ Concludes(c, ExchangeVerdicts["answered"])
  BY DEF MintAnswered, ClientInv, MintInv
<1> DEFINE g == [call[c] EXCEPT !.at = "send", !.bearer = t, !.probe = FALSE]
<1>3. g \in Calls /\ g.at = "send" /\ g.refused = call[c].refused
  BY <1>2 DEF Calls, Tokens
<1>4. call' = [call EXCEPT ![c] = g]
  BY <1>1 DEF ClientInv, MintInv
<1> HIDE DEF g
<1>5. call' \in [Callers -> Calls] /\ call'[c] = g /\ \A d \in Callers \ {c} : call'[d] = call[d]
  BY <1>3, <1>4 DEF ClientInv, MintInv
<1>6. ExchangeVerdicts["answered"] \in Verdicts
  BY DEF ExchangeVerdicts, DocumentVerdicts, Verdicts
<1>7. BreakerInv' /\ ProbeAccounted'
  BY <1>2, <1>5, <1>6, ConcludeKeeps DEF ClientInv
<1>8. \A d \in Callers : call[d].refused # t
  BY <1>1 DEF NextToken, Held
<1>9. \A d \in Callers : call'[d].refused = call[d].refused
  BY <1>3, <1>5
<1>10. \A d \in Callers : call'[d].at # "mint"
  BY <1>2, <1>3, <1>5 DEF ClientInv, MintInv
<1>11. session' \in [token : Tokens, usable : BOOLEAN]
  BY <1>1 DEF Tokens
<1>12. MintInv'
  BY <1>1, <1>5, <1>8, <1>9, <1>10, <1>11 DEF ClientInv, MintInv
<1> QED
  BY <1>7, <1>12 DEF ClientInv

\* A login fails and takes the session with it.
LEMMA FailKeeps ==
  ASSUME ClientInv, NEW c \in Callers, MintFailed(c)
  PROVE  ClientInv'
<1>1. /\ call[c].at = "mint" /\ session' = NoSession /\ Returns(c) /\ accepted' \subseteq accepted
  BY DEF MintFailed, Remembered
<1>2. PICK o \in DOMAIN ExchangeVerdicts : Concludes(c, ExchangeVerdicts[o])
  BY DEF MintFailed
<1>3. ExchangeVerdicts[o] \in Verdicts
  BY DEF ExchangeVerdicts, DocumentVerdicts, Verdicts
<1>4. \A d \in Callers \ {c} : authMu # d /\ call'[d] = call[d]
  BY <1>1 DEF ClientInv, MintInv, Returns
<1>5. BreakerInv' /\ ProbeAccounted'
  BY <1>2, <1>3, <1>4, ConcludeKeeps DEF ClientInv
<1>6. MintInv'
  BY <1>1, <1>4, ClearKeeps DEF ClientInv
<1> QED
  BY <1>5, <1>6 DEF ClientInv

\* An exchange ends: the answer, or the 401 that asks for another token.
LEMMA EndKeeps ==
  ASSUME ClientInv, NEW c \in Callers, ExchangeEnds(c)
  PROVE  ClientInv'
<1>1. /\ call[c] \in Calls /\ call[c].at = "wire" /\ accepted' \subseteq accepted
      /\ UNCHANGED <<session, authMu>>
      /\ call[c].refused # None => call[c].refused \notin accepted
  BY DEF ExchangeEnds, Remembered, ClientInv, MintInv
<1>2. PICK o \in PossibleOutcomes(c) :
        /\ Concludes(c, VerdictsOf(call[c].kind)[o])
        /\ IF /\ o = "unauthorized" /\ call[c].kind = "bearer"
              /\ call[c].bearer # None /\ call[c].refused = None
           THEN call' = [call EXCEPT ![c].at = "token", ![c].refused = call[c].bearer,
                                     ![c].bearer = None, ![c].probe = FALSE]
           ELSE Returns(c)
  BY DEF ExchangeEnds
<1>3. o \in DOMAIN VerdictsOf(call[c].kind)
  BY DEF PossibleOutcomes
<1>4. VerdictsOf(call[c].kind)[o] \in Verdicts
  BY <1>3, VerdictsKnown
<1>5. \A d \in Callers \ {c} : call'[d] = call[d]
  BY <1>2 DEF ClientInv, MintInv, Returns
<1>6. BreakerInv' /\ ProbeAccounted'
  BY <1>2, <1>4, <1>5, ConcludeKeeps DEF ClientInv
<1>7. CASE Returns(c)
  <2>1. NoCall \in Calls /\ NoCall.at = "idle" /\ NoCall.refused = None
    BY DEF NoCall, Calls, Tokens
  <2>2. MintInv'
    BY <1>1, <1>7, <2>1, CallKeeps DEF ClientInv, Returns
  <2> QED
    BY <1>6, <2>2 DEF ClientInv
<1>8. CASE ~Returns(c)
  <2>1. /\ o = "unauthorized" /\ call[c].kind = "bearer"
        /\ call' = [call EXCEPT ![c].at = "token", ![c].refused = call[c].bearer,
                                ![c].bearer = None, ![c].probe = FALSE]
    BY <1>2, <1>8
  <2>2. call[c].bearer \notin accepted
    BY <2>1 DEF PossibleOutcomes
  <2> DEFINE g == [call[c] EXCEPT !.at = "token", !.refused = call[c].bearer, !.bearer = None,
          !.probe = FALSE]
  <2>3. g \in Calls /\ g.at = "token" /\ g.refused = call[c].bearer
    BY <1>1 DEF Calls, Tokens
  <2>4. call' = [call EXCEPT ![c] = g]
    BY <2>1 DEF ClientInv, MintInv
  <2>5. MintInv'
    <3> HIDE DEF g
    <3> QED
      BY <1>1, <2>2, <2>3, <2>4, CallKeeps DEF ClientInv
  <2> QED
    BY <1>6, <2>5 DEF ClientInv
<1> QED
  BY <1>7, <1>8

\* A session ages, the upstream forgets a token, the cooldown passes.
LEMMA ClocksKeep ==
  ASSUME ClientInv, SessionAges \/ UpstreamForgets \/ Tick
  PROVE  ClientInv'
<1>1. CASE SessionAges
  <2>1. /\ session' \in [token : Tokens, usable : BOOLEAN] /\ session'.usable = FALSE
        /\ UNCHANGED <<breaker, accepted, authMu, call, abandoned>>
    BY <1>1 DEF SessionAges, ClientInv, MintInv
  <2> QED
    BY <2>1 DEF ClientInv, BreakerInv, ProbeAccounted, Outstanding, MintInv
<1>2. CASE UpstreamForgets
  <2>1. accepted' \subseteq accepted /\ UNCHANGED <<breaker, session, authMu, call, abandoned>>
    BY <1>2 DEF UpstreamForgets
  <2> QED
    BY <2>1 DEF ClientInv, BreakerInv, ProbeAccounted, Outstanding, MintInv
<1>3. CASE Tick
  <2>1. UNCHANGED <<session, accepted, authMu, call, abandoned>> /\ breaker' = Waited(breaker)
    BY <1>3 DEF Tick
  <2>2. BreakerInv' /\ breaker'.probing = breaker.probing
    BY <2>1 DEF ClientInv, BreakerInv, Shaped, Waited
  <2> QED
    BY <2>1, <2>2 DEF ClientInv, ProbeAccounted, Outstanding, MintInv
<1> QED
  BY <1>1, <1>2, <1>3

\* Every step keeps the probe and the session accounted for.
LEMMA ClientStep ==
  ASSUME ClientInv, [ClientNext]_clientVars
  PROVE  ClientInv'
<1>1. CASE UNCHANGED clientVars
  BY <1>1 DEF clientVars, ClientInv, BreakerInv, ProbeAccounted, Outstanding, MintInv
<1> QED
  BY <1>1, StartKeeps, OutKeeps, AnswerKeeps, FailKeeps, EndKeeps, ClocksKeep DEF ClientNext

\* The client starts closed and signed out.
LEMMA ClientBegins == ClientInit => ClientInv
<1> SUFFICES ASSUME ClientInit PROVE ClientInv
  OBVIOUS
<1>1. BreakerInv /\ ProbeAccounted
  BY NewBreakerTyped DEF ClientInit, BreakerInv, ProbeAccounted
<1>2. NoCall \in Calls /\ NoCall.at = "idle" /\ NoCall.refused = None
      /\ NoSession \in [token : Tokens, usable : BOOLEAN]
  BY DEF NoCall, Calls, NoSession, Tokens
<1>3. MintInv
  BY <1>2 DEF ClientInit, MintInv
<1> QED
  BY <1>1, <1>3 DEF ClientInv

\* A login that succeeds replaces a session that was no good.
LEMMA MintStep ==
  ASSUME ClientInv, [ClientNext]_clientVars, session' # session, session'.usable
  PROVE  session.token = None \/ ~session.usable \/ session.token \notin accepted
<1>1. ASSUME NEW c \in Callers, MintAnswered(c)
      PROVE  session.token = None \/ ~session.usable \/ session.token \notin accepted
  BY <1>1 DEF MintAnswered, ClientInv, MintInv
<1>2. session' # NoSession
  BY DEF NoSession
<1>3. ~SessionAges
  BY DEF SessionAges, ClientInv, MintInv
<1> QED
  BY <1>1, <1>2, <1>3 DEF ClientNext, clientVars, CallKeyed, CallWithBearer, GiveUp, TakeToken, StartMint,
     MintRefused, MintFailed, Send, SendRefused, ExchangeEnds, UpstreamForgets, Tick

\* While a breaker refuses everybody because a probe is out, there is one, or one ended
\* unreported (breaker.go:160).
THEOREM ProbeCorrect == ClientSpec => []ProbeAccounted
<1>1. ClientInv /\ [ClientNext]_clientVars => ClientInv'
  BY ClientStep
<1>2. ClientInv => ProbeAccounted
  BY DEF ClientInv
<1> QED
  BY <1>1, <1>2, ClientBegins, PTL DEF ClientSpec

\* A login replaces a session only if that session was no good (client.go:340).
THEOREM MintCorrect == ClientSpec => NoNeedlessMint
<1>1. ClientInv /\ [ClientNext]_clientVars => ClientInv'
  BY ClientStep
<1>2. ClientInv /\ [ClientNext]_clientVars =>
        [(session' # session /\ session'.usable)
           => session.token = None \/ ~session.usable \/ session.token \notin accepted]_clientVars
  BY MintStep
<1> QED
  BY <1>1, <1>2, ClientBegins, PTL DEF ClientSpec, NoNeedlessMint
------------------------------------------------------------------------------
(****************************************************************************)
(* The key files open what is stored, for any number of rows, requests,      *)
(* keys and ends of the server and of the rotation.                          *)
(****************************************************************************)

Record == [state : {"none", "live", "deleted"}, host : Hosts, id : Nat, by : Nat, boundTo : Hosts]

Batches == UNION {[D -> Record] : D \in SUBSET Rows}

Rotations ==
  [at : {"idle", "create", "fill", "rewrap", "write", "count", "verify", "promote"},
   old : Nat, new : Nat, after : Nat, pass : Nat, batch : Batches]

CredentialsType ==
  /\ row \in [Rows -> Record]
  /\ current \in Nat /\ minted \in Nat
  /\ pending \in [file : {"absent", "torn", "key"}, key : Nat]
  /\ server \in [up : BOOLEAN, primary : Nat, extra : Nat]
  /\ req \in [Requests -> [inst : Nat, moves : BOOLEAN, host : Hosts, enters : BOOLEAN]]
  /\ \A q \in Requests : req[q] # NoRequest => req[q].inst \in Rows
  /\ rot \in Rotations

\* A rotation past its key file works between the two keys on disk.
KeysHeld ==
  /\ pending.file = "key" => pending.key # Legacy
  /\ rot.at = "create" => pending.file = "absent"
  /\ rot.at = "fill" => pending.file = "torn"
  /\ rot.at # "idle" => rot.old = current
  /\ rot.at \in {"rewrap", "write", "count", "verify", "promote"} =>
       pending.file = "key" /\ rot.new = pending.key
  /\ rot.at = "write" =>
       \A i \in DOMAIN rot.batch : rot.batch[i].id = rot.new /\ rot.batch[i].by = rot.new

Checked(i) == (rot.at = "verify" /\ i <= rot.after) \/ rot.at = "promote"

\* What was verified is sealed under the new key alone, or a server sealed it since.
Verified ==
  \A i \in Rows :
    Stored(i) /\ i \notin exposed /\ Checked(i) => row[i].id = rot.new /\ row[i].by = rot.new

CredentialsInv == CredentialsType /\ KeysHeld /\ Verified /\ RowsOpenable

-------------------------------------------------------------------------------

\* What the key files open, spelled out.
LEMMA KeysOnDisk ==
  ASSUME NEW r
  PROVE  Unwraps(OnDisk, r) <=>
           \/ r.by = current /\ r.id \in {Legacy, current}
           \/ pending.file = "key" /\ pending.key # Legacy /\ r.id = pending.key
                   /\ r.by = pending.key
BY DEF Unwraps, OnDisk, Ring

\* What a row, a request and a rotation start as has their types.
LEMMA Initials ==
  /\ NoRow \in Record /\ Idle \in Rotations
  /\ NoRequest \in [inst : Nat, moves : BOOLEAN, host : Hosts, enters : BOOLEAN]
<1>1. (CHOOSE h \in Hosts : TRUE) \in Hosts
  BY CredentialsAssumption
<1>2. [i \in {} |-> Legacy] \in [{} -> Record] /\ [{} -> Record] \subseteq Batches
  BY DEF Batches
<1> QED
  BY <1>1, <1>2 DEF NoRow, Record, Idle, Rotations, NoRequest, Legacy

\* Steps that leave the key files and the rotation alone, and of the rows change what is
\* not their envelopes.
LEMMA EnvelopesKept ==
  ASSUME CredentialsInv, UNCHANGED <<current, pending, minted, rot, exposed>>,
         CredentialsType',
         \A i \in Rows : Stored(i)' => Stored(i) /\ row'[i].id = row[i].id
                 /\ row'[i].by = row[i].by
  PROVE  CredentialsInv'
<1>1. KeysHeld'
  BY DEF CredentialsInv, KeysHeld
<1>2. Verified'
  BY DEF CredentialsInv, Verified, Checked
<1>3. RowsOpenable'
  BY DEF CredentialsInv, RowsOpenable, Unwraps, OnDisk
<1> QED
  BY <1>1, <1>2, <1>3 DEF CredentialsInv

\* A server's seal: under the key on disk and ahead of the rotation, or exposed.
LEMMA SealKeeps ==
  ASSUME CredentialsInv, NEW i \in Rows, NEW r \in Record, Seal(i, r),
         UNCHANGED <<current, pending, minted, server, rot>>, CredentialsType'
  PROVE  CredentialsInv'
<1>1. /\ \A j \in Rows \ {i} : row'[j] = row[j] /\ (j \in exposed' <=> j \in exposed)
      /\ row'[i].id = server.primary /\ row'[i].by = server.primary
      /\ OutOfSight(i) => i \in exposed'
  BY DEF Seal, CredentialsInv, CredentialsType, Record
<1>2. KeysHeld'
  BY DEF CredentialsInv, KeysHeld
<1>3. ASSUME i \notin exposed'
      PROVE  server.primary = current /\ ~Checked(i)
  BY <1>1, <1>3 DEF OutOfSight, Checked
<1>4. Verified'
  BY <1>1, <1>3 DEF CredentialsInv, Verified, Checked, Stored
<1>5. RowsOpenable'
  BY <1>1, <1>3 DEF CredentialsInv, RowsOpenable, Unwraps, OnDisk, Ring, Stored
<1> QED
  BY <1>2, <1>4, <1>5 DEF CredentialsInv

\* The server's own steps: its start and end, and the writes of its requests.
LEMMA ServeKeeps ==
  ASSUME CredentialsInv, Serve
  PROVE  CredentialsInv'
<1>1. CASE StartServer \/ StopServer
  <2>1. /\ UNCHANGED <<row, current, pending, minted, rot, exposed>>
        /\ server' \in [up : BOOLEAN, primary : Nat, extra : Nat]
        /\ req' = req \/ req' = [q \in Requests |-> NoRequest]
    <3>1. current \in Nat /\ pending.key \in Nat
      BY DEF CredentialsInv, CredentialsType
    <3>2. Down \in [up : BOOLEAN, primary : Nat, extra : Nat]
      BY DEF Down, Legacy
    <3>3. CASE StartServer
      BY <3>1, <3>3 DEF StartServer
    <3>4. CASE StopServer
      BY <3>2, <3>4 DEF StopServer
    <3> QED
      BY <1>1, <3>3, <3>4
  <2>2. /\ req' \in [Requests -> [inst : Nat, moves : BOOLEAN, host : Hosts, enters : BOOLEAN]]
        /\ \A q \in Requests : req'[q] # NoRequest => req'[q].inst \in Rows
    <3>1. CASE req' = req
      BY <3>1 DEF CredentialsInv, CredentialsType
    <3>2. CASE req' = [q \in Requests |-> NoRequest]
      BY <3>2, Initials
    <3> QED
      BY <2>1, <3>1, <3>2
  <2>3. CredentialsType'
    BY <2>1, <2>2 DEF CredentialsInv, CredentialsType
  <2> QED
    BY <2>1, <2>3, EnvelopesKept DEF Stored
<1>2. ASSUME NEW i \in Rows, DeleteService(i) PROVE CredentialsInv'
  <2>1. /\ row[i].state = "live" /\ row' = [row EXCEPT ![i].state = "deleted"]
        /\ UNCHANGED <<current, pending, minted, server, req, rot, exposed>>
    BY <1>2 DEF DeleteService
  <2>2. CredentialsType'
    BY <2>1 DEF CredentialsInv, CredentialsType, Record
  <2>3. \A j \in Rows : Stored(j)' => Stored(j) /\ row'[j].id = row[j].id
          /\ row'[j].by = row[j].by
    BY <2>1 DEF CredentialsInv, CredentialsType, Record, Stored
  <2> QED
    BY <2>1, <2>2, <2>3, EnvelopesKept
<1>3. ASSUME NEW i \in Rows, NEW h \in Hosts, CreateService(i, h) PROVE CredentialsInv'
  <2> DEFINE r == [NoRow EXCEPT !.state = "live", !.host = h, !.boundTo = h]
  <2>1. r \in Record
    BY Initials DEF Record
  <2>2. Seal(i, r) /\ UNCHANGED <<current, pending, minted, server, req, rot>>
    BY <1>3 DEF CreateService
  <2> HIDE DEF r
  <2>3. CredentialsType'
    BY <2>1, <2>2 DEF Seal, CredentialsInv, CredentialsType, Record
  <2> QED
    BY <2>1, <2>2, <2>3, SealKeeps
<1>4. ASSUME NEW q \in Requests, NEW i \in Rows, NEW h \in Hosts, NEW moves \in BOOLEAN,
             NEW enters \in BOOLEAN, ReadForUpdate(q, i, moves, h, enters)
      PROVE  CredentialsInv'
  <2> DEFINE r == [inst |-> i, moves |-> moves, host |-> h, enters |-> enters]
  <2>1. r \in [inst : Nat, moves : BOOLEAN, host : Hosts, enters : BOOLEAN] /\ r.inst \in Rows
    BY CredentialsAssumption
  <2>2. req' = [req EXCEPT ![q] = r]
          /\ UNCHANGED <<row, current, pending, minted, server, rot, exposed>>
    BY <1>4 DEF ReadForUpdate
  <2> HIDE DEF r
  <2>3. CredentialsType'
    BY <2>1, <2>2 DEF CredentialsInv, CredentialsType
  <2> QED
    BY <2>2, <2>3, EnvelopesKept DEF Stored
<1>5. ASSUME NEW q \in Requests, WriteUpdate(q) PROVE CredentialsInv'
  <2> DEFINE i == req[q].inst
             r == [Moved(q) EXCEPT !.boundTo = req[q].host]
  <2>1. /\ i \in Rows /\ req' = [req EXCEPT ![q] = NoRequest]
        /\ UNCHANGED <<current, pending, minted, server, rot>>
        /\ req[q] \in [inst : Nat, moves : BOOLEAN, host : Hosts, enters : BOOLEAN]
    BY <1>5 DEF WriteUpdate, CredentialsInv, CredentialsType
  <2>2. req' \in [Requests -> [inst : Nat, moves : BOOLEAN, host : Hosts, enters : BOOLEAN]]
        /\ \A p \in Requests : req'[p] # NoRequest => req'[p].inst \in Rows
    BY <2>1, Initials DEF CredentialsInv, CredentialsType
  <2>3. Moved(q) \in Record /\ Moved(q).id = row[i].id /\ Moved(q).by = row[i].by
        /\ Moved(q).state = row[i].state
    <3>1. row[i] \in Record
      BY <2>1 DEF CredentialsInv, CredentialsType
    <3> QED
      BY <2>1, <3>1 DEF Moved, Record
  <2>4. CASE row[i].state # "live"
    <3>1. UNCHANGED <<row, exposed>>
      BY <1>5, <2>4 DEF WriteUpdate
    <3>2. CredentialsType'
      BY <2>1, <2>2, <3>1 DEF CredentialsInv, CredentialsType
    <3> QED
      BY <2>1, <3>1, <3>2, EnvelopesKept DEF Stored
  <2>5. CASE row[i].state = "live" /\ req[q].enters
    <3>1. Seal(i, r)
      BY <1>5, <2>5 DEF WriteUpdate
    <3>2. r \in Record
      BY <2>1, <2>3 DEF Record
    <3> HIDE DEF r, i
    <3>3. CredentialsType'
      BY <2>1, <2>2, <3>1, <3>2 DEF Seal, CredentialsInv, CredentialsType, Record
    <3> QED
      BY <2>1, <3>1, <3>2, <3>3, SealKeeps
  <2>6. CASE row[i].state = "live" /\ ~req[q].enters
    <3>1. row' = [row EXCEPT ![i] = Moved(q)] /\ UNCHANGED exposed
      BY <1>5, <2>6 DEF WriteUpdate
    <3>2. CredentialsType'
      BY <2>1, <2>2, <2>3, <3>1 DEF CredentialsInv, CredentialsType
    <3>3. \A j \in Rows : Stored(j)' => Stored(j) /\ row'[j].id = row[j].id
            /\ row'[j].by = row[j].by
      BY <2>1, <2>3, <3>1 DEF CredentialsInv, CredentialsType, Stored
    <3> QED
      BY <2>1, <3>1, <3>2, <3>3, EnvelopesKept
  <2> QED
    BY <2>4, <2>5, <2>6
<1> QED
  BY <1>1, <1>2, <1>3, <1>4, <1>5 DEF Serve

-------------------------------------------------------------------------------
(* The rotation.                                                              *)

\* Steps of the rotation that change neither a row nor the key files.
LEMMA RotKeeps ==
  ASSUME CredentialsInv, RotOnly, rot' \in Rotations, KeysHeld', Verified'
  PROVE  CredentialsInv'
<1>1. CredentialsType'
  BY DEF CredentialsInv, CredentialsType, RotOnly
<1>2. RowsOpenable'
  BY DEF CredentialsInv, RowsOpenable, Unwraps, OnDisk, Stored, RotOnly
<1> QED
  BY <1>1, <1>2 DEF CredentialsInv

\* A rotation that ends.
LEMMA IdleKeeps ==
  ASSUME CredentialsInv, UNCHANGED <<row, current, pending, minted, server, req, exposed>>,
          rot' = Idle
  PROVE  CredentialsInv'
<1>1. Idle.at = "idle"
  BY DEF Idle
<1>2. KeysHeld' /\ Verified'
  BY <1>1 DEF CredentialsInv, KeysHeld, Verified, Checked
<1>3. CredentialsType'
  BY Initials DEF CredentialsInv, CredentialsType
<1>4. RowsOpenable'
  BY DEF CredentialsInv, RowsOpenable, Unwraps, OnDisk, Stored
<1> QED
  BY <1>2, <1>3, <1>4 DEF CredentialsInv

\* The steps of a rotation that make its key file.
LEMMA KeyFileKeeps ==
  ASSUME CredentialsInv, StartRotation \/ CreateNewKey \/ WriteNewKey \/ RemoveTorn
  PROVE  CredentialsInv'
<1>0. rot \in Rotations
  BY DEF CredentialsInv, CredentialsType
<1>1. CASE StartRotation
  <2> DEFINE a == IF pending.file = "key" THEN "rewrap" ELSE "create"
  <2>1. rot' = [Idle EXCEPT !.at = a, !.old = current, !.new = pending.key] /\ RotOnly
        /\ pending.file \in {"absent", "key"}
    BY <1>1 DEF StartRotation, CredentialsInv, CredentialsType
  <2>2. a \in {"rewrap", "create"}
    OBVIOUS
  <2>3. current \in Nat /\ pending.key \in Nat
    BY DEF CredentialsInv, CredentialsType
  <2>4. /\ rot' \in Rotations /\ rot'.at = a /\ rot'.old = current /\ rot'.new = pending.key
    <3> HIDE DEF a
    <3> QED
      BY <2>1, <2>2, <2>3, Initials DEF Rotations
  <2>5. KeysHeld'
    BY <2>1, <2>4 DEF CredentialsInv, KeysHeld, RotOnly
  <2>6. Verified'
    BY <2>2, <2>4 DEF Verified, Checked
  <2> QED
    BY <2>1, <2>4, <2>5, <2>6, RotKeeps
<1>2. CASE CreateNewKey
  <2>1. /\ rot.at = "create" /\ pending' = [file |-> "torn", key |-> Legacy]
        /\ rot' = [rot EXCEPT !.at = "fill", !.after = 0]
        /\ UNCHANGED <<row, current, minted, server, req, exposed>>
    BY <1>2 DEF CreateNewKey, Enter
  <2>2. rot' \in Rotations /\ rot'.at = "fill" /\ rot'.old = rot.old
    BY <1>0, <2>1 DEF Rotations
  <2>3. CredentialsType'
    BY <2>1, <2>2 DEF CredentialsInv, CredentialsType, Legacy
  <2>4. KeysHeld' /\ Verified'
    BY <2>1, <2>2 DEF CredentialsInv, KeysHeld, Verified, Checked
  <2>5. pending.file = "absent"
    BY <2>1 DEF CredentialsInv, KeysHeld
  <2>6. RowsOpenable'
    BY <2>1, <2>5 DEF CredentialsInv, RowsOpenable, Unwraps, OnDisk, Ring, Stored
  <2> QED
    BY <2>3, <2>4, <2>6 DEF CredentialsInv
<1>3. CASE WriteNewKey
  <2> DEFINE k == minted + 1
  <2>1. /\ rot.at = "fill" /\ pending' = [file |-> "key", key |-> k]
        /\ rot' = [[rot EXCEPT !.at = "rewrap", !.after = 0] EXCEPT !.new = k]
        /\ minted' = k /\ UNCHANGED <<row, current, server, req, exposed>>
    BY <1>3 DEF WriteNewKey, Enter
  <2>2. k \in Nat /\ k # Legacy
    BY DEF CredentialsInv, CredentialsType, Legacy
  <2> HIDE DEF k
  <2>3. /\ rot' \in Rotations /\ rot'.at = "rewrap" /\ rot'.new = k /\ rot'.old = rot.old
    BY <1>0, <2>1, <2>2 DEF Rotations
  <2>4. CredentialsType'
    BY <2>1, <2>2, <2>3 DEF CredentialsInv, CredentialsType
  <2>5. pending.file = "torn" /\ rot.old = current
    BY <2>1 DEF CredentialsInv, KeysHeld
  <2>6. RowsOpenable'
    BY <2>1, <2>5 DEF CredentialsInv, RowsOpenable, Unwraps, OnDisk, Ring, Stored
  <2>7. KeysHeld' /\ Verified'
    BY <2>1, <2>2, <2>3, <2>5 DEF KeysHeld, Verified, Checked
  <2> QED
    BY <2>4, <2>6, <2>7 DEF CredentialsInv
<1>4. CASE RemoveTorn
  <2>1. /\ pending.file = "torn" /\ rot = Idle /\ pending' = Absent
        /\ UNCHANGED <<row, current, minted, server, req, rot, exposed>>
    BY <1>4 DEF RemoveTorn
  <2>2. Absent \in [file : {"absent", "torn", "key"}, key : Nat] /\ Absent.file = "absent"
        /\ Idle.at = "idle"
    BY DEF Absent, Legacy, Idle
  <2>3. CredentialsType' /\ KeysHeld' /\ Verified'
    BY <2>1, <2>2 DEF CredentialsInv, CredentialsType, KeysHeld, Verified, Checked
  <2>4. RowsOpenable'
    BY <2>1, <2>2 DEF CredentialsInv, RowsOpenable, Unwraps, OnDisk, Ring, Stored
  <2> QED
    BY <2>3, <2>4 DEF CredentialsInv
<1> QED
  BY <1>1, <1>2, <1>3, <1>4

\* A page misses nothing up to its last row, and an empty one nothing at all.
LEMMA PageCovers ==
  ASSUME CredentialsType, NEW page \in SUBSET Rows, IsPage(page, rot.after)
  PROVE  /\ page = {} => Envelopes(rot.after) = {}
         /\ \A last \in Rows : IsLast(last, page) =>
              \A i \in Rows : Stored(i) /\ i <= last => i <= rot.after \/ i \in page
<1>1. ASSUME page = {}, page # Envelopes(rot.after) PROVE FALSE
  <2>1. Cardinality(page) = PageSize
    BY <1>1 DEF IsPage
  <2> QED
    BY <1>1, <2>1, FS_EmptySet, CredentialsAssumption
<1>2. ASSUME NEW last \in Rows, IsLast(last, page), NEW i \in Rows, Stored(i), i <= last,
             ~(i <= rot.after), i \notin page
      PROVE  FALSE
  <2>1. i \in Nat /\ last \in Nat /\ rot.after \in Nat
    BY CredentialsAssumption DEF CredentialsType, Rotations
  <2>2. i \in Envelopes(rot.after) \ page
    BY <1>2, <2>1 DEF Envelopes
  <2>3. last < i
    BY <1>2, <2>2 DEF IsPage, IsLast
  <2> QED
    BY <1>2, <2>1, <2>3
<1> QED
  BY <1>1, <1>2

\* A page is read and rewrapped under the new key.
LEMMA ReadPageKeeps ==
  ASSUME CredentialsInv, NEW page \in SUBSET Rows, ReadPage(page)
  PROVE  CredentialsInv'
<1> DEFINE work == {i \in page : row[i].id # rot.new}
           batch == [i \in work |-> Rewrapped(i)]
<1>0. rot \in Rotations /\ rot.at = "rewrap" /\ RotOnly
  BY DEF CredentialsInv, CredentialsType, ReadPage
<1>1. CASE rot' = Idle
  BY <1>0, <1>1, IdleKeeps DEF RotOnly
<1>2. CASE rot' = Enter("count")
  <2>1. rot' \in Rotations /\ rot'.at = "count" /\ rot'.new = rot.new /\ rot'.old = rot.old
    BY <1>0, <1>2 DEF Enter, Rotations
  <2>2. KeysHeld' /\ Verified'
    BY <1>0, <2>1 DEF CredentialsInv, KeysHeld, Verified, Checked, RotOnly
  <2> QED
    BY <1>0, <2>1, <2>2, RotKeeps
<1>3. ASSUME NEW last \in Rows, rot' = [rot EXCEPT !.at = "write", !.after = last,
        !.batch = batch]
      PROVE  CredentialsInv'
  <2>1. \A i \in work : Rewrapped(i) \in Record /\ Rewrapped(i).id = rot.new
          /\ Rewrapped(i).by = rot.new
    <3>1. rot.new \in Nat /\ \A i \in work : row[i] \in Record
      BY <1>0 DEF CredentialsInv, CredentialsType, Rotations
    <3> HIDE DEF work
    <3> QED
      BY <3>1 DEF Rewrapped, Record
  <2>2. batch \in [work -> Record] /\ \A i \in work : batch[i].id = rot.new
          /\ batch[i].by = rot.new
    BY <2>1
  <2>3. batch \in Batches /\ DOMAIN batch = work
    BY <2>2 DEF Batches
  <2> HIDE DEF work, batch
  <2>4. /\ rot' \in Rotations /\ rot'.at = "write" /\ rot'.new = rot.new /\ rot'.old = rot.old
        /\ rot'.batch = batch
    BY <1>0, <1>3, <2>3, CredentialsAssumption DEF Rotations
  <2>5. KeysHeld' /\ Verified'
    BY <1>0, <2>2, <2>3, <2>4 DEF CredentialsInv, KeysHeld, Verified, Checked, RotOnly
  <2> QED
    BY <1>0, <2>4, <2>5, RotKeeps
<1> QED
  BY <1>1, <1>2, <1>3 DEF ReadPage

\* The rewrapped page is written.
LEMMA WritePageKeeps ==
  ASSUME CredentialsInv, WritePage
  PROVE  CredentialsInv'
<1>1. /\ rot.at = "write" /\ rot \in Rotations
      /\ rot' = [rot EXCEPT !.at = "rewrap", !.batch = Idle.batch]
      /\ exposed' = exposed \ DOMAIN rot.batch
      /\ UNCHANGED <<current, pending, minted, server, req>>
      /\ pending.file = "key" /\ rot.new = pending.key /\ pending.key # Legacy
  BY DEF WritePage, CredentialsInv, CredentialsType, KeysHeld
<1>2. /\ rot' \in Rotations /\ rot'.at = "rewrap" /\ rot'.new = rot.new /\ rot'.old = rot.old
  <2>1. Idle.batch \in Batches
    BY Initials DEF Rotations
  <2> QED
    BY <1>1, <2>1 DEF Rotations
<1>3. \A i \in DOMAIN rot.batch \cap Rows :
        rot.batch[i] \in Record /\ rot.batch[i].id = rot.new /\ rot.batch[i].by = rot.new
  <2>1. PICK D \in SUBSET Rows : rot.batch \in [D -> Record]
    BY <1>1 DEF Rotations, Batches
  <2> QED
    BY <1>1, <2>1 DEF CredentialsInv, KeysHeld
<1>4. ASSUME NEW i \in Rows
      PROVE  /\ row'[i] \in Record /\ row'[i].state = row[i].state
             /\ i \in DOMAIN rot.batch => row'[i].id = rot.new /\ row'[i].by = rot.new
             /\ i \notin DOMAIN rot.batch => row'[i] = row[i]
  <2>1. row[i] \in Record
    BY DEF CredentialsInv, CredentialsType
  <2> QED
    BY <1>3, <2>1 DEF WritePage, Record
<1>5. row' \in [Rows -> Record]
  BY <1>4 DEF WritePage
<1>6. CredentialsType'
  BY <1>1, <1>2, <1>5 DEF CredentialsInv, CredentialsType
<1>7. KeysHeld' /\ Verified'
  BY <1>1, <1>2 DEF CredentialsInv, KeysHeld, Verified, Checked
<1>8. RowsOpenable'
  <2> SUFFICES ASSUME NEW i \in Rows, Stored(i)', i \notin exposed'
               PROVE  Unwraps(OnDisk, row[i])'
    BY DEF RowsOpenable
  <2>1. CASE i \in DOMAIN rot.batch
    BY <1>1, <1>4, <2>1 DEF Unwraps, OnDisk, Ring
  <2>2. CASE i \notin DOMAIN rot.batch
    <3>1. Unwraps(OnDisk, row[i])
      BY <1>1, <1>4, <2>2 DEF CredentialsInv, RowsOpenable, Stored
    <3> QED
      BY <1>1, <1>4, <2>2, <3>1 DEF Unwraps, OnDisk
  <2> QED
    BY <2>1, <2>2
<1> QED
  BY <1>6, <1>7, <1>8 DEF CredentialsInv

\* What is left is counted: verify, rewrap again, or give up.
LEMMA CountKeeps ==
  ASSUME CredentialsInv, CountRemaining
  PROVE  CredentialsInv'
<1>0. rot \in Rotations /\ rot.at = "count" /\ RotOnly
  BY DEF CredentialsInv, CredentialsType, CountRemaining
<1>1. CASE rot' = Idle
  BY <1>0, <1>1, IdleKeeps DEF RotOnly
<1>2. CASE rot' = Enter("verify")
  <2>1. rot' \in Rotations /\ rot'.at = "verify" /\ rot'.new = rot.new /\ rot'.old = rot.old
    BY <1>0, <1>2 DEF Enter, Rotations
  <2>2. rot'.after = 0
    BY <1>0, <1>2 DEF Enter, Rotations
  <2>3. \A i \in Rows : ~(i <= rot'.after)
    BY <2>2, CredentialsAssumption
  <2>4. KeysHeld'
    BY <1>0, <2>1 DEF CredentialsInv, KeysHeld, RotOnly
  <2>5. Verified'
    BY <2>1, <2>3 DEF Verified, Checked
  <2> QED
    BY <1>0, <2>1, <2>4, <2>5, RotKeeps
<1>3. CASE rot' = [Enter("rewrap") EXCEPT !.pass = @ + 1]
  <2> DEFINE again == Enter("rewrap")
  <2>1. again \in Rotations /\ again.at = "rewrap" /\ again.new = rot.new /\ again.old = rot.old
    BY <1>0 DEF Enter, Rotations
  <2>2. rot' = [again EXCEPT !.pass = @ + 1]
    BY <1>3
  <2> HIDE DEF again
  <2>3. rot' \in Rotations /\ rot'.at = "rewrap" /\ rot'.new = rot.new /\ rot'.old = rot.old
    BY <2>1, <2>2 DEF Rotations
  <2>4. KeysHeld' /\ Verified'
    BY <1>0, <2>3 DEF CredentialsInv, KeysHeld, Verified, Checked, RotOnly
  <2> QED
    BY <1>0, <2>3, <2>4, RotKeeps
<1> QED
  BY <1>1, <1>2, <1>3 DEF CountRemaining

\* A page is verified.
LEMMA VerifyKeeps ==
  ASSUME CredentialsInv, NEW page \in SUBSET Rows, VerifyPage(page)
  PROVE  CredentialsInv'
<1>0. /\ rot \in Rotations /\ rot.at = "verify" /\ IsPage(page, rot.after)
      /\ UNCHANGED <<row, current, pending, minted, server, req>>
      /\ pending.file = "key" /\ rot.new = pending.key /\ pending.key # Legacy
              /\ rot.old = current
  BY DEF CredentialsInv, CredentialsType, VerifyPage, KeysHeld
<1>1. CASE rot' = Idle /\ exposed' = exposed
  BY <1>0, <1>1, IdleKeeps
<1>2. CASE page = {} /\ rot' = Enter("promote") /\ exposed' = exposed
  <2>1. rot' \in Rotations /\ rot'.at = "promote" /\ rot'.new = rot.new /\ rot'.old = rot.old
    BY <1>0, <1>2 DEF Enter, Rotations
  <2>2. CredentialsType' /\ KeysHeld'
    BY <1>0, <1>2, <2>1 DEF CredentialsInv, CredentialsType, KeysHeld
  <2>3. \A i \in Rows : Stored(i) => i <= rot.after
    <3>1. Envelopes(rot.after) = {}
      BY <1>0, <1>2, PageCovers DEF CredentialsInv
    <3>2. \A i \in Rows : i \in Nat /\ rot.after \in Nat
      BY <1>0, CredentialsAssumption DEF Rotations
    <3> QED
      BY <3>1, <3>2 DEF Envelopes
  <2>4. Verified'
    BY <1>0, <1>2, <2>1, <2>3 DEF CredentialsInv, Verified, Checked, Stored
  <2>5. RowsOpenable'
    BY <1>0, <1>2 DEF CredentialsInv, RowsOpenable, Unwraps, OnDisk, Stored
  <2> QED
    BY <2>2, <2>4, <2>5 DEF CredentialsInv
<1>3. ASSUME \A i \in page : Verifies(i), NEW last \in Rows, IsLast(last, page),
             rot' = [rot EXCEPT !.after = last], exposed' = exposed \ page
      PROVE  CredentialsInv'
  <2>1. /\ rot' \in Rotations /\ rot'.at = "verify" /\ rot'.new = rot.new /\ rot'.old = rot.old
        /\ rot'.after = last
    BY <1>0, <1>3, CredentialsAssumption DEF Rotations
  <2>2. CredentialsType' /\ KeysHeld'
    BY <1>0, <2>1 DEF CredentialsInv, CredentialsType, KeysHeld
  <2>3. \A i \in page : row[i].id = rot.new /\ row[i].by = rot.new
    BY <1>0, <1>3 DEF Verifies, Unwraps, Ring
  <2>4. \A i \in Rows : Stored(i) /\ i <= last => i <= rot.after \/ i \in page
    BY <1>0, <1>3, PageCovers DEF CredentialsInv
  <2>5. Verified'
    BY <1>0, <1>3, <2>1, <2>3, <2>4 DEF CredentialsInv, Verified, Checked, Stored
  <2>6. RowsOpenable'
    <3>1. \A i \in page : Unwraps(OnDisk, row[i])
      BY <1>0, <2>3 DEF Unwraps, OnDisk, Ring
    <3> QED
      BY <1>0, <1>3, <3>1 DEF CredentialsInv, RowsOpenable, Unwraps, OnDisk, Stored
  <2> QED
    BY <2>2, <2>5, <2>6 DEF CredentialsInv
<1> QED
  BY <1>1, <1>2, <1>3 DEF VerifyPage

\* The old key goes, and by then it opens nothing that the new one does not.
LEMMA PromoteKeeps ==
  ASSUME CredentialsInv, Promote
  PROVE  CredentialsInv'
<1>1. /\ rot.at = "promote" /\ current' = pending.key /\ pending' = Absent /\ rot' = Idle
      /\ UNCHANGED <<row, minted, server, req, exposed>>
      /\ rot.new = pending.key /\ pending.key \in Nat
  BY DEF Promote, CredentialsInv, CredentialsType, KeysHeld
<1>2. Absent \in [file : {"absent", "torn", "key"}, key : Nat] /\ Absent.file = "absent"
      /\ Idle.at = "idle"
  BY DEF Absent, Legacy, Idle
<1>3. CredentialsType' /\ KeysHeld' /\ Verified'
  BY <1>1, <1>2, Initials DEF CredentialsInv, CredentialsType, KeysHeld, Verified, Checked
<1>4. \A i \in Rows : Stored(i) /\ i \notin exposed => row[i].id = pending.key
        /\ row[i].by = pending.key
  BY <1>1 DEF CredentialsInv, Verified, Checked
<1>5. RowsOpenable'
  BY <1>1, <1>4 DEF RowsOpenable, Unwraps, OnDisk, Ring, Stored
<1> QED
  BY <1>3, <1>5 DEF CredentialsInv

\* Every step keeps every row openable.
LEMMA CredentialsStep ==
  ASSUME CredentialsInv, [CredentialsNext]_credentialsVars
  PROVE  CredentialsInv'
<1>1. CASE UNCHANGED credentialsVars
  BY <1>1 DEF credentialsVars, CredentialsInv, CredentialsType, KeysHeld, Verified, Checked,
       RowsOpenable,
     Unwraps, OnDisk, Stored
<1>2. CASE EndRotation
  BY <1>2, IdleKeeps DEF EndRotation
<1>3. CASE RotateStep
  BY <1>3, KeyFileKeeps, ReadPageKeeps, WritePageKeeps, CountKeeps, VerifyKeeps, PromoteKeeps
     DEF RotateStep
<1> QED
  BY <1>1, <1>2, <1>3, ServeKeeps, KeyFileKeeps DEF CredentialsNext

\* The rows are sealed under the first key, which is on disk.
LEMMA CredentialsBegin == CredentialsInit => CredentialsInv
<1> SUFFICES ASSUME CredentialsInit PROVE CredentialsInv
  OBVIOUS
<1>1. \A s \in {"live", "deleted"} : [NoRow EXCEPT !.state = s, !.by = 1] \in Record
        /\ [NoRow EXCEPT !.state = s, !.by = 1].by = 1
                /\ [NoRow EXCEPT !.state = s, !.by = 1].id = Legacy
  <2>1. NoRow \in Record /\ NoRow.id = Legacy
    BY Initials DEF NoRow
  <2> QED
    BY <2>1 DEF Record
<1>2. \A i \in Rows : row[i] \in Record /\ (Stored(i) => row[i].by = 1 /\ row[i].id = Legacy)
  <2> SUFFICES ASSUME NEW i \in Rows
               PROVE  row[i] \in Record /\ (Stored(i) => row[i].by = 1 /\ row[i].id = Legacy)
    OBVIOUS
  <2>1. CASE row[i] = NoRow
    BY <2>1, Initials DEF Stored, NoRow
  <2>2. CASE row[i] # NoRow
    <3>1. PICK s \in {"live", "deleted"} : row[i] = [NoRow EXCEPT !.state = s, !.by = 1]
      BY <2>2 DEF CredentialsInit
    <3> QED
      BY <1>1, <3>1
  <2> QED
    BY <2>1, <2>2
<1>3. row \in [Rows -> Record]
  BY <1>2 DEF CredentialsInit
<1>4. /\ Absent \in [file : {"absent", "torn", "key"}, key : Nat] /\ Absent.file = "absent"
      /\ Idle.at = "idle" /\ Down \in [up : BOOLEAN, primary : Nat, extra : Nat]
  BY DEF Absent, Legacy, Idle, Down
<1>5. CredentialsType
  BY <1>3, <1>4, Initials DEF CredentialsInit, CredentialsType
<1>6. KeysHeld /\ Verified
  BY <1>4 DEF CredentialsInit, KeysHeld, Verified, Checked
<1>7. RowsOpenable
  BY <1>2 DEF CredentialsInit, RowsOpenable, Unwraps, OnDisk, Ring
<1> QED
  BY <1>5, <1>6, <1>7 DEF CredentialsInv

\* Whatever is killed and whenever, the key files open every stored credential, but for
\* what a server sealed behind the rotation's back (keyrotate.go:449).
THEOREM CredentialsCorrect == CredentialsSpec => []RowsOpenable
<1>1. CredentialsInv /\ [CredentialsNext]_credentialsVars => CredentialsInv'
  BY CredentialsStep
<1>2. CredentialsInv => RowsOpenable
  BY DEF CredentialsInv
<1> QED
  BY <1>1, <1>2, CredentialsBegin, PTL DEF CredentialsSpec
==============================================================================
