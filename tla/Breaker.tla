------------------------------- MODULE Breaker -------------------------------
(***************************************************************************)
(* The circuit breaker every upstream client of UsArr keeps one of, per      *)
(* service instance, and the release search one of per indexer.              *)
(*                                                                          *)
(* A breaker is a record of                                                 *)
(*   state     closed, open or half-open                                    *)
(*   failures  failures since the last trip or success                      *)
(*   openings  consecutive trips, which drive the exponential backoff; once *)
(*             the cooldown is at its cap more of them change nothing, so   *)
(*             they are counted up to Saturation                            *)
(*   wait      retryAt - now, in ticks, 0 once the cooldown has elapsed     *)
(*   probing   probeInFlight                                                *)
(* The mutex makes every operation of the code one step; here each is an    *)
(* operator from the breaker before to the breaker after.                    *)
(***************************************************************************)
EXTENDS Naturals, FiniteSetsExt

CONSTANTS
  FailureThreshold,  \* failures that open a closed breaker
  BaseCooldown,      \* ticks of the first cooldown
  MaxCooldown,       \* ticks the doubling is capped at
  JitterPercent,     \* how far a cooldown may be drawn off its length
  Saturation         \* bound on openings, past which the cooldown is at its cap

ASSUME BreakerAssumption ==
  /\ FailureThreshold \in Nat \ {0}
  /\ BaseCooldown \in Nat \ {0} /\ MaxCooldown \in Nat
  /\ BaseCooldown <= MaxCooldown
  /\ JitterPercent \in 0..100
  /\ Saturation \in Nat \ {0}
  /\ BaseCooldown * 2^(Saturation - 1) >= MaxCooldown
------------------------------------------------------------------------------
BreakerStates == {"closed", "open", "half-open"}

\* cooldown(), before its jitter: the base, doubled once per trip after the first.
Backoff(openings) == Min({BaseCooldown * 2^(openings - 1), MaxCooldown})

\* The lengths the jitter can leave of a cooldown.
Cooldowns(openings) ==
  LET d == Backoff(openings)
      spread == (d * JitterPercent) \div 100
  IN (d - spread)..(d + spread)

Longest == MaxCooldown + (MaxCooldown * JitterPercent) \div 100

Breakers ==
  [state : BreakerStates, failures : 0..(FailureThreshold - 1), openings : 0..Saturation,
   wait : 0..Longest, probing : BOOLEAN]

NewBreaker == [state |-> "closed", failures |-> 0, openings |-> 0, wait |-> 0, probing |-> FALSE]

\* Allow, when it answers nil.
Admits(b) ==
  \/ b.state = "closed"
  \/ b.state = "open" /\ b.wait = 0
  \/ b.state = "half-open" /\ ~b.probing

\* ... and the breaker it leaves: one that is not closed has now spent its probe.
Admitted(b) ==
  IF b.state = "closed" THEN b ELSE [b EXCEPT !.state = "half-open", !.probing = TRUE]

\* Success: whichever call reports it, and whatever the state.
Succeeded(b) == NewBreaker

\* trip: the breakers it can leave, one per cooldown the jitter can draw.
Tripped(b) ==
  LET openings == Min({b.openings + 1, Saturation})
  IN {[b EXCEPT !.state = "open", !.failures = 0, !.openings = openings, !.wait = w] :
        w \in Cooldowns(openings)}

\* A report that leaves the probe's mark standing.
FailedForgettingProbe(b) ==
  IF b.state = "half-open" \/ b.failures + 1 >= FailureThreshold
  THEN Tripped(b)
  ELSE {[b EXCEPT !.failures = @ + 1]}

\* Failure: the probe's own trips at once; any other counts, an open breaker's
\* too, which the late failures of a burst trip again.
Failed(b) ==
  LET heard == [b EXCEPT !.probing = FALSE]
  IN IF b.state = "half-open" \/ b.failures + 1 >= FailureThreshold
     THEN Tripped(heard)
     ELSE {[heard EXCEPT !.failures = @ + 1]}

\* What a report of either kind, or none, can leave.
Reported(b, verdict) ==
  CASE verdict = "success" -> {Succeeded(b)}
    [] verdict = "failure" -> Failed(b)
    [] verdict = "none" -> {b}

\* A cooldown measured from the moment of asking.
WaitedFromNow(b) == b

\* A tick of the clock the cooldown is measured by.
Waited(b) == [b EXCEPT !.wait = IF @ = 0 THEN 0 ELSE @ - 1]
==============================================================================
