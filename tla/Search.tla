-------------------------------- MODULE Search --------------------------------
(***************************************************************************)
(* The release search: one request per indexer under a semaphore and a       *)
(* breaker each, one collector that keeps the best copy of every release     *)
(* and stores it, a bounded channel of events, and the pump that turns them  *)
(* into what a browser is told. Two deadlines bound it, the fan-out's own    *)
(* and, later, the one the handler put around it.                            *)
(*                                                                          *)
(* An answer is the status of a leg and the guids it brought; the guids of   *)
(* one answer are distinct, as Prowlarr's are. A result is the candidate row *)
(* it was stored as and the candidate it supersedes, 0 for none.             *)
(***************************************************************************)
EXTENDS Breaker, FiniteSets, Sequences, Functions

CONSTANTS
  Searches,    \* searches under way at once
  Indexers,    \* Prowlarr's, by number
  PriorityOf,  \* of each indexer, the lowest is the best
  Guids,
  Concurrency,
  OutLen,      \* capacity of the channel of events
  MaxSearches  \* bound on the searches started

ASSUME SearchAssumption ==
  /\ Indexers \subseteq Nat \ {0} /\ IsFiniteSet(Indexers) /\ IsFiniteSet(Guids)
  /\ PriorityOf \in [Indexers -> Nat]
  /\ Concurrency \in Nat \ {0} /\ OutLen \in Nat \ {0} /\ MaxSearches \in Nat

VARIABLES
  breakers,  \* Service.breakers
  fan,      \* runFanOut: where it is, the events it has yet to emit, its report
  expired,  \* per search, the deadlines that have passed: none, inner or both
  leg,      \* per search and indexer: none, waiting, running, answered, collected
  answer,   \* what the leg came back with
  emitted,  \* per search, the slot of each guid already emitted
  out,      \* the channel
  pump,     \* pumpSearch: idle, on or over
  rows,     \* release_candidate, in the order of its ids
  shown,    \* history: the candidates a browser shows of the search
  word,     \* history: the last word of the search: none, done or failed
  started

searchVars == <<breakers, fan, expired, leg, answer, emitted, out, pump, rows, shown, word, started>>

NoAnswer == [status |-> "none", guids |-> {}]
Resting == [at |-> "idle", pend |-> <<>>, report |-> [answered |-> 0, failed |-> 0, skipped |-> 0]]

Event(kind) == [kind |-> kind, results |-> {}]
Slots(s) == Cardinality({i \in Indexers : leg[s][i] = "running"})
------------------------------------------------------------------------------
\* handleSearch and Search: the plan splits the indexers into those asked, those
\* skipped and those not named. What is skipped is reported before any answer.
StartSearch(s, legs, skips) ==
  /\ pump[s] # "on" /\ fan[s].at \in {"idle", "over"}
  /\ \A i \in Indexers : leg[s][i] \notin {"waiting", "running"}
  /\ started < MaxSearches /\ started' = started + 1
  /\ legs \cup skips # {} /\ legs \cap skips = {}
  /\ fan' = [fan EXCEPT ![s] =
       [Resting EXCEPT !.at = "skips", !.report.skipped = Cardinality(skips),
                       !.pend = [n \in 1..Cardinality(skips) |-> Event("indexer_done")]]]
  /\ leg' = [leg EXCEPT ![s] = [i \in Indexers |-> IF i \in legs THEN "planned" ELSE "none"]]
  /\ answer' = [answer EXCEPT ![s] = [i \in Indexers |-> NoAnswer]]
  /\ emitted' = [emitted EXCEPT ![s] = <<>>]
  /\ out' = [out EXCEPT ![s] = <<>>]
  /\ expired' = [expired EXCEPT ![s] = "none"]
  /\ pump' = [pump EXCEPT ![s] = "on"]
  /\ shown' = [shown EXCEPT ![s] = {}] /\ word' = [word EXCEPT ![s] = "none"]
  /\ UNCHANGED <<breakers, rows>>

\* One goroutine per leg, and the word that each has begun.
Launch(s) ==
  LET planned == {i \in Indexers : leg[s][i] = "planned"} IN
  /\ fan[s].at = "skips" /\ fan[s].pend = <<>>
  /\ leg' = [leg EXCEPT ![s] = [i \in Indexers |-> IF i \in planned THEN "waiting" ELSE @[i]]]
  /\ fan' = [fan EXCEPT ![s].at = "collect",
       ![s].pend = [n \in 1..Cardinality(planned) |-> Event("indexer_started")]]
  /\ UNCHANGED <<breakers, expired, answer, emitted, out, pump, rows, shown, word, started>>

\* emit: the channel takes the event ...
Emit(s) ==
  /\ fan[s].at # "over" /\ fan[s].pend # <<>> /\ Len(out[s]) < OutLen
  /\ out' = [out EXCEPT ![s] = Append(@, Head(fan[s].pend))]
  /\ fan' = [fan EXCEPT ![s].pend = Tail(@)]
  /\ UNCHANGED <<breakers, expired, leg, answer, emitted, pump, rows, shown, word, started>>

\* A fan-out that waits for the channel, whatever the deadline.
AbandonWaiting(s) ==
  /\ fan[s].at = "collect" /\ expired[s] # "none" /\ fan[s].pend = <<>>
  /\ \E i \in Indexers : leg[s][i] \in {"waiting", "running", "answered"}
  /\ fan' = [fan EXCEPT ![s].at = "over"]
  /\ UNCHANGED <<breakers, expired, leg, answer, emitted, out, pump, rows, shown, word, started>>

\* ... or the deadline has passed, and the fan-out returns, whatever it waits for.
Abandon(s) ==
  /\ fan[s].at \in {"skips", "collect", "report"} /\ expired[s] # "none"
  /\ fan[s].pend # <<>> \/ \E i \in Indexers : leg[s][i] \in {"waiting", "running", "answered"}
  /\ fan' = [fan EXCEPT ![s].at = "over", ![s].pend = <<>>]
  /\ UNCHANGED <<breakers, expired, leg, answer, emitted, out, pump, rows, shown, word, started>>

Answered(s, i, a) ==
  /\ leg' = [leg EXCEPT ![s][i] = "answered"]
  /\ answer' = [answer EXCEPT ![s][i] = a]

\* The semaphore, then the breaker.
TakeSlot(s, i) ==
  /\ leg[s][i] = "waiting" /\ Slots(s) < Concurrency
  /\ IF Admits(breakers[i])
     THEN /\ leg' = [leg EXCEPT ![s][i] = "running"]
          /\ breakers' = [breakers EXCEPT ![i] = Admitted(@)]
          /\ UNCHANGED answer
     ELSE /\ Answered(s, i, [NoAnswer EXCEPT !.status = "breaker_open"])
          /\ UNCHANGED breakers
  /\ UNCHANGED <<fan, expired, emitted, out, pump, rows, shown, word, started>>

NeverAsked(s, i) ==
  /\ leg[s][i] = "waiting" /\ expired[s] # "none"
  /\ Answered(s, i, [NoAnswer EXCEPT !.status = "timed_out"])
  /\ UNCHANGED <<breakers, fan, expired, emitted, out, pump, rows, shown, word, started>>

\* runLeg's switch: what Prowlarr answered, and what the indexer's breaker hears.
LegEnds(s, i, status, guids) ==
  LET verdict == CASE status = "ok" -> "success"
                   [] status \in {"timed_out", "failed"} -> "failure"
                   [] status = "unauthorized" -> "none"
  IN /\ leg[s][i] = "running"
     /\ status # "ok" => guids = {}
     /\ \E b \in Reported(breakers[i], verdict) : breakers' = [breakers EXCEPT ![i] = b]
     /\ Answered(s, i, [status |-> status, guids |-> guids])
     /\ UNCHANGED <<fan, expired, emitted, out, pump, rows, shown, word, started>>
------------------------------------------------------------------------------
Seen(s, g) == g \in DOMAIN emitted[s]

\* Whoever answers first keeps the release.
FirstCopy(s, i) == {g \in answer[s][i].guids : ~Seen(s, g)}

\* The guids of an answer that no indexer as good has brought yet.
Kept(s, i) ==
  {g \in answer[s][i].guids : Seen(s, g) => PriorityOf[i] < emitted[s][g].priority}

\* The report with one answer more.
Tallied(report, ok) ==
  IF ok THEN [report EXCEPT !.answered = @ + 1] ELSE [report EXCEPT !.failed = @ + 1]

\* One result off the results channel: dedupe, persist, report. The events of it are
\* left to emit before the next.
Collect(s, i, stored) ==
  LET kept == Kept(s, i)
      order == CHOOSE f \in [kept -> 1..Cardinality(kept)] : IsInjective(f)
      id(g) == Len(rows) + order[g]
      results == {[cand |-> id(g), guid |-> g, indexer |-> i,
                   supersedes |-> IF Seen(s, g) THEN emitted[s][g].cand ELSE 0] : g \in kept}
      ok == answer[s][i].status = "ok" /\ stored
  IN /\ fan[s].at = "collect" /\ fan[s].pend = <<>> /\ leg[s][i] = "answered"
     /\ ~stored => answer[s][i].status = "ok" /\ kept # {}
     /\ leg' = [leg EXCEPT ![s][i] = "collected"]
     /\ answer' = IF stored THEN answer ELSE [answer EXCEPT ![s][i].status = "failed"]
     /\ rows' = IF ok THEN rows \o [n \in 1..Cardinality(kept) |->
                  [guid |-> CHOOSE g \in kept : order[g] = n, indexer |-> i]] ELSE rows
     /\ emitted' = IF ~ok THEN emitted ELSE [emitted EXCEPT ![s] =
          [g \in DOMAIN @ \cup kept |->
             IF g \in kept THEN [cand |-> id(g), priority |-> PriorityOf[i]] ELSE @[g]]]
     /\ fan' = [fan EXCEPT
          ![s].pend = (IF ok /\ kept # {} THEN <<[kind |-> "results", results |-> results]>>
                       ELSE <<>>) \o <<Event("indexer_done")>>,
          ![s].report = Tallied(@, ok)]
     /\ UNCHANGED <<breakers, expired, out, pump, shown, word, started>>

\* Every leg is in: the report, then the channel closes.
Report(s) ==
  /\ fan[s].at = "collect" /\ fan[s].pend = <<>>
  /\ \A i \in Indexers : leg[s][i] \in {"none", "collected"}
  /\ fan' = [fan EXCEPT ![s].at = "report", ![s].pend = <<Event("done")>>]
  /\ UNCHANGED <<breakers, expired, leg, answer, emitted, out, pump, rows, shown, word, started>>

CloseOut(s) ==
  /\ fan[s].at = "report" /\ fan[s].pend = <<>>
  /\ fan' = [fan EXCEPT ![s].at = "over"]
  /\ UNCHANGED <<breakers, expired, leg, answer, emitted, out, pump, rows, shown, word, started>>
------------------------------------------------------------------------------
\* publishSearchEvent, and what the page makes of it.
Take(s) ==
  LET ev == Head(out[s]) IN
  /\ pump[s] = "on" /\ out[s] # <<>>
  /\ out' = [out EXCEPT ![s] = Tail(@)]
  /\ shown' = [shown EXCEPT ![s] =
       {c \in @ : \A r \in ev.results : r.supersedes # c.cand} \cup ev.results]
  /\ IF ev.kind = "done"
     THEN pump' = [pump EXCEPT ![s] = "over"] /\ word' = [word EXCEPT ![s] = "done"]
     ELSE UNCHANGED <<pump, word>>
  /\ UNCHANGED <<breakers, fan, expired, leg, answer, emitted, rows, started>>

\* The channel is closed and empty: the pump returns, and publishes nothing.
PumpClosed(s) ==
  /\ pump[s] = "on" /\ out[s] = <<>> /\ fan[s].at = "over"
  /\ pump' = [pump EXCEPT ![s] = "over"]
  /\ UNCHANGED <<breakers, fan, expired, leg, answer, emitted, out, rows, shown, word, started>>

PumpLate(s) ==
  /\ pump[s] = "on" /\ expired[s] = "both"
  /\ pump' = [pump EXCEPT ![s] = "over"] /\ word' = [word EXCEPT ![s] = "failed"]
  /\ UNCHANGED <<breakers, fan, expired, leg, answer, emitted, out, rows, shown, started>>

\* OverallTimeout passes first; searchBudget leaves the fan-out time to return, but a
\* write that is slow to abort can outlast it.
Expire(s) ==
  /\ pump[s] = "on" /\ expired[s] # "both"
  /\ expired' = [expired EXCEPT ![s] = IF @ = "none" THEN "inner" ELSE "both"]
  /\ UNCHANGED <<breakers, fan, leg, answer, emitted, out, pump, rows, shown, word, started>>

BreakerTick(i) ==
  /\ breakers[i].wait > 0
  /\ breakers' = [breakers EXCEPT ![i] = Waited(@)]
  /\ UNCHANGED <<fan, expired, leg, answer, emitted, out, pump, rows, shown, word, started>>
------------------------------------------------------------------------------
SearchesInit ==
  /\ breakers = [i \in Indexers |-> NewBreaker]
  /\ fan = [s \in Searches |-> Resting]
  /\ expired = [s \in Searches |-> "none"]
  /\ leg = [s \in Searches |-> [i \in Indexers |-> "none"]]
  /\ answer = [s \in Searches |-> [i \in Indexers |-> NoAnswer]]
  /\ emitted = [s \in Searches |-> <<>>]
  /\ out = [s \in Searches |-> <<>>]
  /\ pump = [s \in Searches |-> "idle"]
  /\ rows = <<>>
  /\ shown = [s \in Searches |-> {}]
  /\ word = [s \in Searches |-> "none"]
  /\ started = 0

FanOut(s) ==
  \/ Launch(s) \/ Emit(s) \/ Abandon(s) \/ Report(s) \/ CloseOut(s)
  \/ \E i \in Indexers, stored \in BOOLEAN : Collect(s, i, stored)

Ask(s, i) ==
  \/ TakeSlot(s, i) \/ NeverAsked(s, i)
  \/ \E status \in {"ok", "timed_out", "failed", "unauthorized"}, guids \in SUBSET Guids :
       LegEnds(s, i, status, guids)

Pump(s) == Take(s) \/ PumpClosed(s) \/ PumpLate(s)

SearchesNext ==
  \/ \E s \in Searches :
       \/ \E legs, skips \in SUBSET Indexers : StartSearch(s, legs, skips)
       \/ FanOut(s) \/ Pump(s) \/ Expire(s)
       \/ \E i \in Indexers : Ask(s, i)
  \/ \E i \in Indexers : BreakerTick(i)

\* Every goroutine runs, every leg has a deadline, and time passes.
SearchFairness ==
  \A s \in Searches :
    /\ WF_searchVars(FanOut(s)) /\ WF_searchVars(Pump(s)) /\ WF_searchVars(Expire(s))
    /\ \A i \in Indexers : WF_searchVars(Ask(s, i))

SearchSpec == SearchesInit /\ [][SearchesNext]_searchVars /\ SearchFairness
------------------------------------------------------------------------------

\* At the closing report a browser that got every event shows each release once, in
\* the copy of the best indexer of those that answered and were stored, and the report
\* accounts for every indexer. Copies supersede each other in whatever order they come.
ClosingTruth ==
  \A s \in Searches : word[s] = "done" =>
    LET brought(g) == {i \in Indexers : answer[s][i].status = "ok" /\ g \in answer[s][i].guids}
        copies(g) == {c \in shown[s] : c.guid = g}
        report == fan[s].report
        asked == {i \in Indexers : leg[s][i] = "collected"}
    IN /\ \A g \in Guids :
            IF brought(g) = {} THEN copies(g) = {}
            ELSE \E c \in copies(g) : /\ copies(g) = {c}
                                     /\ \A i \in brought(g) : PriorityOf[c.indexer] <= PriorityOf[i]
       /\ report.answered = Cardinality({i \in asked : answer[s][i].status = "ok"})
       /\ report.answered + report.failed = Cardinality(asked)

\* Every search comes to its end on the server, none of its goroutines left behind.
SearchEnds ==
  \A s \in Searches :
    []<>(/\ pump[s] # "on" /\ fan[s].at \in {"idle", "over"}
         /\ \A i \in Indexers : leg[s][i] \notin {"waiting", "running"})
==============================================================================
