--------------------------------- MODULE Grab ---------------------------------
(***************************************************************************)
(* Grabs of the releases a search stored: the checks, the POST that makes    *)
(* Prowlarr send a release to a download client, a re-search and one more    *)
(* POST when Prowlarr has forgotten it, and the two records of what happened *)
(* (a provenance row, an audit row). Each grab is a request of a browser,    *)
(* under a deadline of its own; both can end at any step, while a POST that  *)
(* Prowlarr has received goes on.                                            *)
(***************************************************************************)
EXTENDS Naturals

CONSTANTS
  Grabs,       \* handlers of grabs under way at once
  CandidateRows, \* rows of release_candidate
  ReleaseOf,   \* of each candidate, the indexer and guid Prowlarr caches it by
  MaxGrabs,    \* bound on the grabs started
  MaxForgets   \* bound on the restarts of Prowlarr

ASSUME GrabAssumption ==
  /\ DOMAIN ReleaseOf = CandidateRows
  /\ MaxGrabs \in Nat /\ MaxForgets \in Nat

VARIABLES
  live,    \* candidates stored and within their TTL
  cached,  \* external: the releases in Prowlarr's grab cache
  forgets, \* external: restarts of Prowlarr so far
  grab,    \* the handlers
  wire,    \* external: the grabs whose POST Prowlarr has received and not handled
  grabs    \* grabs started

grabVars == <<live, cached, forgets, grab, wire, grabs>>

\* A handler: the reply to the POST, the outcome told, the rows written; and, as a
\* history, how often the release was sent.
NoGrab == [at |-> "idle", cand |-> "none", retried |-> FALSE, ctx |-> "alive", reply |-> "none",
           outcome |-> "none", provenance |-> "none", audit |-> "none", sent |-> 0]

Replies == {"200", "unreadable", "oversize", "500", "noclient", "rejected", "404"}
\* A 500 can follow the dispatch; a 2xx always does.
Dispatches(reply) == reply \in {"200", "unreadable", "oversize", "500"}

Release(g) == ReleaseOf[grab[g].cand]
------------------------------------------------------------------------------
\* The search stores what an indexer answered, and Prowlarr has it in its cache.
Offer(c) ==
  /\ c \notin live
  /\ live' = live \cup {c}
  /\ cached' = cached \cup {ReleaseOf[c]}
  /\ UNCHANGED <<forgets, grab, wire, grabs>>

\* The TTL passes; the sweeper deletes the row sooner or later.
ExpireCandidate(c) ==
  /\ c \in live
  /\ live' = live \ {c}
  /\ UNCHANGED <<cached, forgets, grab, wire, grabs>>

ProwlarrForgets ==
  /\ forgets < MaxForgets /\ forgets' = forgets + 1
  /\ cached' = {}
  /\ UNCHANGED <<live, grab, wire, grabs>>

\* Prowlarr handles the POST, whoever still waits for it.
Handle(g, reply) ==
  /\ g \in wire
  /\ (reply = "404") <=> (Release(g) \notin cached)
  /\ wire' = wire \ {g}
  /\ grab' = [grab EXCEPT ![g].sent = IF Dispatches(reply) THEN @ + 1 ELSE @,
                          ![g].reply = IF grab[g].at = "sent" THEN reply ELSE @]
  /\ UNCHANGED <<live, cached, forgets, grabs>>
------------------------------------------------------------------------------
\* handleGrab, and Grab up to the download clients. Nothing keeps two handlers off
\* one candidate.
StartGrab(g, c) ==
  /\ grab[g].at \in {"idle", "over"} /\ g \notin wire /\ grabs < MaxGrabs
  /\ c \in live
  /\ grab' = [grab EXCEPT ![g] = [NoGrab EXCEPT !.at = "preflight", !.cand = c]]
  /\ grabs' = grabs + 1
  /\ UNCHANGED <<live, cached, forgets, wire>>

\* What is left to do once the outcome is known: a row of provenance, unless the
\* release was not sent, and an audit row.
Concluded(h, outcome) ==
  [h EXCEPT !.at = IF outcome = "not_sent" THEN "audit" ELSE "record", !.outcome = outcome]

\* No enabled client for the release: nothing is sent. A list of clients that cannot be
\* read stops nothing.
Preflight(g, ready) ==
  /\ grab[g].at = "preflight"
  /\ grab' = [grab EXCEPT ![g] = IF ready THEN [@ EXCEPT !.at = "post"] ELSE Concluded(@, "not_sent")]
  /\ UNCHANGED <<live, cached, forgets, wire, grabs>>

\* The POST leaves, or is refused on this side: an open breaker, the request policy.
Post(g, leaves) ==
  /\ grab[g].at = "post"
  /\ grab' = [grab EXCEPT ![g] = IF leaves THEN [@ EXCEPT !.at = "sent", !.reply = "none"]
                                 ELSE Concluded(@, "not_sent")]
  /\ wire' = IF leaves THEN wire \cup {g} ELSE wire
  /\ UNCHANGED <<live, cached, forgets, grabs>>

\* Only a miss of the cache is tried again, once.
Retries(h, reply) == ~h.retried /\ reply = "404"

\* grabError for which every answer that is not a 2xx is a failure.
OutcomeByStatus(reply) ==
  IF reply \in {"200", "unreadable"} THEN "sent_confirmed" ELSE "not_sent"

\* classify and grabError, from the sentinel the client made of the answer. An answer
\* too large to read has none of its own.
OutcomeOf(reply) ==
  CASE reply \in {"200", "unreadable"} -> "sent_confirmed"
    [] reply \in {"500", "lost"} -> "sent_unknown"
    [] reply \in {"404", "noclient", "rejected", "oversize"} -> "not_sent"

\* An answer comes, or none will: a deadline, the browser or the connection is gone.
Hear(g, reply) ==
  /\ grab[g].at = "sent"
  /\ reply \in {"lost", grab[g].reply} \ {"none"}
  /\ grab' = [grab EXCEPT ![g] =
       IF Retries(@, reply) THEN [@ EXCEPT !.at = "research", !.reply = "none"]
       ELSE [Concluded(@, OutcomeOf(reply)) EXCEPT !.reply = reply]]
  /\ UNCHANGED <<live, cached, forgets, wire, grabs>>

\* reSearch: Prowlarr's answer puts the release back into its cache, when it has it.
ReSearch(g, found) ==
  /\ grab[g].at = "research"
  /\ found => grab[g].ctx = "alive"
  /\ cached' = IF found THEN cached \cup {Release(g)} ELSE cached
  /\ grab' = [grab EXCEPT ![g] = IF found THEN [@ EXCEPT !.at = "post", !.retried = TRUE]
                                 ELSE Concluded(@, "not_sent")]
  /\ UNCHANGED <<live, forgets, wire, grabs>>

\* recordProvenance, under the context of the grab. "lost" is a write that the end of
\* the context refused, "db_error" one that the database did.
Record(g, stored) ==
  /\ grab[g].at = "record"
  /\ stored => grab[g].ctx = "alive"
  /\ grab' = [grab EXCEPT ![g].at = "audit",
       ![g].provenance = CASE stored /\ grab[g].outcome = "sent_confirmed" -> "confirmed"
                           [] stored /\ grab[g].outcome = "sent_unknown" -> "unconfirmed"
                           [] ~stored -> IF grab[g].ctx = "alive" THEN "db_error" ELSE "lost"]
  /\ UNCHANGED <<live, cached, forgets, wire, grabs>>

\* The audit row, under the context of the request, which the deadline does not end.
Audit(g, stored) ==
  /\ grab[g].at = "audit"
  /\ stored => grab[g].ctx # "left"
  /\ grab' = [grab EXCEPT ![g].at = "over",
       ![g].audit = CASE stored -> grab[g].outcome
                      [] ~stored -> IF grab[g].ctx = "left" THEN "lost" ELSE "db_error"]
  /\ UNCHANGED <<live, cached, forgets, wire, grabs>>

\* grabTimeout passes, or the browser leaves.
EndContext(g, why) ==
  /\ grab[g].at \notin {"idle", "over"}
  /\ \/ why = "late" /\ grab[g].ctx = "alive"
     \/ why = "left" /\ grab[g].ctx # "left"
  /\ grab' = [grab EXCEPT ![g].ctx = why]
  /\ UNCHANGED <<live, cached, forgets, wire, grabs>>
------------------------------------------------------------------------------
GrabInit ==
  /\ live = {} /\ cached = {} /\ forgets = 0 /\ wire = {} /\ grabs = 0
  /\ grab = [g \in Grabs |-> NoGrab]

Step(g) ==
  \/ \E ok \in BOOLEAN :
       Preflight(g, ok) \/ Post(g, ok) \/ ReSearch(g, ok) \/ Record(g, ok) \/ Audit(g, ok)
  \/ \E reply \in Replies \cup {"lost"} : Hear(g, reply)

GrabNext ==
  \/ \E c \in CandidateRows : Offer(c) \/ ExpireCandidate(c)
  \/ ProwlarrForgets
  \/ \E g \in Grabs :
       \/ \E c \in CandidateRows : StartGrab(g, c)
       \/ Step(g)
       \/ \E reply \in Replies : Handle(g, reply)
       \/ \E why \in {"late", "left"} : EndContext(g, why)

\* Every request has a deadline: a handler goes on.
GrabSpec == GrabInit /\ [][GrabNext]_grabVars /\ \A g \in Grabs : WF_grabVars(Step(g))
------------------------------------------------------------------------------

\* One grab sends its release at most once, though Prowlarr may restart between its two
\* POSTs and an answer may come after the grab gave up on it (grab.go:235).  What it calls
\* not sent was not sent and is not on its way, save an answer too large to read; and what
\* was sent is in the provenance or in the audit log once the grab is over, unless the
\* browser had left or the database failed (grab.go:134).
GrabTruthful ==
  \A g \in Grabs :
    /\ grab[g].sent + (IF g \in wire THEN 1 ELSE 0) <= 1
    /\ grab[g].reply # "oversize" =>
         /\ grab[g].outcome = "not_sent" => grab[g].sent = 0 /\ g \notin wire
         /\ grab[g].at = "over" /\ grab[g].sent > 0 =>
              \/ grab[g].provenance \in {"confirmed", "unconfirmed", "db_error"}
              \/ grab[g].audit \in {"sent_unknown", "sent_confirmed", "db_error"}
              \/ grab[g].ctx = "left"
==============================================================================
