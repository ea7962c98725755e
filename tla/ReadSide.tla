------------------------------- MODULE ReadSide -------------------------------
(***************************************************************************)
(* The read side of the HTTP API over the replica: a client walks the library *)
(* grid page by page, asks for the facet counts, lists the libraries or        *)
(* searches, while the importer writes.  Every request is a sequence of        *)
(* statements on the read pool without a snapshot that spans them, so each     *)
(* statement is a step and transactions of the importer come in between.       *)
(*                                                                          *)
(* rows is table work (see Browse), lists the reports behind GET /libraries   *)
(* (see LibraryList).  reader is the request being served: at, the statement   *)
(* it is at, q its parameters, and what it has read so far.                    *)
(***************************************************************************)
EXTENDS LibrarySearch, LibraryList

CONSTANTS
  Unfiled,         \* the reserved library
  Stamps,          \* values of added_at and ranks of sort_title
  Queries,         \* the requests of the grid: [media, sort, libs, owner]
  SearchLimits,    \* values of limit in a search
  NoteShapes,      \* completeness notes an import can leave: [state, hidden]
  InitialRows,     \* the tables a reader can start on
  MaxWrites        \* bound on the importer's transactions

LibraryIds == ToSet(Libraries)

Sorts == {"added_at", "sort_title", "popularity"}
GridQueries == [media : MediaTypes \cup {Every}, sort : Sorts, libs : SUBSET LibraryIds, owner : BOOLEAN]

\* Formats an upstream reports, one that is neither of those the code asks for among them.
Formats == {Audiobook, "epub", Unreported}
Tables == [Works -> [live : BOOLEAN, added : Nat, title : Nat, formats : SUBSET Formats,
                     libs : SUBSET LibraryIds, filed : SUBSET LibraryIds]]

ASSUME ReadSideAssumption ==
  /\ Works \subseteq Nat \ {0} /\ IsFiniteSet(Works)
  /\ KindOf \in [Works -> browseKinds[Every]]
  /\ Stamps \subseteq Nat /\ BrowseLimit \in Nat \ {0} /\ MaxWrites \in Nat
  /\ SearchLimits \subseteq Nat \ {0}
  /\ Unfiled \notin LibraryIds
  /\ Queries \subseteq GridQueries /\ InitialRows \subseteq Tables
  /\ NoteShapes \subseteq [state : {"complete", "shortfall", "unverified"}, hidden : Nat]

VARIABLES
  rows, lists,
  reader,
  token,      \* the client's next_cursor, with the endpoint that issued it
  touched,    \* history: the works written since the walk or the request began, and Lists
  writes

table == <<rows, lists>>
readVars == <<rows, lists, reader, token, touched, writes>>

Idle == [at |-> "idle"]
NoToken == [from |-> "nowhere", cur |-> Start]

Lists == 0  \* stands in touched for what lists holds

RSInit ==
  /\ rows \in InitialRows
  /\ lists = [notes |-> [c \in Containers |-> NoNote], skips |-> [c \in Containers |-> NoNote],
              deleted |-> {}]
  /\ reader = Idle /\ token = NoToken /\ touched = {} /\ writes = 0
------------------------------------------------------------------------------
(* The importer's transactions, one per action.                              *)

Inserted(w) == rows[w].libs # {}

Write(what) ==
  /\ writes < MaxWrites /\ writes' = writes + 1
  /\ touched' = touched \cup {what}
  /\ UNCHANGED <<reader, token>>

\* writeSearchDoc: the work's document is replaced, filed under its libraries.
Refiled(row, libs) == [row EXCEPT !.libs = libs, !.filed = libs]

\* applyOneItem on an item without a work: the row, its membership and its document.
InsertWork(w, added, title, l) ==
  /\ ~ Inserted(w)
  /\ \A u \in Works : u < w => Inserted(u)
  /\ rows' = [rows EXCEPT ![w] = [live |-> TRUE, added |-> added, title |-> title,
                                  formats |-> {}, libs |-> {l}, filed |-> {l}]]
  /\ Write(w) /\ UNCHANGED lists

\* applyOneItem on a work that is there: retitled, revived, filed into the item's library
\* as well, its document filed under all of them.  added_at is not touched.
UpdateWork(w, title, l) ==
  /\ Inserted(w)
  /\ rows' = [rows EXCEPT ![w] = Refiled([@ EXCEPT !.live = TRUE, !.title = title],
                                         rows[w].libs \cup {l})]
  /\ Write(w) /\ UNCHANGED lists

\* The sweep: the row is tombstoned, its memberships and its document stay.
TombstoneWork(w) ==
  /\ rows[w].live
  /\ rows' = [rows EXCEPT ![w].live = FALSE]
  /\ Write(w) /\ UNCHANGED lists

\* The files pass: the work's one edition has the format the upstream reports.
WriteEdition(w, f) ==
  /\ Inserted(w) /\ KindOf[w] = "book" /\ rows[w].formats # {f}
  /\ rows' = [rows EXCEPT ![w].formats = {f}]
  /\ Write(w) /\ UNCHANGED lists

\* The end of a container's import: its completeness and what it skipped, as new rows.
ReportContainer(c, shape, items) ==
  /\ lists' = [lists EXCEPT
                 !.notes[c] = [state |-> shape.state, hidden |-> shape.hidden, at |-> writes + 1],
                 !.skips[c] = [items |-> items, at |-> writes + 1]]
  /\ Write(Lists) /\ UNCHANGED rows

DeleteInstance(i) ==
  /\ i \notin lists.deleted
  /\ lists' = [lists EXCEPT !.deleted = @ \cup {i}]
  /\ Write(Lists) /\ UNCHANGED rows
------------------------------------------------------------------------------
(* The library grid and the recently-added row.                               *)

Reading(r) == reader' = r /\ UNCHANGED <<table, writes>>
Refuse == Reading(Idle) /\ token' = NoToken /\ touched' = touched

\* The requests an endpoint takes: Home's row has one order and no filter.
Asked(from) ==
  IF from = "recent" THEN {[media |-> Every, sort |-> "added_at", libs |-> {}, owner |-> o] :
                             o \in BOOLEAN}
                     ELSE Queries

\* The endpoints' tokens carry different tags, and neither decodes the other's.
TokenFits(from, tok) == tok.cur = Start \/ (tok.from = from /\ Decodes(tok.cur))

\* LibraryIDsBySlug: the slugs of the filter resolve for the owner only.
LibrariesResolve(q) == q.libs = {} \/ q.owner

\* The client begins a walk, or asks for the next page of the one it is on, perhaps in
\* another order or of the other endpoint.
AskPage(from, q, tok) ==
  /\ reader.at \in {"idle", "shown"}
  /\ tok # NoToken => [q EXCEPT !.sort = reader.q.sort] = reader.q
  /\ IF TokenFits(from, tok) /\ Servable(q, tok.cur) /\ LibrariesResolve(q)
     THEN /\ Reading([at |-> "page", from |-> from, q |-> q, cur |-> tok.cur, page |-> <<>>,
                      shown |-> IF tok.cur = Start THEN <<>> ELSE reader.shown])
          /\ touched' = IF tok.cur = Start THEN {} ELSE touched
          /\ token' = NoToken
     ELSE Refuse

\* What the request shows and the token it returns, once its rows are all read.
Answered(r, page) ==
  IF Len(page) <= BrowseLimit
  THEN /\ Reading([r EXCEPT !.at = "walked", !.page = <<>>, !.shown = @ \o page])
       /\ token' = NoToken
  ELSE /\ Reading([r EXCEPT !.at = "shown", !.page = <<>>,
                            !.shown = @ \o SubSeq(page, 1, BrowseLimit)])
       /\ token' = [from |-> r.from, cur |-> browseNextCursor(r.q.sort, page)]

\* The first statement of a page; Answered, unless the undated tail is to be read.
ReadPage ==
  /\ reader.at = "page"
  /\ LET page == browseWorksPage(rows, reader.q, reader.cur, BrowseLimit + 1)
     IN  IF NeedsTail(reader.q, reader.cur, page)
         THEN Reading([reader EXCEPT !.at = "tail", !.page = page]) /\ token' = token
         ELSE Answered(reader, page)
  /\ UNCHANGED touched

\* The second: as many rows of the tail as the page has room for, and one.
ReadTail ==
  /\ reader.at = "tail"
  /\ Answered(reader, reader.page \o browseWorksPage(rows, reader.q, TailStart,
                                                     BrowseLimit + 1 - Len(reader.page)))
  /\ UNCHANGED touched

\* The client is done with what it was shown.
Leave ==
  /\ reader.at \in {"walked", "counted", "refused", "listed", "found"}
  /\ Reading(Idle) /\ token' = NoToken /\ UNCHANGED touched
------------------------------------------------------------------------------
(* The facet counts.                                                          *)

Begin(r) ==
  /\ reader.at = "idle"
  /\ Reading(r) /\ touched' = {} /\ UNCHANGED token

CountKinds(owner) ==
  Begin([at |-> "audiobooks", owner |-> owner, counts |-> mediaTypeCounts(rows, owner)])

\* More audiobooks than there were books: the statements disagree and the request fails.
CountAudiobooks ==
  /\ reader.at = "audiobooks"
  /\ LET n == audiobookCount(rows, reader.owner)
         counts == reader.counts
     IN  Reading(IF n > counts["ebooks"] THEN [at |-> "refused"]
                 ELSE [at |-> "counted", owner |-> reader.owner,
                       counts |-> [counts EXCEPT !["ebooks"] = @ - n, !["audiobooks"] = n]])
  /\ UNCHANGED <<touched, token>>
------------------------------------------------------------------------------
(* GET /libraries: the libraries with their sizes, the sources, the verdicts,  *)
(* the skips.                                                                  *)

\* libraryVisibilityPredicate, for the two scopes the program serves.
ListedTo(owner) == IF owner THEN Libraries ELSE <<>>

\* item_count of listLibrariesSQL: its live works.
SizeOf(owner, l) == Cardinality({w \in Works : Visible(rows, owner, w) /\ l \in rows[w].libs})

ListLibraries(owner) ==
  Begin([at |-> "sources", ids |-> ListedTo(owner),
         sizes |-> [l \in LibraryIds |-> SizeOf(owner, l)],
         sources |-> <<>>, verdicts |-> <<>>, skips |-> <<>>])

AttachSources ==
  /\ reader.at = "sources"
  /\ Reading([reader EXCEPT !.at = IF reader.ids = <<>> THEN "listed" ELSE "verdicts",
                !.sources = [l \in ToSet(reader.ids) |-> ToSet(Shown(lists, l))]])
  /\ UNCHANGED <<touched, token>>

AttachCompleteness ==
  /\ reader.at = "verdicts"
  /\ Reading([reader EXCEPT !.at = "skips",
                !.verdicts = [l \in ToSet(reader.ids) |-> Completeness(lists, l)]])
  /\ UNCHANGED <<touched, token>>

AttachSkips ==
  /\ reader.at = "skips"
  /\ Reading([reader EXCEPT !.at = "listed",
                !.skips = [l \in ToSet(reader.ids) |-> Skips(lists, l)]])
  /\ UNCHANGED <<touched, token>>
------------------------------------------------------------------------------
(* GET /search.                                                               *)

\* Every library is enabled and searched, Unfiled among them.
ReadSearchable(owner, limit) ==
  Begin([at |-> "retrieve", owner |-> owner, limit |-> limit, libs |-> LibraryIds \cup {Unfiled}])

Retrieve ==
  /\ reader.at = "retrieve"
  /\ LET ranked == rerank(rows, Candidates(rows, reader.owner, reader.libs))
     IN  Reading([at |-> "found", owner |-> reader.owner, limit |-> reader.limit,
                  ranked |-> ranked, hits |-> First(reader.limit, diversify(ranked))])
  /\ UNCHANGED <<touched, token>>
------------------------------------------------------------------------------
Import ==
  \/ \E w \in Works, l \in LibraryIds, title \in Stamps :
       \/ \E added \in Stamps : InsertWork(w, added, title, l)
       \/ UpdateWork(w, title, l)
  \/ \E w \in Works : TombstoneWork(w) \/ \E f \in Formats : WriteEdition(w, f)
  \/ \E c \in Containers, shape \in NoteShapes, items \in 0 .. 1 : ReportContainer(c, shape, items)
  \/ \E i \in {c.instance : c \in Containers} : DeleteInstance(i)

Serve ==
  \/ \E from \in {"works", "recent"} : \E q \in Asked(from), tok \in {NoToken, token} :
       AskPage(from, q, tok)
  \/ ReadPage \/ ReadTail
  \/ \E owner \in BOOLEAN : \/ CountKinds(owner) \/ ListLibraries(owner)
                            \/ \E limit \in SearchLimits : ReadSearchable(owner, limit)
  \/ CountAudiobooks \/ AttachSources \/ AttachCompleteness \/ AttachSkips \/ Retrieve
  \/ Leave

RSNext == Import \/ Serve

RSSpec == RSInit /\ [][RSNext]_readVars
------------------------------------------------------------------------------
Times(seq, w) == Cardinality({n \in DOMAIN seq : seq[n].id = w})

\* Whatever the importer inserts, tombstones, revives or retitles meanwhile, a walk of the
\* grid in any order shows every work that nobody touched exactly once if the filter
\* admits it, and never otherwise, and every row it shows has the media type asked for:
\* browse.go's keyset, its undated tail, and the media type in a WHERE and in a column.
WalkExact ==
  reader.at = "walked" =>
    /\ \A w \in Works \ touched :
         Times(reader.shown, w) = IF Admitted(rows, reader.q, w) THEN 1 ELSE 0
    /\ reader.q.media # Every => \A n \in DOMAIN reader.shown : reader.shown[n].type = reader.q.media

\* When nothing is written between the two statements, the facet counts are those of the
\* media types that the grid's rows carry, and the request is not refused; and whatever is
\* written, a refusal has that cause (facets.go).
FacetsExact ==
  (reader.at \in {"counted", "refused"} /\ touched = {}) =>
    /\ reader.at = "counted"
    /\ \A m \in MediaTypes :
         reader.counts[m] = Cardinality({w \in Works : Visible(rows, reader.owner, w)
                                                       /\ mediaTypeOf(rows, w) = m})

StatesOf(l) == {lists.notes[ContainerOf(src)].state :
                  src \in {x \in ToSet(Shown(lists, l)) : lists.notes[ContainerOf(x)] # NoNote}}

Worst(states) ==
  IF states = {} THEN "none"
  ELSE IF "unverified" \in states THEN "unverified"
  ELSE IF "shortfall" \in states THEN "shortfall" ELSE "complete"

\* A library is listed with the worst verdict among its containers, with totals only if
\* every one of them is verified, and with the items skipped in all, whatever the order its
\* sources are read in, and with the number of works that the grid shows under its filter
\* (libraries.go).
ListingExact ==
  (reader.at = "listed" /\ touched = {}) =>
    \A l \in ToSet(reader.ids) :
      LET verdict == reader.verdicts[l]
          noted == Noted(lists, lists.notes, l)
          skipped == Noted(lists, lists.skips, l)
      IN  /\ verdict.state = Worst(StatesOf(l))
          /\ verdict.hidden = IF verdict.state \in {"none", "unverified"} THEN 0
                ELSE SumFunction([n \in DOMAIN noted |-> lists.notes[ContainerOf(noted[n])].hidden])
          /\ reader.skips[l].items =
               SumFunction([n \in DOMAIN skipped |-> lists.skips[ContainerOf(skipped[n])].items])
          /\ reader.sizes[l] = Cardinality({w \in Works : Admitted(rows,
               [media |-> Every, sort |-> "added_at", libs |-> {l}, owner |-> TRUE], w)})

\* A document of the query ranks ahead of w in leg n.
AheadIn(n, w) == {u \in ToSet(Legs[n]) : /\ rows[u].filed # {}
                                         /\ \E a, b \in DOMAIN Legs[n] :
                                              a < b /\ Legs[n][a] = u /\ Legs[n][b] = w}

Returned(w) == \E n \in DOMAIN reader.hits : reader.hits[n].id = w

\* What the client gets of a search is live works, each once; a live work that a leg
\* matches is left out only where RetrievalLimit documents rank ahead of it in every leg
\* that matches it, or for the limit asked for or the statement's. A client that asks for
\* a window or more gets no fewer media types at its top than rank there, and the best row
\* of each type that ranks below it (searchlibrary.go).
SearchExact ==
  (reader.at = "found" /\ touched = {}) =>
    /\ \A n \in DOMAIN reader.hits : Visible(rows, reader.owner, reader.hits[n].id)
    /\ \A w \in Works : Times(reader.hits, w) <= 1
    /\ \A w \in Works, n \in DOMAIN Legs :
         /\ Visible(rows, reader.owner, w) /\ rows[w].filed # {}
         /\ w \in ToSet(Legs[n]) /\ ~ Returned(w)
         => \/ Cardinality(AheadIn(n, w)) >= RetrievalLimit
            \/ Len(reader.hits) >= Least(reader.limit, RetrievalLimit)
    /\ reader.limit >= Window =>
         LET top == TypesIn(First(Window, reader.hits))
             ranking == TypesIn(First(Window, reader.ranked))
             missed == TypesIn(reader.ranked) \ ranking
         IN  /\ Cardinality(top) >= Cardinality(ranking)
             /\ Cardinality(missed) <= Window => missed \subseteq top
==============================================================================
