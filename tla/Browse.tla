-------------------------------- MODULE Browse --------------------------------
(***************************************************************************)
(* The statements behind the library grid, Home's recently-added row and    *)
(* the facet counts, as functions of the table they read.                    *)
(*                                                                          *)
(* d is the table work with what hangs off it: d[w] is the work with id w,   *)
(*   live     the row exists and its deleted_at is NULL                      *)
(*   added    added_at, fixed when the row is inserted; Undated is NULL      *)
(*   title    sort_title, a number of its order; Untitled is ""              *)
(*   formats  the formats of its editions; Unreported is a NULL format       *)
(*   libs     library_member, and filed: search_doc_library, empty while the *)
(*            work has no document                                            *)
(* Ids are the order of insertion. popularity is 0 in every row: no pass      *)
(* writes it.                                                                 *)
(***************************************************************************)
EXTENDS Naturals, Sequences, FiniteSets, SequencesExt, Selecting

CONSTANTS
  Works,        \* ids of table work
  KindOf,       \* work.kind
  BrowseLimit   \* rows per page

Undated == 0
Untitled == 0
Audiobook == "audiobook"
Unreported == "unreported"
Every == "every"             \* no media_type in the request

MediaTypes == {"movies", "tv", "music", "ebooks", "audiobooks", "comics"}

browseKinds ==
  [m \in MediaTypes \cup {Every} |->
     CASE m = "movies" -> {"movie"}
       [] m = "tv" -> {"series"}
       [] m = "music" -> {"artist", "album"}
       [] m \in {"ebooks", "audiobooks"} -> {"book"}
       [] m = "comics" -> {"comic"}
       [] m = Every -> {"movie", "series", "artist", "album", "book", "comic"}]
------------------------------------------------------------------------------
\* MIN(e.format = 'audiobook'): every edition whose format is known is an audiobook,
\* and there is one.
AllAudiobook(row) == row.formats \ {Unreported} = {Audiobook}

mediaTypeOf(d, w) ==
  IF KindOf[w] = "book"
  THEN IF AllAudiobook(d[w]) THEN "audiobooks" ELSE "ebooks"
  ELSE CHOOSE m \in MediaTypes : KindOf[w] \in browseKinds[m]

\* FAULT: an edition whose format the upstream did not report is taken for another format.
browseAudiobookPredicate_Strict(row) == row.formats = {} \/ Audiobook \in row.formats

\* The same question as two EXISTS: some edition is an audiobook, and none has another
\* known format.
browseAudiobookPredicate(row) ==
  /\ \E f \in row.formats : f = Audiobook
  /\ ~ \E f \in row.formats : f # Unreported /\ f # Audiobook

\* workVisibilityPredicate: 1=1 for the owner, 1=0 for a user who sees no instance.
Visible(d, owner, w) == d[w].live /\ owner

Split(d, m, w) ==
  CASE m = "audiobooks" -> browseAudiobookPredicate(d[w])
    [] m = "ebooks" -> ~ browseAudiobookPredicate(d[w])
    [] OTHER -> TRUE

\* A request: media is the filter, sort the order, libs the library filter ({} is none).
Admitted(d, q, w) ==
  /\ Visible(d, q.owner, w)
  /\ KindOf[w] \in browseKinds[q.media]
  /\ Split(d, q.media, w)
  /\ (q.libs # {} => q.libs \cap d[w].libs # {})
------------------------------------------------------------------------------
(* Orders and positions.  A cursor is the order it was minted under, the key  *)
(* and the id of the last row shown, and whether it lies in the undated tail.  *)

Start == [sort |-> "start"]

KeyOf(d, sort, w) ==
  CASE sort = "added_at" -> d[w].added [] sort = "sort_title" -> d[w].title [] OTHER -> 0

\* Newest, most popular or first by title; ids settle equal keys; undated rows last.
Ahead(sort, a, b) ==
  IF sort = "sort_title"
  THEN a.key < b.key \/ (a.key = b.key /\ a.id < b.id)
  ELSE a.key > b.key \/ (a.key = b.key /\ a.id > b.id)

\* The cursor's predicate.  A NULL added_at compares as less than nothing, so a dated
\* cursor reaches no undated row.
Beyond(sort, cur, row) ==
  CASE cur = Start -> TRUE
    [] cur # Start /\ cur.tail -> row.key = Undated /\ row.id < cur.id
    [] OTHER -> Ahead(sort, cur, row) /\ (sort = "added_at" => row.key # Undated)

RowOf(d, sort, w) == [id |-> w, key |-> KeyOf(d, sort, w), type |-> mediaTypeOf(d, w)]

\* One statement: the rows admitted beyond the cursor, in order, at most n of them.
browseWorksPage(d, q, cur, n) ==
  LET admitted == {RowOf(d, q.sort, w) : w \in {u \in Works : Admitted(d, q, u)}}
      rows == Sorted({r \in admitted : Beyond(q.sort, cur, r)},
                     LAMBDA a, b : Ahead(q.sort, a, b))
  IN  SubSeq(rows, 1, IF n < Len(rows) THEN n ELSE Len(rows))

\* The title order needs one kind, and a cursor belongs to the order it was minted under.
Servable(q, cur) ==
  /\ (q.sort = "sort_title" => Cardinality(browseKinds[q.media]) = 1)
  /\ (cur # Start => cur.sort = q.sort)

\* The page was short, so the rest of it is in the undated tail, which a dated cursor
\* cannot reach.
NeedsTail(q, cur, page) ==
  /\ q.sort = "added_at" /\ cur # Start
  /\ ~ cur.tail
  /\ Len(page) <= BrowseLimit

TailStart == [sort |-> "added_at", key |-> Undated, tail |-> TRUE,
              id |-> 1 + CHOOSE w \in Works : \A u \in Works : u <= w]

\* FAULT: the position is taken from the extra row, which is never shown.
browseNextCursor_Extra(sort, page) ==
  LET last == Last(page)
  IN  [sort |-> sort, key |-> last.key, id |-> last.id,
       tail |-> sort = "added_at" /\ last.key = Undated]

\* The position after the last row shown of a page that was read one row too long.
browseNextCursor(sort, page) ==
  LET last == page[BrowseLimit]
  IN  [sort |-> sort, key |-> last.key, id |-> last.id,
       tail |-> sort = "added_at" /\ last.key = Undated]

\* Decoding refuses a token without a value, which is what an empty title encodes to.
Decodes(cur) == (cur # Start /\ cur.sort = "sort_title") => cur.key # Untitled
------------------------------------------------------------------------------
(* The facet counts, in two statements.                                       *)

mediaTypeCounts(d, owner) ==
  [m \in MediaTypes |->
     IF m = "audiobooks" THEN 0
     ELSE Cardinality({w \in Works : Visible(d, owner, w) /\ KindOf[w] \in browseKinds[m]})]

audiobookCount(d, owner) ==
  Cardinality({w \in Works : /\ Visible(d, owner, w) /\ KindOf[w] = "book"
                             /\ browseAudiobookPredicate(d[w])})
==============================================================================
