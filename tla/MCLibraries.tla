----------------------------- MODULE MCLibraries -----------------------------
(* A BookOrbit, which guesses "book" for every container, and a Kavita beside   *)
(* it.  BookOrbit's two containers have names with one slug, the name of one is  *)
(* Kavita's; one of them can go while the other is renamed Unfiled.  Kavita's    *)
(* one container can change its kind, beside a container of a type declined.     *)
EXTENDS Libraries, TLC

CONSTANTS kavita, bookorbit, r1, r2, manga, manga2, mangaSlug, book, comic, prose, series

MCBaseSlug == [n \in Names |-> IF n = UnfiledName THEN n ELSE mangaSlug]

MCEvidenceKind == prose :> book @@ series :> comic

Card(name, kind) == [name |-> name, kind |-> kind]

AtFirst ==
  kavita :> (r1 :> Card(manga, book))
  @@ bookorbit :> (r1 :> Card(manga, book) @@ r2 :> Card(manga2, book))

MCShelvings ==
  kavita :> {AtFirst[kavita], r1 :> Card(manga, comic) @@ r2 :> Card(manga2, Declined)}
  @@ bookorbit :> {AtFirst[bookorbit], r1 :> Card(UnfiledName, book)}

\* Both instances and one disturbance, or BookOrbit alone and two of them.
MCInit ==
  /\ LibrariesInit
  /\ shelves = AtFirst
  /\ \/ tables.deleted = {} /\ disturbances = MaxDisturbances - 1
     \/ tables.deleted = {kavita} /\ disturbances = 0

MCSpec == MCInit /\ [][LibrariesNext]_libraryVars /\ LibrariesFairness
==============================================================================
