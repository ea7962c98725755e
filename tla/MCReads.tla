-------------------------------- MODULE MCReads --------------------------------
(* Either reads of four works of three media types under two libraries, one fed   *)
(* by two containers, in pages of two rows, with a search window of two; or two   *)
(* handlers at once for one release by one indexer, which Prowlarr forgets twice. *)
EXTENDS ReadSide, Grab

CONSTANTS h1, h2, c1

MCKindOf == <<"book", "book", "book", "comic">>

MCLegs == << <<3, 1, 4, 2>>, <<4, 3>> >>
MCResemblance == <<5000, 7000, 5000, 9000>>

MCLibraries == <<1, 2>>
MCSources == << [lib |-> 1, instance |-> "a", ref |-> 1],
                [lib |-> 1, instance |-> "b", ref |-> 1],
                [lib |-> 2, instance |-> "b", ref |-> 1] >>

MCQueries ==
  {[media |-> m, sort |-> s, libs |-> {}, owner |-> TRUE] :
     m \in {Every, "ebooks", "audiobooks"}, s \in {"added_at", "sort_title", "popularity"}}
  \cup {[media |-> Every, sort |-> "added_at", libs |-> {1}, owner |-> o] : o \in BOOLEAN}

MCNotes == {[state |-> "complete", hidden |-> 0], [state |-> "shortfall", hidden |-> 1],
            [state |-> "unverified", hidden |-> 0]}

Row(added, title, formats, libs) ==
  [live |-> TRUE, added |-> added, title |-> title, formats |-> formats,
   libs |-> libs, filed |-> libs]

Unborn == [live |-> FALSE, added |-> 0, title |-> 0, formats |-> {}, libs |-> {}, filed |-> {}]

\* The dates of the first three works, the format of the first, and whether the last has
\* been inserted.
MCInitialRows ==
  { << Row(x[1], 1, f, {1}), Row(x[2], 1, {}, {1, 2}), Row(x[3], 2, {Unreported}, {2}),
       IF x = <<0, 0, 1>> THEN Unborn ELSE Row(2, 2, {}, {2}) >> :
      x \in {<<1, 1, 0>>, <<0, 0, 1>>}, f \in {{"epub"}, {Audiobook}} }

MCReleaseOf == [c \in CandidateRows |-> "release"]

VARIABLE part   \* which of the two

MCVars == <<part, readVars, grabVars>>

MCInit ==
  /\ part \in {"reads", "grabs"}
  /\ RSInit /\ GrabInit
  /\ part = "grabs" => rows = CHOOSE r \in InitialRows : TRUE

MCNext ==
  /\ UNCHANGED part
  /\ \/ part = "reads" /\ RSNext /\ UNCHANGED grabVars
     \/ part = "grabs" /\ GrabNext /\ UNCHANGED readVars

MCSpec == MCInit /\ [][MCNext]_MCVars
==============================================================================
