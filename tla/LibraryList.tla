----------------------------- MODULE LibraryList ------------------------------
(***************************************************************************)
(* What GET /libraries says of each library: the newest completeness note    *)
(* and the newest skip note of every container that feeds it, folded into    *)
(* one verdict and one sum.  s is the part of the database that it reads:     *)
(*   notes    per container, the newest completeness note in sync_report,     *)
(*            or NoNote                                                      *)
(*   skips    per container, the newest skip note, or NoNote                 *)
(*   deleted  instances with a deleted_at                                    *)
(***************************************************************************)
EXTENDS Integers, Sequences, FiniteSets, FiniteSetsExt, Functions, SequencesExt, Selecting

CONSTANTS
  Sources,   \* table library_source, by id: a sequence of [lib, instance, ref]
  Libraries, \* ids of table library without Unfiled, in the order they are listed
  NoNote

ASSUME LibraryListAssumption == Sources \in Seq(Range(Sources))

Containers == {[instance |-> src.instance, ref |-> src.ref] : src \in Range(Sources)}

ContainerOf(src) == [instance |-> src.instance, ref |-> src.ref]

\* The sources that the listing shows: a deleted instance's are left out.
Shown(s, l) ==
  Selected(Sources, {src \in Range(Sources) : src.lib = l /\ src.instance \notin s.deleted})

\* containerReportSQL: the shown sources whose container has a note, in the order of ids.
Noted(s, notes, l) ==
  Selected(Shown(s, l), {src \in Range(Sources) : notes[ContainerOf(src)] # NoNote})

NoVerdict == [state |-> "none", containers |-> 0, hidden |-> 0, at |-> 0]

\* FAULT: a verified container lifts the verdict of one that is not.
foldCompleteness_Lifted(into, note) ==
  [state |-> IF note.state = "unverified" \/ into.state \in {"none", "unverified"} THEN note.state
             ELSE IF note.state = "shortfall" THEN "shortfall" ELSE into.state,
   containers |-> into.containers + 1,
   hidden |-> IF note.state = "unverified" THEN 0 ELSE into.hidden + note.hidden,
   at |-> IF note.at > into.at THEN note.at ELSE into.at]

\* An unverified container silences the totals of all; a shortfall outranks a complete one.
foldCompleteness(into, note) ==
  LET silent == "unverified" \in {into.state, note.state}
  IN  [state |-> IF silent THEN "unverified"
                 ELSE IF note.state = "shortfall" \/ into.state = "none" THEN note.state
                 ELSE into.state,
       containers |-> into.containers + 1,
       hidden |-> IF silent THEN 0 ELSE into.hidden + note.hidden,
       at |-> IF note.at > into.at THEN note.at ELSE into.at]

Completeness(s, l) ==
  FoldLeft(foldCompleteness, NoVerdict,
           [n \in DOMAIN Noted(s, s.notes, l) |-> s.notes[ContainerOf(Noted(s, s.notes, l)[n])]])

NoSkips == [state |-> "unknown", items |-> 0, told |-> {}, at |-> 0]

foldSkips(into, entry) ==
  [state |-> IF entry.items > 0 \/ into.state = "left_out" THEN "left_out" ELSE "none",
   items |-> into.items + entry.items,
   told |-> IF entry.items > 0 THEN into.told \cup {entry.container} ELSE into.told,
   at |-> IF entry.at > into.at THEN entry.at ELSE into.at]

\* The containers whose skips are told are those that have some (librarySkipContainersFor).
Skips(s, l) ==
  FoldLeft(foldSkips, NoSkips,
           [n \in DOMAIN Noted(s, s.skips, l) |->
              LET c == ContainerOf(Noted(s, s.skips, l)[n])
              IN  [container |-> c, items |-> s.skips[c].items, at |-> s.skips[c].at]])
==============================================================================
