CONSTANTS
  kavita = kavita
  bookorbit = bookorbit
  r1 = r1
  r2 = r2
  manga = manga
  manga2 = manga2
  mangaSlug = mangaSlug
  book = book
  comic = comic
  prose = prose
  series = series
  Instances = {kavita, bookorbit}
  Guessing = {bookorbit}
  Refs = {r1, r2}
  Names = {manga, manga2, unfiled}
  BaseSlug <- MCBaseSlug
  UnfiledName = unfiled
  Kinds = {book, comic}
  Fallback = book
  Declined = declined
  Works = {prose, series}
  EvidenceKind <- MCEvidenceKind
  NoBinding = noBinding
  Shelvings <- MCShelvings
  MaxLibraries = 4
  MaxDisturbances = 2
SPECIFICATION MCSpec
INVARIANTS
  NamesDistinct
  OneLibraryPerKind
  FiledByKind
  SiblingsEarned
  OrphanStampCurrent
PROPERTIES
  EventuallySettled
CHECK_DEADLOCK FALSE
