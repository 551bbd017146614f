---------------------------- MODULE OutputPaths ----------------------------
(***************************************************************************)
(* Which database an operation selects, and which paths a backup or an     *)
(* export may write to.                                                    *)
(*                                                                         *)
(* A path is a directory and a name; a name is a stem and the suffixes     *)
(* appended to it (<<"a", "-wal">>).  Two paths lead to the same place     *)
(* when they fold to the same one, as on a file system that ignores case;  *)
(* the code sees that of the directories only if they are there.           *)
(* Symbolic links, and hard links that somebody made beforehand, are left  *)
(* out.                                                                    *)
(***************************************************************************)
EXTENDS Naturals, FiniteSets, Sequences, SequencesExt

CONSTANTS
  Settings,     \* what a config.yml may say: a version, a backend and a database
  Directories,  \* the directories that exist, as they fold
  Roots,        \* those of them that are .coordination directories
  Cwd,          \* where the processes run
  Spelling,     \* names that fold to others
  NoPath,       \* --db or --output is not given
  NoFile        \* there is no such file

VARIABLE
  config      \* what the config.yml of each root says

-----------------------------------------------------------------------------
\* Paths.

Paths == [in : Seq(STRING), name : Seq(STRING)]

Fold(n) == IF n \in DOMAIN Spelling THEN Spelling[n] ELSE n
FoldAll(s) == [i \in DOMAIN s |-> Fold(s[i])]

Folded(p) == [in |-> FoldAll(p.in), name |-> FoldAll(p.name)]

ASSUME PathsAssumption ==
  /\ Cwd \in Seq(STRING)
  /\ Roots \subseteq Directories
  /\ \A r \in Roots : r \in Seq(STRING) \ {<<>>} /\ FoldAll(r) = r /\ Last(r) = ".coordination"
  /\ \A s \in Settings : s.database \in Seq(STRING)
  /\ NoPath \notin Paths /\ NoFile \notin Settings

\* Mutant of SameFile: as they are written.
SamePath(p, q) == p = q

\* The operating system compares directories that exist; one that does not is
\* known by its spelling.
SameDirectory(d, e) == d = e \/ (FoldAll(d) = FoldAll(e) /\ FoldAll(d) \in Directories)

SameFile(p, q) == SameDirectory(p.in, q.in) /\ FoldAll(p.name) = FoldAll(q.name)

Path(dir, name) == [in |-> dir, name |-> <<name>>]
With(p, suffix) == [p EXCEPT !.name = Append(@, suffix)]

Sidecars(p) == {With(p, s) : s \in {"-wal", "-shm", "-journal"}}
DatabaseLock(p) == With(p, ".lock")
OutputLock(p) == With(p, ".publish.lock")

ProtectedPaths(p) == {p, DatabaseLock(p)} \cup Sidecars(p)

Disjoint(P, Q) == \A p \in P, q \in Q : ~SameFile(p, q)

EnclosingRoots(p) ==
  {SubSeq(p.in, 1, n) : n \in {m \in 1 .. Len(p.in) : Fold(p.in[m]) = ".coordination"}}

Metadata(root) == {Path(root, "config.yml"), Path(root, "README.md")}

\* The innermost .coordination directory around a database, or its own directory.
CoordinationRoot(db) ==
  IF EnclosingRoots(db) = {} THEN db.in
  ELSE CHOOSE r \in EnclosingRoots(db) : \A s \in EnclosingRoots(db) : Len(s) <= Len(r)

-----------------------------------------------------------------------------
\* Configuration and discovery.  A set with the path, empty when refused.

NotMetadata(p) == \A r \in EnclosingRoots(p) : Disjoint({p}, Metadata(r))

ForSqlite(setting) ==
  setting.version = 1 /\ setting.backend = "sqlite" /\ setting.database # <<>>

\* A relative path that goes down only and begins with nothing managed.
GoesDown(parts) ==
  /\ \A i \in DOMAIN parts : Fold(parts[i]) \notin {"/", "..", ".coordination"}
  /\ Fold(parts[1]) \notin {"config.yml", "readme.md", "backups"}

ProjectDatabase(root) ==
  LET setting == config[FoldAll(root)]
      parts == setting.database IN
  IF ForSqlite(setting) /\ GoesDown(parts)
  THEN {p \in {Path(root \o Front(parts), Last(parts))} : NotMetadata(p)}
  ELSE {}

\* A directory is there under any name that folds to it.
IsRoot(dir) == FoldAll(dir) \in Roots
Configured(root) == IsRoot(root) /\ config[FoldAll(root)] # NoFile

\* Clear of the live database of every enclosing project.
ClearOfConfigured(p, P, allowMain) ==
  \A r \in {s \in EnclosingRoots(p) : Configured(s)} :
    /\ ProjectDatabase(r) # {}
    /\ \A db \in ProjectDatabase(r) :
         (allowMain /\ SameFile(p, db)) \/ Disjoint(P, ProtectedPaths(db))

Explicit(db) ==
  {p \in {db} : NotMetadata(p) /\ ClearOfConfigured(p, ProtectedPaths(p), TRUE)}

\* Of the nearest directory at or above Cwd that holds a .coordination directory,
\* configured or not.
Nearest ==
  LET dirs == {SubSeq(Cwd, 1, n) \o <<".coordination">> : n \in 0 .. Len(Cwd)}
      roots == {s \in dirs : IsRoot(s)}
  IN  UNION {ProjectDatabase(r) : r \in
               {s \in roots : Configured(s) /\ \A t \in roots : Len(t) <= Len(s)}}

Discovered(db) == IF db = NoPath THEN Nearest ELSE Explicit(db)

-----------------------------------------------------------------------------
\* Guards on an output.

ExternalTo(db, p) ==
  /\ NotMetadata(p)
  /\ Disjoint({p}, ProtectedPaths(db))
  /\ \A r \in EnclosingRoots(db) : Disjoint({p}, Metadata(r))

ValidOutput(p, db, isDatabase) ==
  /\ ExternalTo(db, p)
  /\ ClearOfConfigured(p, IF isDatabase THEN ProtectedPaths(p) ELSE {p}, FALSE)
  /\ ExternalTo(db, OutputLock(p))
  /\ ClearOfConfigured(OutputLock(p), {OutputLock(p)}, FALSE)

\* What agents ask for stays inside the coordination root.
Contained(r, db) == r.agent => IsPrefix(CoordinationRoot(db), r.out.in)

Acceptable(r, db) ==
  /\ ValidOutput(r.out, db, r.kind = "backup")
  /\ r.kind = "backup" => Disjoint(ProtectedPaths(db), ProtectedPaths(r.out))

=============================================================================
