-------------------------- MODULE Outputs_proofs --------------------------
(***************************************************************************)
(* Proofs about Outputs: what a caller is told of a backup or an export,   *)
(* and what publication may replace, for any number of processes, any      *)
(* paths and any way of folding them.                                      *)
(***************************************************************************)
EXTENDS Outputs, SequenceTheorems, TLAPS

-----------------------------------------------------------------------------
\* Paths: what folds alike is alike in what the guards look at.

LEMMA FoldAllDomain ==
  ASSUME NEW S, NEW s \in Seq(S)
  PROVE  DOMAIN FoldAll(s) = 1 .. Len(s) /\ \A i \in 1 .. Len(s) : FoldAll(s)[i] = Fold(s[i])
BY LenProperties DEF FoldAll

LEMMA SameFoldSameLen ==
  ASSUME NEW S, NEW s \in Seq(S), NEW t \in Seq(S), FoldAll(s) = FoldAll(t)
  PROVE  Len(s) = Len(t) /\ \A i \in 1 .. Len(s) : Fold(s[i]) = Fold(t[i])
<1>1. 1 .. Len(s) = 1 .. Len(t) /\ Len(s) \in Nat /\ Len(t) \in Nat
  BY FoldAllDomain, LenProperties
<1>2. Len(s) = Len(t)
  BY <1>1
<1>. QED BY <1>2, FoldAllDomain

LEMMA FoldAllEqual ==
  ASSUME NEW S, NEW s \in Seq(S), NEW t \in Seq(S), Len(s) = Len(t),
         \A i \in 1 .. Len(s) : Fold(s[i]) = Fold(t[i])
  PROVE  FoldAll(s) = FoldAll(t)
BY LenProperties DEF FoldAll

LEMMA AppendFold ==
  ASSUME NEW S, NEW s \in Seq(S), NEW t \in Seq(S), NEW e \in S, FoldAll(s) = FoldAll(t)
  PROVE  FoldAll(Append(s, e)) = FoldAll(Append(t, e))
<1>1. Append(s, e) \in Seq(S) /\ Append(t, e) \in Seq(S)
  BY AppendProperties
<1>2. Len(s) = Len(t) /\ \A i \in 1 .. Len(s) : Fold(s[i]) = Fold(t[i])
  BY SameFoldSameLen
<1>3. Len(Append(s, e)) = Len(Append(t, e)) /\ Len(Append(s, e)) = Len(s) + 1 /\ Len(s) \in Nat
  BY <1>2, AppendProperties, LenProperties
<1>4. Append(s, e)[Len(s) + 1] = e /\ Append(t, e)[Len(s) + 1] = e
  <2>1. Append(s, e)[Len(s) + 1] = e /\ Append(t, e)[Len(t) + 1] = e
    BY AppendProperties
  <2>. QED BY <1>2, <2>1
<1>5. \A i \in 1 .. Len(s) : Append(s, e)[i] = s[i] /\ Append(t, e)[i] = t[i]
  <2>1. /\ \A i \in 1 .. Len(s) : Append(s, e)[i] = s[i]
        /\ \A i \in 1 .. Len(t) : Append(t, e)[i] = t[i]
    BY AppendProperties
  <2>. QED BY <1>2, <2>1
<1>6. \A i \in 1 .. Len(s) : Fold(Append(s, e)[i]) = Fold(Append(t, e)[i])
  BY <1>2, <1>5
<1>7. \A i \in 1 .. Len(Append(s, e)) : i \in 1 .. Len(s) \/ i = Len(s) + 1
  BY <1>3
<1>8. \A i \in 1 .. Len(Append(s, e)) : Fold(Append(s, e)[i]) = Fold(Append(t, e)[i])
  BY <1>4, <1>6, <1>7
<1>. QED BY <1>1, <1>3, <1>8, FoldAllEqual

LEMMA ConcatFold ==
  ASSUME NEW s \in Seq(STRING), NEW t \in Seq(STRING), NEW u \in Seq(STRING), FoldAll(s) = FoldAll(t)
  PROVE  FoldAll(s \o u) = FoldAll(t \o u)
<1>1. s \o u \in Seq(STRING) /\ t \o u \in Seq(STRING)
  BY ConcatProperties
<1>2. Len(s) = Len(t) /\ \A i \in 1 .. Len(s) : Fold(s[i]) = Fold(t[i])
  BY SameFoldSameLen
<1>3. Len(s \o u) = Len(t \o u) /\ Len(s \o u) = Len(s) + Len(u) /\ Len(s) \in Nat /\ Len(u) \in Nat
  <2>1. Len(s \o u) = Len(s) + Len(u) /\ Len(t \o u) = Len(t) + Len(u)
    BY ConcatProperties
  <2>2. Len(s) \in Nat /\ Len(u) \in Nat
    BY LenProperties
  <2>. QED BY <1>2, <2>1, <2>2
<1>4. \A i \in 1 .. Len(s \o u) : Fold((s \o u)[i]) = Fold((t \o u)[i])
  <2>. TAKE i \in 1 .. Len(s \o u)
  <2>1. i \in 1 .. Len(s) + Len(u) /\ i \in 1 .. Len(t) + Len(u)
    BY <1>2, <1>3
  <2>2. (s \o u)[i] = IF i <= Len(s) THEN s[i] ELSE u[i - Len(s)]
    BY <2>1, ConcatProperties
  <2>3. (t \o u)[i] = IF i <= Len(t) THEN t[i] ELSE u[i - Len(t)]
    BY <2>1, ConcatProperties
  <2>4. CASE i <= Len(s)
    BY <2>1, <2>2, <2>3, <2>4, <1>2, <1>3
  <2>5. CASE ~(i <= Len(s))
    BY <2>2, <2>3, <2>5, <1>2
  <2>. QED BY <2>4, <2>5
<1>. QED BY <1>1, <1>3, <1>4, FoldAllEqual

LEMMA PrefixFold ==
  ASSUME NEW s \in Seq(STRING), NEW n \in 0 .. Len(s)
  PROVE  /\ SubSeq(s, 1, n) \in Seq(STRING) /\ Len(SubSeq(s, 1, n)) = n
         /\ \A i \in 1 .. n : SubSeq(s, 1, n)[i] = s[i]
<1>1. Len(s) \in Nat /\ \A i \in 1 .. n : s[i] \in STRING
  BY LenProperties, ElementOfSeq
<1>2. n \in Int
  BY <1>1
<1>3. /\ SubSeq(s, 1, n) \in Seq(STRING)
      /\ Len(SubSeq(s, 1, n)) = IF 1 <= n THEN n - 1 + 1 ELSE 0
      /\ \A i \in 1 .. n - 1 + 1 : SubSeq(s, 1, n)[i] = s[1 + i - 1]
  BY <1>1, <1>2, SubSeqProperties
<1>. QED BY <1>1, <1>3

\* A suffix gives the same file beside what is the same file.
LEMMA WithFold ==
  ASSUME NEW p \in Paths, NEW q \in Paths, NEW e, Folded(p) = Folded(q)
  PROVE  Folded(With(p, e)) = Folded(With(q, e))
<1>. DEFINE S == STRING \cup {e}
<1>1. p.name \in Seq(S) /\ q.name \in Seq(S)
  BY SeqMonotonic DEF Paths
<1>2. FoldAll(p.in) = FoldAll(q.in) /\ FoldAll(p.name) = FoldAll(q.name)
  BY DEF Folded
<1>3. FoldAll(Append(p.name, e)) = FoldAll(Append(q.name, e))
  <2>. HIDE DEF S
  <2>1. e \in S
    BY DEF S
  <2>. QED BY <1>1, <1>2, <2>1, AppendFold
<1>4. /\ With(p, e).in = p.in /\ With(p, e).name = Append(p.name, e)
      /\ With(q, e).in = q.in /\ With(q, e).name = Append(q.name, e)
  BY DEF With, Paths
<1>5. /\ Folded(With(p, e)) = [in |-> FoldAll(p.in), name |-> FoldAll(Append(p.name, e))]
      /\ Folded(With(q, e)) = [in |-> FoldAll(q.in), name |-> FoldAll(Append(q.name, e))]
  BY <1>4 DEF Folded
<1>. QED BY <1>2, <1>3, <1>5

LEMMA LockFold ==
  ASSUME NEW p \in Paths, NEW q \in Paths, Folded(p) = Folded(q)
  PROVE  Folded(DatabaseLock(p)) = Folded(DatabaseLock(q)) /\ Folded(OutputLock(p)) = Folded(OutputLock(q))
BY WithFold DEF DatabaseLock, OutputLock

LEMMA ProtectedFold ==
  ASSUME NEW p \in Paths, NEW q \in Paths, Folded(p) = Folded(q), NEW x \in ProtectedPaths(p)
  PROVE  \E y \in ProtectedPaths(q) : Folded(x) = Folded(y)
<1>1. CASE x = p
  BY <1>1 DEF ProtectedPaths
<1>2. CASE x = DatabaseLock(p)
  BY <1>2, LockFold DEF ProtectedPaths
<1>3. CASE x \in Sidecars(p)
  <2>1. PICK e \in {"-wal", "-shm", "-journal"} : x = With(p, e)
    BY <1>3 DEF Sidecars
  <2>2. With(q, e) \in Sidecars(q)
    BY <2>1 DEF Sidecars
  <2>3. Folded(With(p, e)) = Folded(With(q, e))
    BY WithFold
  <2>. QED BY <2>1, <2>2, <2>3 DEF ProtectedPaths
<1>. QED BY <1>1, <1>2, <1>3 DEF ProtectedPaths

\* An enclosing root of one spelling folds to one of the other.
LEMMA EnclosingFold ==
  ASSUME NEW p \in Paths, NEW q \in Paths, FoldAll(p.in) = FoldAll(q.in), NEW r \in EnclosingRoots(p)
  PROVE  \E t \in EnclosingRoots(q) : FoldAll(t) = FoldAll(r)
<1>1. p.in \in Seq(STRING) /\ q.in \in Seq(STRING)
  BY DEF Paths
<1>2. Len(p.in) = Len(q.in) /\ \A i \in 1 .. Len(p.in) : Fold(p.in[i]) = Fold(q.in[i])
  BY <1>1, SameFoldSameLen
<1>3. PICK n \in 1 .. Len(p.in) : Fold(p.in[n]) = ".coordination" /\ r = SubSeq(p.in, 1, n)
  BY DEF EnclosingRoots
<1>4. Len(p.in) \in Nat /\ n \in 0 .. Len(p.in) /\ n \in 0 .. Len(q.in)
  BY <1>1, <1>2, <1>3, LenProperties
<1>5. SubSeq(q.in, 1, n) \in EnclosingRoots(q)
  BY <1>2, <1>3 DEF EnclosingRoots
<1>6. \A i \in 1 .. n : Fold(r[i]) = Fold(SubSeq(q.in, 1, n)[i])
  BY <1>1, <1>2, <1>3, <1>4, PrefixFold
<1>7. /\ r \in Seq(STRING) /\ SubSeq(q.in, 1, n) \in Seq(STRING)
      /\ Len(r) = n /\ Len(SubSeq(q.in, 1, n)) = n
  BY <1>1, <1>3, <1>4, PrefixFold
<1>. QED BY <1>5, <1>6, <1>7, FoldAllEqual

LEMMA PathFold ==
  ASSUME NEW a, NEW b, NEW e, FoldAll(a) = FoldAll(b)
  PROVE  Folded(Path(a, e)) = Folded(Path(b, e))
BY DEF Folded, Path

\* Where the directory is there, what folds to one place is one file.
LEMMA SameThere ==
  ASSUME NEW p, NEW q, Folded(p) = Folded(q), FoldAll(p.in) \in Directories
  PROVE  SameFile(p, q) /\ SameFile(q, p)
<1>1. FoldAll(p.in) = FoldAll(q.in) /\ FoldAll(p.name) = FoldAll(q.name)
  BY DEF Folded
<1>. QED BY <1>1 DEF SameFile, SameDirectory

LEMMA SameFolds ==
  ASSUME NEW p, NEW q, SameFile(p, q)
  PROVE  Folded(p) = Folded(q)
BY DEF SameFile, SameDirectory, Folded

\* A directory that is a root of one spelling is one of the other.
LEMMA OwnRootFold ==
  ASSUME NEW p \in Paths, NEW q \in Paths, FoldAll(p.in) = FoldAll(q.in), q.in \in EnclosingRoots(q)
  PROVE  p.in \in EnclosingRoots(p)
<1>1. p.in \in Seq(STRING) /\ q.in \in Seq(STRING)
  BY DEF Paths
<1>2. Len(p.in) = Len(q.in) /\ \A i \in 1 .. Len(p.in) : Fold(p.in[i]) = Fold(q.in[i])
  BY <1>1, SameFoldSameLen
<1>3. PICK n \in 1 .. Len(q.in) : Fold(q.in[n]) = ".coordination" /\ q.in = SubSeq(q.in, 1, n)
  BY DEF EnclosingRoots
<1>4. Len(q.in) \in Nat /\ n \in 0 .. Len(q.in)
  BY <1>1, LenProperties
<1>5. n = Len(q.in)
  BY <1>1, <1>3, <1>4, PrefixFold
<1>6. SubSeq(p.in, 1, Len(p.in)) = p.in
  BY <1>1
<1>. QED BY <1>2, <1>3, <1>5, <1>6 DEF EnclosingRoots

LEMMA NotMetadataFold ==
  ASSUME NEW p \in Paths, NEW q \in Paths, Folded(p) = Folded(q), NotMetadata(p)
  PROVE  NotMetadata(q)
<1>1. FoldAll(p.in) = FoldAll(q.in)
  BY DEF Folded
<1>. SUFFICES ASSUME NEW r \in EnclosingRoots(q), NEW y \in Metadata(r), SameFile(q, y)
              PROVE  FALSE
  BY DEF NotMetadata, Disjoint
<1>2. Folded(q) = Folded(y)
  BY SameFolds
<1>3. CASE FoldAll(q.in) \in Directories
  <2>1. PICK t \in EnclosingRoots(p) : FoldAll(t) = FoldAll(r)
    BY <1>1, EnclosingFold
  <2>2. PICK x \in Metadata(t) : Folded(x) = Folded(y)
    BY <2>1, PathFold DEF Metadata
  <2>3. SameFile(p, x)
    BY <1>1, <1>2, <1>3, <2>2, SameThere
  <2>. QED BY <2>1, <2>2, <2>3 DEF NotMetadata, Disjoint
<1>4. CASE FoldAll(q.in) \notin Directories
  <2>1. q.in = y.in
    BY <1>4 DEF SameFile, SameDirectory
  <2>2. y.in = r
    BY DEF Metadata, Path
  <2>3. p.in \in EnclosingRoots(p)
    BY <1>1, <2>1, <2>2, OwnRootFold
  <2>4. PICK e \in {"config.yml", "README.md"} : y = Path(r, e)
    BY DEF Metadata
  <2>5. Path(p.in, e) \in Metadata(p.in)
    BY <2>4 DEF Metadata
  <2>6. FoldAll(p.name) = FoldAll(q.name) /\ FoldAll(q.name) = FoldAll(y.name) /\ y.name = <<e>>
    BY <1>2, <2>4 DEF Folded, Path
  <2>7. SameFile(p, Path(p.in, e))
    BY <2>6 DEF SameFile, SameDirectory, Path
  <2>. QED BY <2>3, <2>5, <2>7 DEF NotMetadata, Disjoint
<1>. QED BY <1>3, <1>4

\* What lies in a root, whatever its spelling, has that root around it.
LEMMA RootAround ==
  ASSUME NEW p \in Paths, NEW r \in Roots, NEW c \in Seq(STRING), FoldAll(p.in) = FoldAll(r \o c)
  PROVE  \E s \in EnclosingRoots(p) : s \in Seq(STRING) /\ FoldAll(s) = r
<1>. DEFINE n == Len(r)
            s == SubSeq(p.in, 1, n)
<1>1. p.in \in Seq(STRING) /\ r \in Seq(STRING) /\ r # <<>> /\ FoldAll(r) = r /\ r[n] = ".coordination"
  BY PathsAssumption DEF Paths, Last
<1>2. r \o c \in Seq(STRING) /\ Len(r \o c) = n + Len(c)
      /\ \A i \in 1 .. n + Len(c) : (r \o c)[i] = IF i <= n THEN r[i] ELSE c[i - n]
  BY <1>1, ConcatProperties
<1>3. n \in Nat \ {0} /\ Len(c) \in Nat /\ Len(p.in) \in Nat
  BY <1>1, LenProperties, EmptySeq
<1>4. Len(p.in) = n + Len(c) /\ \A i \in 1 .. Len(p.in) : Fold(p.in[i]) = Fold((r \o c)[i])
  BY <1>1, <1>2, SameFoldSameLen
<1>5. \A i \in 1 .. n : Fold(p.in[i]) = Fold(r[i]) /\ i \in 1 .. Len(p.in)
  BY <1>2, <1>3, <1>4
<1>6. \A i \in 1 .. n : Fold(r[i]) = r[i]
  BY <1>1, FoldAllDomain
<1>7. n \in 0 .. Len(p.in) /\ n \in 1 .. Len(p.in)
  BY <1>3, <1>4
<1>8. s \in EnclosingRoots(p)
  BY <1>1, <1>3, <1>5, <1>6, <1>7 DEF EnclosingRoots
<1>9. s \in Seq(STRING) /\ Len(s) = Len(r) /\ \A i \in 1 .. Len(s) : Fold(s[i]) = Fold(r[i])
  BY <1>1, <1>5, <1>7, PrefixFold
<1>. HIDE DEF n, s
<1>10. FoldAll(s) = FoldAll(r)
  BY <1>1, <1>9, FoldAllEqual
<1>. QED BY <1>1, <1>8, <1>9, <1>10

LEMMA ConfiguredSettings ==
  ASSUME config \in [Roots -> Settings \cup {NoFile}], NEW r, Configured(r)
  PROVE  config[FoldAll(r)].database \in Seq(STRING)
BY PathsAssumption DEF Configured, IsRoot

\* A project's database is the same file however its root is spelt.
LEMMA ProjectFold ==
  ASSUME config \in [Roots -> Settings \cup {NoFile}],
         NEW r \in Seq(STRING), NEW s \in Seq(STRING), FoldAll(r) = FoldAll(s), Configured(r),
         NEW d \in ProjectDatabase(r)
  PROVE  /\ d \in Paths
         /\ \E c \in Seq(STRING) : d.in = r \o c
         /\ \E e \in ProjectDatabase(s) : e \in Paths /\ Folded(e) = Folded(d)
<1>. DEFINE parts == config[FoldAll(r)].database
            e == Path(s \o Front(parts), Last(parts))
<1>1. /\ ForSqlite(config[FoldAll(r)]) /\ GoesDown(parts)
      /\ d = Path(r \o Front(parts), Last(parts)) /\ NotMetadata(d)
  BY DEF ProjectDatabase
<1>2. parts \in Seq(STRING) /\ parts # <<>>
  BY <1>1, ConfiguredSettings DEF ForSqlite
<1>. HIDE DEF parts
<1>3. Len(parts) \in Nat \ {0} /\ Len(parts) - 1 \in 0 .. Len(parts) /\ Len(parts) \in 1 .. Len(parts)
  BY <1>2, EmptySeq
<1>4. Front(parts) \in Seq(STRING)
  BY <1>2, <1>3, PrefixFold DEF Front
<1>5. Last(parts) \in STRING
  BY <1>2, <1>3, ElementOfSeq DEF Last
<1>6. r \o Front(parts) \in Seq(STRING) /\ s \o Front(parts) \in Seq(STRING)
  BY <1>4, ConcatProperties
<1>7. <<Last(parts)>> \in Seq(STRING)
  BY <1>5
<1>8. d \in Paths /\ e \in Paths
  BY <1>1, <1>6, <1>7 DEF Path, Paths
<1>9. FoldAll(r \o Front(parts)) = FoldAll(s \o Front(parts))
  BY <1>4, ConcatFold
<1>10. Folded(e) = Folded(d)
  BY <1>1, <1>9, PathFold
<1>11. e \in ProjectDatabase(s)
  BY <1>1, <1>8, <1>10, NotMetadataFold DEF ProjectDatabase, parts
<1>. QED BY <1>1, <1>4, <1>8, <1>10, <1>11 DEF Path

\* The guards keep an output off everything that belongs to a project.
LEMMA NotManaged ==
  ASSUME config \in [Roots -> Settings \cup {NoFile}],
         NEW p \in Paths, FoldAll(p.in) \in Directories,
         NEW P, p \in P, NotMetadata(p), ClearOfConfigured(p, P, FALSE)
  PROVE  Folded(p) \notin Managed
<1>. SUFFICES ASSUME Folded(p) \in Managed PROVE FALSE
  OBVIOUS
<1>1. PICK r \in Roots : \E x \in Metadata(r) \cup UNION {ProtectedPaths(d) : d \in ProjectDatabase(r)} :
        Configured(r) /\ Folded(p) = Folded(x)
  BY DEF Managed
<1>. PICK x \in Metadata(r) \cup UNION {ProtectedPaths(d) : d \in ProjectDatabase(r)} :
        Configured(r) /\ Folded(p) = Folded(x)
  BY <1>1
<1>2. r \in Seq(STRING) /\ FoldAll(r) = r
  BY PathsAssumption
<1>3. <<>> \in Seq(STRING) /\ r \o <<>> = r
  BY <1>2, EmptySeq, ConcatEmptySeq
<1>4. CASE x \in Metadata(r)
  <2>1. FoldAll(p.in) = FoldAll(r \o <<>>)
    BY <1>1, <1>3, <1>4 DEF Metadata, Path, Folded
  <2>2. PICK s \in EnclosingRoots(p) : FoldAll(s) = r
    BY <1>3, <2>1, RootAround
  <2>3. \E y \in Metadata(s) : Folded(y) = Folded(x)
    BY <1>2, <1>4, <2>2, PathFold DEF Metadata
  <2>4. PICK y \in Metadata(s) : Folded(p) = Folded(y)
    BY <1>1, <2>3
  <2>5. SameFile(p, y)
    BY <2>4, SameThere
  <2>. QED BY <2>2, <2>4, <2>5 DEF NotMetadata, Disjoint
<1>5. ASSUME NEW d \in ProjectDatabase(r), x \in ProtectedPaths(d) PROVE FALSE
  <2>1. d \in Paths /\ \E c \in Seq(STRING) : d.in = r \o c
    BY <1>1, <1>2, ProjectFold
  <2>2. x.in = d.in
    BY <1>5, <2>1 DEF ProtectedPaths, DatabaseLock, Sidecars, With, Paths
  <2>3. PICK c \in Seq(STRING) : FoldAll(p.in) = FoldAll(r \o c)
    BY <1>1, <2>1, <2>2 DEF Folded
  <2>4. PICK s \in EnclosingRoots(p) : s \in Seq(STRING) /\ FoldAll(s) = r
    BY <2>3, RootAround
  <2>5. PICK e \in ProjectDatabase(s) : e \in Paths /\ Folded(e) = Folded(d)
    BY <1>1, <1>2, <2>4, ProjectFold
  <2>6. PICK y \in ProtectedPaths(e) : Folded(y) = Folded(x)
    BY <1>5, <2>1, <2>5, ProtectedFold
  <2>7. Configured(s)
    BY <1>1, <1>2, <2>4 DEF Configured, IsRoot
  <2>8. Disjoint(P, ProtectedPaths(e))
    BY <2>4, <2>5, <2>7 DEF ClearOfConfigured
  <2>9. SameFile(p, y)
    BY <1>1, <2>6, SameThere
  <2>. QED BY <2>6, <2>8, <2>9 DEF Disjoint
<1>. QED BY <1>1, <1>4, <1>5

-----------------------------------------------------------------------------
\* The inductive invariant.

Publishing == {"output", "namespace", "stage", "publish", "unlink", "return"}

\* The output was found acceptable before the first lock on it was asked for.
Checked ==
  \A p \in Processes :
    pc[p] \in Publishing \/ (Is(p, "backup") /\ pc[p] \in Active) =>
      Out(p) # NoPath /\ Acceptable(request[p], database[p])

SourceLock(p) == Folded(DatabaseLock(database[p]))
PlaceLock(p) == Folded(DatabaseLock(Out(p)))

\* The locks: the source's is shared from connect to the end, a backup owns its
\* place's from the stage on, and what one owns nobody else has.
Locked ==
  \A p \in Processes :
    /\ pc[p] = "connect" => shares[p] = {}
    /\ pc[p] \notin {"namespace", "stage", "publish", "unlink", "return"} => owns[p] = {}
    /\ pc[p] \in Active \ {"connect"} => shares[p] = {SourceLock(p)}
    /\ Is(p, "backup") /\ pc[p] \in {"stage", "publish"} =>
         PlaceLock(p) \in owns[p] /\ Place(p) \notin log
    /\ \A q \in Processes :
         /\ owns[p] \cap shares[q] = {}
         /\ p # q => owns[p] \cap owns[q] = {}

\* Only what was published has its maker's name, at its maker's place.
Made ==
  /\ \A f \in Files : file[f] \in Processes => file[f] \in published /\ f = Place(file[f])
  /\ \A p \in Processes :
       /\ opened[p] \in Processes => opened[p] \in published
       /\ p \in published => Out(p) # NoPath /\ pc[p] \in {"unlink", "return", "record", "close", "done", "dead"}
       /\ pc[p] \in {"unlink", "return"} => p \in published
       /\ pc[p] = "record" => p \in published \/ ~Is(p, "backup")
       /\ pc[p] = "record" /\ Is(p, "export") => p \notin published

\* How far a process is in what it will be told.
Answering ==
  \A p \in Processes :
    /\ told[p] = "ok" => pc[p] = "done"
    /\ staged[p] => pc[p] \in {"publish", "unlink", "dead"}
    /\ pc[p] \in {"idle", "connect"} => receipt[p] = 0
    /\ pc[p] = "guard" => Is(p, "export")
    /\ Is(p, "export") /\ request[p].actor /\ pc[p] \in Publishing \cup {"guard"} => receipt[p] > 0
    /\ pc[p] = "close" =>
         /\ Out(p) # NoPath => p \in published
         /\ request[p].actor => receipt[p] > 0

OutputsInv ==
  OutputsTypeOK /\ Checked /\ Locked /\ Made /\ Answering /\ ToldTruly

-----------------------------------------------------------------------------
\* What the type and the guards say of one process.

LEMMA PlaceTyped ==
  ASSUME OutputsTypeOK, NEW p \in Processes, Out(p) # NoPath
  PROVE  Out(p) \in Paths /\ Place(p) \in Files /\ PlaceLock(p) \in LockFiles
         /\ Folded(OutputLock(Out(p))) \in LockFiles
<1>1. request[p] \in Requests /\ IsRequest(request[p])
  BY OutputsAssumption DEF OutputsTypeOK
<1>2. Out(p) \in Outs /\ Out(p) \in Paths
  BY <1>1 DEF Out, Outs, IsRequest
<1>. QED BY <1>2 DEF Files, Place, LockFiles, PlaceLock

LEMMA SourceTyped ==
  ASSUME NEW d \in Paths, Folded(d) \in Files
  PROVE  Folded(DatabaseLock(d)) \in LockFiles
<1>1. PICK q \in Outs \cup OnDisk : Folded(d) = Folded(q)
  BY DEF Files
<1>2. q \in Paths
  BY <1>1, OutputsAssumption DEF Outs, IsRequest
<1>. QED BY <1>1, <1>2, LockFold DEF LockFiles

LEMMA SelectedTyped ==
  ASSUME OutputsTypeOK, NEW r \in Requests, NEW d \in Selected(r)
  PROVE  d \in Paths /\ (r.kind = "backup" => Acceptable(r, d))
<1>1. d \in Discovered(r.db) /\ (r.kind = "backup" => Acceptable(r, d))
  BY DEF Selected
<1>2. CASE r.db # NoPath
  BY <1>1, <1>2, OutputsAssumption DEF Discovered, Explicit, IsRequest
<1>3. CASE r.db = NoPath
  <2>. DEFINE At(n) == SubSeq(Cwd, 1, n) \o <<".coordination">>
  <2>1. PICK n \in 0 .. Len(Cwd) : IsRoot(At(n)) /\ Configured(At(n)) /\ d \in ProjectDatabase(At(n))
    BY <1>1, <1>3 DEF Discovered, Nearest
  <2>. DEFINE s == At(n)
  <2>2. s = SubSeq(Cwd, 1, n) \o <<".coordination">> /\ IsRoot(s) /\ Configured(s) /\ d \in ProjectDatabase(s)
    BY <2>1
  <2>3. ".coordination" \in STRING
    <3>1. FoldAll(s) \in Roots
      BY <2>2 DEF IsRoot
    <3>2. PICK r1 \in Roots : r1 \in Seq(STRING) \ {<<>>} /\ Last(r1) = ".coordination"
      BY <3>1, PathsAssumption
    <3>3. Len(r1) \in 1 .. Len(r1) /\ r1[Len(r1)] = ".coordination"
      BY <3>2, EmptySeq DEF Last
    <3>. QED BY <3>2, <3>3, ElementOfSeq
  <2>4. SubSeq(Cwd, 1, n) \in Seq(STRING) /\ <<".coordination">> \in Seq(STRING)
    BY <2>3, PathsAssumption, PrefixFold
  <2>5. s \in Seq(STRING)
    BY <2>2, <2>4, ConcatProperties
  <2>. QED BY <1>1, <2>2, <2>5, ProjectFold DEF OutputsTypeOK
<1>. QED BY <1>1, <1>2, <1>3

LEMMA AcceptableClear ==
  ASSUME OutputsTypeOK, NEW p \in Processes, Out(p) # NoPath, Acceptable(request[p], database[p])
  PROVE  Place(p) \notin Managed /\ Source(p) # Place(p)
<1>1. ValidOutput(Out(p), database[p], Is(p, "backup"))
  BY DEF Acceptable, Out, Is
<1>2. NotMetadata(Out(p)) /\ Disjoint({Out(p)}, ProtectedPaths(database[p]))
  BY <1>1 DEF ValidOutput, ExternalTo
<1>a. FoldAll(Out(p).in) \in Directories
  BY OutputsAssumption DEF Outs, Out, OutputsTypeOK
<1>3. Source(p) # Place(p)
  <2>1. Folded(Out(p)) = Folded(database[p]) => SameFile(Out(p), database[p])
    BY <1>a, SameThere
  <2>. QED BY <1>2, <2>1 DEF Disjoint, ProtectedPaths, Source, Place
<1>. DEFINE P == IF Is(p, "backup") THEN ProtectedPaths(Out(p)) ELSE {Out(p)}
<1>4. Out(p) \in P /\ ClearOfConfigured(Out(p), P, FALSE)
  BY <1>1 DEF ValidOutput, ProtectedPaths
<1>5. Out(p) \in Paths /\ config \in [Roots -> Settings \cup {NoFile}]
  BY PlaceTyped DEF OutputsTypeOK
<1>. HIDE DEF P
<1>6. Folded(Out(p)) \notin Managed
  BY <1>2, <1>4, <1>5, <1>a, NotManaged
<1>. QED BY <1>3, <1>6 DEF Place

-----------------------------------------------------------------------------
\* The invariant is inductive.

LEMMA InvInit == OutputsInit => OutputsInv
<1>. SUFFICES ASSUME OutputsInit PROVE OutputsInv
  OBVIOUS
<1>. USE DEF OutputsInit
<1>1. OutputsTypeOK
  BY OutputsAssumption, EmptySeq DEF OutputsTypeOK, Makers, Active
<1>2. Checked
  BY DEF Checked, Publishing, Active
<1>3. Locked
  BY DEF Locked, Active
<1>4. Made
  BY OutputsAssumption DEF Made
<1>5. Answering
  BY DEF Answering, Publishing
<1>6. ToldTruly
  BY EmptySeq DEF ToldTruly
<1>. QED BY <1>1, <1>2, <1>3, <1>4, <1>5, <1>6 DEF OutputsInv

LEMMA RequestTyped ==
  ASSUME OutputsTypeOK, NEW p \in Processes
  PROVE  /\ request[p] \in Requests /\ request[p].kind \in {"backup", "export", "write"}
         /\ request[p].force \in BOOLEAN /\ request[p].actor \in BOOLEAN
         /\ Is(p, "backup") => Out(p) # NoPath
         /\ Is(p, "write") => Out(p) = NoPath
BY OutputsAssumption DEF OutputsTypeOK, IsRequest, Is, Out

LEMMA RowTyped ==
  ASSUME OutputsTypeOK, NEW p \in Processes, pc[p] \in Active
  PROVE  /\ Opened(p) \in Files \X Makers /\ rows[Opened(p)] \in Seq(Row)
         /\ [by |-> p, what |-> request[p].kind] \in Row
BY RequestTyped DEF OutputsTypeOK, Opened, Source, Row

\* What is recorded and staged is a database's rows.
LEMMA RowsTyped ==
  ASSUME OutputsTypeOK, NEW p \in Processes, Record(p) \/ (Stage(p) /\ Out(p) # NoPath)
  PROVE  rows' \in [Files \X Makers -> Seq(Row)]
<1>1. pc[p] \in Active
  BY DEF Record, Stage, Active
<1>2. CASE Record(p)
  <2>1. Append(rows[Opened(p)], [by |-> p, what |-> request[p].kind]) \in Seq(Row)
    BY <1>1, RowTyped, AppendProperties
  <2>. QED BY <1>2, <2>1 DEF Record, OutputsTypeOK
<1>3. CASE Stage(p) /\ Out(p) # NoPath
  BY <1>1, <1>3, RowTyped, PlaceTyped DEF Stage, OutputsTypeOK, Makers
<1>. QED BY <1>2, <1>3

LEMMA UnwindTyped ==
  ASSUME OutputsTypeOK, NEW p \in Processes, Unwind(p)
  PROVE  OutputsTypeOK'
BY DEF OutputsTypeOK, Unwind, Goto, Answer, LogAfter, Active, asked

LEMMA TypeStep ==
  ASSUME OutputsInv, OutputsNext
  PROVE  OutputsTypeOK'
<1>1. OutputsTypeOK /\ Checked
  BY DEF OutputsInv
<1>2. PICK p \in Processes : Step(p) \/ Fail(p) \/ Kill(p) \/ Intrude(p)
  BY DEF OutputsNext
<1>. USE DEF Goto, Answer, asked, disk, locks, answers, Active
<1>3. CASE Begin(p)
  <2>1. CASE \E d \in Selected(request[p]) : Folded(d) \in Files /\ database' = [database EXCEPT ![p] = d]
    <3>1. PICK d \in Selected(request[p]) : Folded(d) \in Files /\ database' = [database EXCEPT ![p] = d]
      BY <2>1
    <3>2. d \in Paths
      BY <1>1, <3>1, RequestTyped, SelectedTyped
    <3>3. database' \in [Processes -> Paths \cup {NoPath}] /\ database'[p] = d /\ d # NoPath
          /\ \A q \in Processes \ {p} : database'[q] = database[q]
      BY <1>1, <3>1, <3>2, PathsAssumption DEF OutputsTypeOK
    <3>4. pc' \in [Processes -> {"idle", "done", "dead"} \cup Active] /\ \A q \in Processes \ {p} : pc'[q] = pc[q]
      BY <1>1, <1>3 DEF Begin, OutputsTypeOK
    <3>5. told' \in [Processes -> {"nothing", "ok", "error"}]
      BY <1>1, <1>3 DEF Begin, OutputsTypeOK
    <3>6. UNCHANGED <<config, request, opened, disk, locks, receipt, faults>> /\ pc[p] = "idle"
      BY <1>3 DEF Begin
    <3>. QED BY <1>1, <3>1, <3>3, <3>4, <3>5, <3>6 DEF OutputsTypeOK
  <2>2. CASE UNCHANGED database /\ pc' = [pc EXCEPT ![p] = "done"]
    BY <1>1, <1>3, <2>2 DEF Begin, OutputsTypeOK
  <2>. QED BY <1>3, <2>1, <2>2 DEF Begin
<1>4. CASE Connect(p)
  <2>1. CASE Unwind(p)
    BY <1>1, <2>1, UnwindTyped
  <2>2. CASE ~Unwind(p)
    <3>1. /\ pc[p] = "connect" /\ IsDatabase(Source(p))
          /\ opened' = [opened EXCEPT ![p] = file[Source(p)]]
          /\ shares' = [shares EXCEPT ![p] = {SourceLock(p)}] /\ log' = log \cup {Source(p)}
      BY <1>4, <2>2 DEF Connect, SourceLock
    <3>2. pc' \in [Processes -> {"idle", "done", "dead"} \cup Active] /\ pc'[p] \in Active
          /\ \A q \in Processes \ {p} : pc'[q] = pc[q]
      BY <1>1, <1>4, <2>2 DEF Connect, OutputsTypeOK
    <3>3. UNCHANGED <<asked, file, rows, staged, published, owns, answers, faults>>
      BY <1>4, <2>2 DEF Connect
    <3>4. Source(p) \in Files /\ SourceLock(p) \in LockFiles
      BY <1>1, <3>1, SourceTyped DEF OutputsTypeOK, Source, SourceLock
    <3>5. file[Source(p)] \in Makers
      BY <3>1 DEF IsDatabase, Makers
    <3>. QED BY <1>1, <3>1, <3>2, <3>3, <3>4, <3>5 DEF OutputsTypeOK
  <2>. QED BY <2>1, <2>2
<1>5. CASE Record(p)
  <2>1. rows' \in [Files \X Makers -> Seq(Row)]
    BY <1>1, <1>5, RowsTyped
  <2>2. Opened(p) \in Files \X Makers
    BY <1>1, <1>5, RowTyped DEF Record
  <2>3. Len(rows'[Opened(p)]) \in Nat
    BY <2>1, <2>2, LenProperties
  <2>4. receipt' \in [Processes -> Nat]
    BY <1>1, <1>5, <2>3 DEF Record, OutputsTypeOK
  <2>. QED BY <1>1, <1>5, <2>1, <2>4 DEF Record, OutputsTypeOK
<1>6. CASE Guard(p)
  <2>1. CASE Unwind(p)
    BY <1>1, <2>1, UnwindTyped
  <2>2. CASE ~Unwind(p)
    BY <1>1, <1>6, <2>2 DEF Guard, OutputsTypeOK
  <2>. QED BY <2>1, <2>2
<1>7. CASE LockOutput(p)
  <2>1. CASE Unwind(p)
    BY <1>1, <2>1, UnwindTyped
  <2>2. CASE ~Unwind(p)
    <3>1. Folded(OutputLock(Out(p))) \in LockFiles
      BY <1>1, <1>7, PlaceTyped DEF LockOutput, Checked, Publishing
    <3>2. owns \in [Processes -> SUBSET LockFiles]
      BY <1>1 DEF OutputsTypeOK
    <3>3. owns' = [owns EXCEPT ![p] = @ \cup {Folded(OutputLock(Out(p)))}]
      BY <1>7, <2>2 DEF LockOutput
    <3>4. owns' \in [Processes -> SUBSET LockFiles] /\ \A q \in Processes \ {p} : owns'[q] = owns[q]
      BY <3>1, <3>2, <3>3
    <3>5. pc[p] \in Active /\ pc' \in [Processes -> {"idle", "done", "dead"} \cup Active] /\ pc'[p] \in Active
          /\ \A q \in Processes \ {p} : pc'[q] = pc[q]
      BY <1>1, <1>7, <2>2 DEF LockOutput, OutputsTypeOK
    <3>6. UNCHANGED <<asked, opened, disk, shares, answers, faults>>
      BY <1>7, <2>2 DEF LockOutput
    <3>. QED BY <1>1, <3>4, <3>5, <3>6 DEF OutputsTypeOK
  <2>. QED BY <2>1, <2>2
<1>8. CASE LockNamespace(p)
  <2>1. CASE Unwind(p)
    BY <1>1, <2>1, UnwindTyped
  <2>2. CASE ~Unwind(p)
    <3>1. Folded(DatabaseLock(Out(p))) \in LockFiles
      BY <1>1, <1>8, PlaceTyped DEF LockNamespace, Checked, Publishing, PlaceLock
    <3>2. owns \in [Processes -> SUBSET LockFiles]
      BY <1>1 DEF OutputsTypeOK
    <3>3. owns' = [owns EXCEPT ![p] = @ \cup {Folded(DatabaseLock(Out(p)))}]
      BY <1>8, <2>2 DEF LockNamespace
    <3>4. owns' \in [Processes -> SUBSET LockFiles] /\ \A q \in Processes \ {p} : owns'[q] = owns[q]
      BY <3>1, <3>2, <3>3
    <3>5. pc[p] \in Active /\ pc' \in [Processes -> {"idle", "done", "dead"} \cup Active] /\ pc'[p] \in Active
          /\ \A q \in Processes \ {p} : pc'[q] = pc[q]
      BY <1>1, <1>8, <2>2 DEF LockNamespace, OutputsTypeOK
    <3>6. UNCHANGED <<asked, opened, disk, shares, answers, faults>>
      BY <1>8, <2>2 DEF LockNamespace
    <3>. QED BY <1>1, <3>4, <3>5, <3>6 DEF OutputsTypeOK
  <2>. QED BY <2>1, <2>2
<1>9. CASE Stage(p)
  <2>1. rows' \in [Files \X Makers -> Seq(Row)]
    BY <1>1, <1>9, RowsTyped DEF Stage, Checked, Publishing
  <2>. QED BY <1>1, <1>9, <2>1 DEF Stage, OutputsTypeOK
<1>10. CASE Publish(p)
  <2>1. CASE Unwind(p)
    BY <1>1, <2>1, UnwindTyped
  <2>2. CASE ~Unwind(p)
    <3>1. request[p].force \in BOOLEAN
      BY <1>1, RequestTyped
    <3>2. /\ file' = [file EXCEPT ![Place(p)] = p]
          /\ staged' = [staged EXCEPT ![p] = ~request[p].force]
          /\ published' = published \cup {p}
      BY <1>10, <2>2 DEF Publish
    <3>3. file' \in [Files -> Makers \cup {NoFile}] /\ staged' \in [Processes -> BOOLEAN]
          /\ published' \subseteq Processes
      BY <1>1, <3>1, <3>2 DEF OutputsTypeOK, Makers
    <3>. QED BY <1>1, <1>10, <2>2, <3>3 DEF Publish, OutputsTypeOK
  <2>. QED BY <2>1, <2>2
<1>11. CASE Unlink(p)
  BY <1>1, <1>11 DEF Unlink, OutputsTypeOK
<1>12. CASE Return(p)
  BY <1>1, <1>12 DEF Return, OutputsTypeOK
<1>13. CASE Close(p)
  <2>1. log' \subseteq Files /\ owns[p] \in SUBSET LockFiles
    BY <1>1, <1>13 DEF Close, OutputsTypeOK, LogAfter
  <2>2. owns[p] = {}
    BY <1>13 DEF OutputsInv, Locked, Close
  <2>3. shares' \in [Processes -> SUBSET LockFiles] /\ shares'[p] = {}
        /\ \A q \in Processes \ {p} : shares'[q] = shares[q]
    BY <1>1, <1>13 DEF Close, OutputsTypeOK
  <2>. QED BY <1>1, <1>13, <2>1, <2>2, <2>3 DEF Close, OutputsTypeOK
<1>14. CASE TimedOut(p) \/ Fail(p)
  BY <1>1, <1>14, UnwindTyped DEF TimedOut, Fail
<1>15. CASE Kill(p)
  BY <1>1, <1>15, OutputsAssumption DEF Kill, OutputsTypeOK
<1>16. CASE Intrude(p)
  <2>1. file' \in [Files -> Makers \cup {NoFile}] /\ faults' \in 0 .. MaxFaults
    <3>1. file' = [file EXCEPT ![Place(p)] = Nobody] /\ faults' = faults + 1 /\ faults < MaxFaults
      BY <1>16 DEF Intrude
    <3>2. file \in [Files -> Makers \cup {NoFile}] /\ Nobody \in Makers
      BY <1>1 DEF OutputsTypeOK, Makers
    <3>3. faults \in 0 .. MaxFaults /\ MaxFaults \in Nat
      BY <1>1, OutputsAssumption DEF OutputsTypeOK
    <3>4. file' \in [Files -> Makers \cup {NoFile}]
      BY <3>1, <3>2
    <3>. QED BY <3>1, <3>3, <3>4
  <2>. QED BY <1>1, <1>16, <2>1 DEF Intrude, OutputsTypeOK
<1>. QED BY <1>2, <1>3, <1>4, <1>5, <1>6, <1>7, <1>8, <1>9, <1>10, <1>11, <1>12, <1>13, <1>14, <1>15, <1>16
     DEF Step

\* A process that goes on or stops; the others stay where they are.
LEMMA Others ==
  ASSUME OutputsTypeOK, NEW p \in Processes, Step(p) \/ Fail(p) \/ Kill(p) \/ Intrude(p)
  PROVE  /\ config' = config /\ request' = request
         /\ \A q \in Processes \ {p} :
              /\ pc'[q] = pc[q] /\ database'[q] = database[q] /\ opened'[q] = opened[q]
              /\ shares'[q] = shares[q] /\ owns'[q] = owns[q]
              /\ staged'[q] = staged[q] /\ receipt'[q] = receipt[q] /\ told'[q] = told[q]
         /\ pc[p] # "idle" => database' = database
         /\ pc[p] \in Active \cup {"idle"}
<1>. USE DEF Goto, Answer, asked, disk, locks, answers, Active, OutputsTypeOK
<1>1. CASE Begin(p)
  BY <1>1 DEF Begin
<1>2. CASE Connect(p)
  BY <1>2 DEF Connect, Unwind
<1>3. CASE Record(p)
  BY <1>3 DEF Record
<1>4. CASE Guard(p)
  BY <1>4 DEF Guard, Unwind
<1>5. CASE LockOutput(p)
  BY <1>5 DEF LockOutput, Unwind
<1>6. CASE LockNamespace(p)
  BY <1>6 DEF LockNamespace, Unwind
<1>7. CASE Stage(p)
  BY <1>7 DEF Stage
<1>8. CASE Publish(p)
  BY <1>8 DEF Publish, Unwind
<1>9. CASE Unlink(p)
  BY <1>9 DEF Unlink
<1>10. CASE Return(p)
  BY <1>10 DEF Return
<1>11. CASE Close(p)
  BY <1>11 DEF Close
<1>12. CASE TimedOut(p) \/ Fail(p)
  BY <1>12 DEF TimedOut, Fail, Unwind
<1>13. CASE Kill(p)
  BY <1>13 DEF Kill
<1>14. CASE Intrude(p)
  BY <1>14 DEF Intrude
<1>. QED BY <1>1, <1>2, <1>3, <1>4, <1>5, <1>6, <1>7, <1>8, <1>9, <1>10, <1>11, <1>12, <1>13, <1>14 DEF Step

\* What the guards read does not change while an operation runs.
LEMMA GuardsStay ==
  ASSUME NEW q \in Processes, config' = config, request'[q] = request[q], database'[q] = database[q],
         Acceptable(request[q], database[q])
  PROVE  Acceptable(request[q], database[q])'
BY DEF Acceptable, ValidOutput, ExternalTo, ClearOfConfigured, Configured, ProjectDatabase

LEMMA CheckedStep ==
  ASSUME OutputsInv, OutputsNext
  PROVE  Checked'
<1>. USE DEF Goto, Answer, asked, disk, locks, answers, Active, Publishing
<1>1. OutputsTypeOK /\ Checked /\ Made
  BY DEF OutputsInv
<1>2. PICK p \in Processes : Step(p) \/ Fail(p) \/ Kill(p) \/ Intrude(p)
  BY DEF OutputsNext
<1>3. /\ config' = config /\ request' = request
      /\ \A q \in Processes \ {p} : pc'[q] = pc[q] /\ database'[q] = database[q]
      /\ pc[p] # "idle" => database' = database
  BY <1>1, <1>2, Others
<1>. SUFFICES ASSUME NEW q \in Processes, pc'[q] \in Publishing \/ (Is(q, "backup") /\ pc'[q] \in Active)
              PROVE  Out(q) # NoPath /\ Acceptable(request[q], database[q])'
  BY <1>3 DEF Checked, Is, Out
<1>4. CASE q # p
  BY <1>1, <1>3, <1>4, GuardsStay DEF Checked
<1>5. CASE q = p /\ pc[p] # "idle"
  <2>1. Out(p) # NoPath /\ Acceptable(request[p], database[p])
    <3>1. CASE pc[p] \in Publishing \/ (Is(p, "backup") /\ pc[p] \in Active)
      BY <1>1, <3>1 DEF Checked
    <3>2. CASE pc[p] \notin Publishing /\ ~(Is(p, "backup") /\ pc[p] \in Active)
      BY <1>1, <1>2, <1>5, <3>2
      DEF Step, Begin, Connect, Record, Guard, LockOutput, LockNamespace, Stage, Publish, Unlink, Return,
          Close, TimedOut, Fail, Kill, Intrude, Unwind, OutputsTypeOK, Out
    <3>. QED BY <3>1, <3>2
  <2>. QED BY <1>3, <1>5, <2>1, GuardsStay
<1>6. CASE q = p /\ pc[p] = "idle"
  <2>1. Begin(p)
    BY <1>2, <1>6 DEF Step, Connect, Record, Guard, LockOutput, LockNamespace, Stage, Publish, Unlink, Return,
          Close, TimedOut, Fail, Kill, Intrude
  <2>2. PICK d \in Selected(request[p]) : database' = [database EXCEPT ![p] = d]
    BY <1>1, <1>6, <2>1 DEF Begin, OutputsTypeOK
  <2>3. Is(p, "backup")
    BY <1>1, <1>6, <2>1 DEF Begin, OutputsTypeOK
  <2>4. Out(p) # NoPath /\ Acceptable(request[p], d) /\ database'[p] = d
    BY <1>1, <2>2, <2>3, RequestTyped, SelectedTyped DEF Is, OutputsTypeOK
  <2>5. Acceptable(request[p], database[p])'
    BY <1>3, <2>4 DEF Acceptable, ValidOutput, ExternalTo, ClearOfConfigured, Configured, ProjectDatabase
  <2>. QED BY <1>6, <2>4, <2>5
<1>. QED BY <1>4, <1>5, <1>6

\* What an operation does to the locks and the logs: it gives up some, or takes
\* one that it may take.
LEMMA LocksMove ==
  ASSUME OutputsTypeOK, NEW p \in Processes, Step(p) \/ Fail(p) \/ Kill(p) \/ Intrude(p)
  PROVE  \/ owns'[p] \subseteq owns[p] /\ shares'[p] \subseteq shares[p] /\ log' \subseteq log
         \/ \E l : MayOwn(l) /\ owns'[p] = owns[p] \cup {l} /\ shares'[p] = shares[p] /\ log' = log
         \/ /\ pc[p] = "connect" /\ MayShare(SourceLock(p))
            /\ shares'[p] = {SourceLock(p)} /\ owns'[p] = owns[p] /\ log' = log \cup {Source(p)}
<1>. USE DEF asked, disk, locks, answers
<1>1. owns \in [Processes -> SUBSET LockFiles] /\ shares \in [Processes -> SUBSET LockFiles]
  BY DEF OutputsTypeOK
<1>2. ASSUME Unwind(p) PROVE owns'[p] = {} /\ shares'[p] = {} /\ log' \subseteq log
  BY <1>1, <1>2 DEF Unwind, LogAfter
<1>3. CASE Begin(p) \/ Record(p) \/ Stage(p) \/ Unlink(p) \/ Intrude(p)
  BY <1>3 DEF Begin, Record, Stage, Unlink, Intrude
<1>4. CASE Connect(p)
  BY <1>1, <1>2, <1>4 DEF Connect, SourceLock
<1>5. CASE Guard(p)
  BY <1>2, <1>5 DEF Guard
<1>6. CASE LockOutput(p)
  BY <1>1, <1>2, <1>6 DEF LockOutput
<1>7. CASE LockNamespace(p)
  BY <1>1, <1>2, <1>7 DEF LockNamespace
<1>8. CASE Publish(p)
  BY <1>2, <1>8 DEF Publish
<1>9. CASE Return(p)
  BY <1>1, <1>9 DEF Return
<1>10. CASE Close(p)
  BY <1>1, <1>10 DEF Close, LogAfter
<1>11. CASE TimedOut(p) \/ Fail(p)
  BY <1>2, <1>11 DEF TimedOut, Fail
<1>12. CASE Kill(p)
  BY <1>1, <1>12 DEF Kill
<1>. QED BY <1>3, <1>4, <1>5, <1>6, <1>7, <1>8, <1>9, <1>10, <1>11, <1>12 DEF Step

LEMMA LockedStep ==
  ASSUME OutputsInv, OutputsNext
  PROVE  Locked'
<1>. USE DEF Active
<1>1. OutputsTypeOK /\ Checked /\ Locked
  BY DEF OutputsInv
<1>2. PICK p \in Processes : Step(p) \/ Fail(p) \/ Kill(p) \/ Intrude(p)
  BY DEF OutputsNext
<1>3. /\ request' = request
      /\ \A q \in Processes \ {p} : /\ pc'[q] = pc[q] /\ database'[q] = database[q]
                                   /\ shares'[q] = shares[q] /\ owns'[q] = owns[q]
      /\ pc[p] # "idle" => database' = database
  BY <1>1, <1>2, Others
<1>4. \/ owns'[p] \subseteq owns[p] /\ shares'[p] \subseteq shares[p] /\ log' \subseteq log
      \/ \E l : MayOwn(l) /\ owns'[p] = owns[p] \cup {l} /\ shares'[p] = shares[p] /\ log' = log
      \/ /\ pc[p] = "connect" /\ MayShare(SourceLock(p))
         /\ shares'[p] = {SourceLock(p)} /\ owns'[p] = owns[p] /\ log' = log \cup {Source(p)}
  BY <1>1, <1>2, LocksMove
<1>5. \A a, b \in Processes : owns'[a] \cap shares'[b] = {} /\ (a # b => owns'[a] \cap owns'[b] = {})
  <2>. TAKE a, b \in Processes
  <2>1. owns[a] \cap shares[b] = {} /\ (a # b => owns[a] \cap owns[b] = {})
    BY <1>1 DEF Locked
  <2>2. CASE owns'[p] \subseteq owns[p] /\ shares'[p] \subseteq shares[p]
    BY <1>3, <2>1, <2>2
  <2>3. CASE \E l : MayOwn(l) /\ owns'[p] = owns[p] \cup {l} /\ shares'[p] = shares[p]
    BY <1>3, <2>1, <2>3 DEF MayOwn
  <2>4. CASE MayShare(SourceLock(p)) /\ shares'[p] = {SourceLock(p)} /\ owns'[p] = owns[p]
    BY <1>3, <2>1, <2>4 DEF MayShare
  <2>. QED BY <1>4, <2>2, <2>3, <2>4
<1>6. ASSUME NEW q \in Processes, Is(q, "backup"), q # p, pc[q] \in {"stage", "publish"}
      PROVE  PlaceLock(q) \in owns[q] /\ Place(q) \notin log'
  <2>1. PlaceLock(q) \in owns[q] /\ Place(q) \notin log
    BY <1>1, <1>6 DEF Locked
  <2>2. ASSUME pc[p] = "connect", MayShare(SourceLock(p)) PROVE Place(q) # Source(p)
    <3>1. database[p] \in Paths /\ Out(q) \in Paths
      BY <1>1, <1>6, <2>2, PlaceTyped, RequestTyped DEF OutputsTypeOK
    <3>2. PlaceLock(q) # SourceLock(p)
      BY <2>1, <2>2 DEF MayShare
    <3>. QED BY <3>1, <3>2, LockFold DEF Place, Source, PlaceLock, SourceLock
  <2>. QED BY <1>4, <2>1, <2>2
<1>7. ASSUME NEW q \in Processes, q # p
      PROVE  /\ pc'[q] = "connect" => shares'[q] = {}
             /\ pc'[q] \notin {"namespace", "stage", "publish", "unlink", "return"} => owns'[q] = {}
             /\ pc'[q] \in Active \ {"connect"} => shares'[q] = {SourceLock(q)'}
             /\ Is(q, "backup")' /\ pc'[q] \in {"stage", "publish"} =>
                  PlaceLock(q)' \in owns'[q] /\ Place(q)' \notin log'
  BY <1>1, <1>3, <1>6, <1>7 DEF Locked, SourceLock, PlaceLock, Place, Is, Out
<1>8. /\ pc'[p] = "connect" => shares'[p] = {}
      /\ pc'[p] \notin {"namespace", "stage", "publish", "unlink", "return"} => owns'[p] = {}
      /\ pc'[p] \in Active \ {"connect"} => shares'[p] = {SourceLock(p)}
      /\ Is(p, "backup") /\ pc'[p] \in {"stage", "publish"} =>
           PlaceLock(p) \in owns'[p] /\ Place(p) \notin log'
  <2>. USE DEF Goto, Answer, asked, disk, locks, answers
  <2>1. /\ pc \in [Processes -> {"idle", "done", "dead"} \cup Active]
        /\ owns \in [Processes -> SUBSET LockFiles] /\ shares \in [Processes -> SUBSET LockFiles]
        /\ pc[p] \notin Active => shares[p] = {} /\ owns[p] = {}
    BY <1>1 DEF OutputsTypeOK
  <2>2. /\ pc[p] = "connect" => shares[p] = {}
        /\ pc[p] \notin {"namespace", "stage", "publish", "unlink", "return"} => owns[p] = {}
        /\ pc[p] \in Active \ {"connect"} => shares[p] = {SourceLock(p)}
        /\ Is(p, "backup") /\ pc[p] \in {"stage", "publish"} =>
             PlaceLock(p) \in owns[p] /\ Place(p) \notin log
    BY <1>1 DEF Locked
  <2>3. ASSUME Unwind(p) PROVE pc'[p] = "done" /\ owns'[p] = {} /\ shares'[p] = {}
    BY <2>1, <2>3 DEF Unwind
  <2>4. CASE Begin(p)
    BY <2>1, <2>4 DEF Begin
  <2>5. CASE Connect(p)
    BY <2>1, <2>2, <2>3, <2>5 DEF Connect, SourceLock
  <2>6. CASE Record(p) \/ Intrude(p)
    BY <2>1, <2>2, <2>6 DEF Record, Intrude
  <2>7. CASE Guard(p)
    BY <2>1, <2>2, <2>3, <2>7 DEF Guard
  <2>8. CASE LockOutput(p)
    BY <2>1, <2>2, <2>3, <2>8 DEF LockOutput
  <2>9. CASE LockNamespace(p)
    BY <2>1, <2>2, <2>3, <2>9 DEF LockNamespace, PlaceLock
  <2>10. CASE Stage(p)
    BY <2>1, <2>2, <2>10 DEF Stage
  <2>11. CASE Publish(p)
    BY <2>1, <2>2, <2>3, <2>11 DEF Publish
  <2>12. CASE Unlink(p)
    BY <2>1, <2>2, <2>12 DEF Unlink
  <2>13. CASE Return(p)
    BY <2>1, <2>2, <2>13 DEF Return
  <2>14. CASE Close(p)
    BY <2>1, <2>2, <2>14 DEF Close
  <2>15. CASE TimedOut(p) \/ Fail(p)
    BY <2>3, <2>15 DEF TimedOut, Fail
  <2>16. CASE Kill(p)
    BY <2>1, <2>16 DEF Kill
  <2>. QED BY <1>2, <2>4, <2>5, <2>6, <2>7, <2>8, <2>9, <2>10, <2>11, <2>12, <2>13, <2>14, <2>15, <2>16 DEF Step
<1>9. pc'[p] \in Active \ {"connect"} => database'[p] = database[p]
  BY <1>1, <1>2, <1>3 DEF Step, Begin, Connect, Record, Guard, LockOutput, LockNamespace, Stage, Publish,
     Unlink, Return, Close, TimedOut, Fail, Kill, Intrude, Goto, OutputsTypeOK
<1>10. /\ pc'[p] \in Active \ {"connect"} => shares'[p] = {SourceLock(p)'}
       /\ Is(p, "backup")' /\ pc'[p] \in {"stage", "publish"} =>
            PlaceLock(p)' \in owns'[p] /\ Place(p)' \notin log'
  BY <1>3, <1>8, <1>9 DEF SourceLock, PlaceLock, Place, Is, Out
<1>. QED BY <1>5, <1>7, <1>8, <1>10 DEF Locked

LEMMA MadeStep ==
  ASSUME OutputsInv, OutputsNext
  PROVE  Made'
<1>. USE DEF Goto, Answer, asked, disk, locks, answers, Active, Publishing
<1>1. OutputsTypeOK /\ Checked /\ Made
  BY DEF OutputsInv
<1>2. PICK p \in Processes : Step(p) \/ Fail(p) \/ Kill(p) \/ Intrude(p)
  BY DEF OutputsNext
<1>3. /\ request' = request
      /\ \A q \in Processes \ {p} : pc'[q] = pc[q] /\ opened'[q] = opened[q]
  BY <1>1, <1>2, Others
<1>4. /\ file \in [Files -> Makers \cup {NoFile}] /\ opened \in [Processes -> Makers]
      /\ pc \in [Processes -> {"idle", "done", "dead"} \cup Active]
      /\ request[p].kind \in {"backup", "export", "write"}
      /\ pc[p] \in Active => Source(p) \in Files
  BY <1>1, RequestTyped DEF OutputsTypeOK, Source
<1>5. /\ pc[p] \in Publishing => Out(p) # NoPath
      /\ Is(p, "backup") /\ pc[p] \in Active => Out(p) # NoPath
      /\ Is(p, "write") => Out(p) = NoPath
  BY <1>1, RequestTyped DEF Checked
<1>6. /\ \A f \in Files : file[f] \in Processes => file[f] \in published /\ f = Place(file[f])
      /\ opened[p] \in Processes => opened[p] \in published
      /\ p \in published => Out(p) # NoPath /\ pc[p] \in {"unlink", "return", "record", "close", "done", "dead"}
      /\ pc[p] \in {"unlink", "return"} => p \in published
      /\ pc[p] = "record" => p \in published \/ ~Is(p, "backup")
      /\ pc[p] = "record" /\ Is(p, "export") => p \notin published
  BY <1>1 DEF Made
<1>. DEFINE Files1 == \A f \in Files : file'[f] \in Processes => file'[f] \in published' /\ f = Place(file'[f])
            Own1 == /\ opened'[p] \in Processes => opened'[p] \in published'
                    /\ p \in published' => Out(p) # NoPath /\ pc'[p] \in {"unlink", "return", "record", "close", "done", "dead"}
                    /\ pc'[p] \in {"unlink", "return"} => p \in published'
                    /\ pc'[p] = "record" => p \in published' \/ ~Is(p, "backup")
                    /\ pc'[p] = "record" /\ Is(p, "export") => p \notin published'
            Grows == published \subseteq published' /\ published' \subseteq published \cup {p}
<1>7. ASSUME Unwind(p) PROVE Files1 /\ Own1 /\ Grows
  BY <1>4, <1>6, <1>7 DEF Unwind
<1>8. Files1 /\ Own1 /\ Grows
  <2>1. CASE Begin(p)
    BY <1>4, <1>6, <2>1 DEF Begin
  <2>2. CASE Connect(p)
    <3>1. CASE Unwind(p)
      BY <1>7, <3>1
    <3>2. CASE ~Unwind(p)
      <4>1. opened'[p] = file[Source(p)] /\ Source(p) \in Files /\ UNCHANGED <<file, published>>
        BY <1>4, <2>2, <3>2 DEF Connect
      <4>2. pc'[p] = "record" => ~Is(p, "backup")
        BY <1>4, <2>2, <3>2 DEF Connect, Is
      <4>3. pc[p] = "connect" /\ pc'[p] \in {"output", "guard", "record"}
        BY <1>4, <2>2, <3>2 DEF Connect, Is
      <4>. QED BY <1>6, <4>1, <4>2, <4>3
    <3>. QED BY <3>1, <3>2
  <2>3. CASE Record(p)
    BY <1>4, <1>6, <2>3 DEF Record
  <2>4. CASE Guard(p)
    BY <1>4, <1>6, <1>7, <2>4 DEF Guard
  <2>5. CASE LockOutput(p)
    BY <1>4, <1>6, <1>7, <2>5 DEF LockOutput
  <2>6. CASE LockNamespace(p)
    BY <1>4, <1>6, <1>7, <2>6 DEF LockNamespace
  <2>7. CASE Stage(p)
    BY <1>4, <1>6, <2>7 DEF Stage
  <2>8. CASE Publish(p)
    <3>1. CASE Unwind(p)
      BY <1>7, <3>1
    <3>2. CASE ~Unwind(p)
      <4>1. /\ file' = [file EXCEPT ![Place(p)] = p] /\ published' = published \cup {p}
            /\ opened' = opened /\ pc'[p] = "unlink" /\ Out(p) # NoPath
        BY <1>4, <1>5, <2>8, <3>2 DEF Publish
      <4>2. Files1
        <5>. TAKE f \in Files
        <5>1. CASE f = Place(p)
          BY <1>4, <4>1, <5>1
        <5>2. CASE f # Place(p)
          BY <1>4, <1>6, <4>1, <5>2
        <5>. QED BY <5>1, <5>2
      <4>. QED BY <1>6, <4>1, <4>2
    <3>. QED BY <3>1, <3>2
  <2>9. CASE Unlink(p)
    BY <1>4, <1>6, <2>9 DEF Unlink
  <2>10. CASE Return(p)
    BY <1>4, <1>5, <1>6, <2>10 DEF Return, Is
  <2>11. CASE Close(p)
    BY <1>4, <1>6, <2>11 DEF Close
  <2>12. CASE TimedOut(p) \/ Fail(p)
    BY <1>7, <2>12 DEF TimedOut, Fail
  <2>13. CASE Kill(p)
    BY <1>4, <1>6, <2>13 DEF Kill
  <2>14. CASE Intrude(p)
    <3>1. file' = [file EXCEPT ![Place(p)] = Nobody] /\ UNCHANGED <<published, pc, opened>>
      BY <2>14 DEF Intrude
    <3>2. Files1
      BY <1>4, <1>6, <3>1, OutputsAssumption
    <3>. QED BY <1>6, <3>1, <3>2
  <2>. QED BY <1>2, <2>1, <2>2, <2>3, <2>4, <2>5, <2>6, <2>7, <2>8, <2>9, <2>10, <2>11, <2>12, <2>13, <2>14 DEF Step
<1>9. \A q \in Processes : Out(q)' = Out(q) /\ Place(q)' = Place(q) /\ \A k : Is(q, k)' = Is(q, k)
  BY <1>3 DEF Out, Place, Is
<1>10. \A f \in Files : file'[f] \in Processes => f = Place(file[f])'
  BY <1>3, <1>8 DEF Place, Out
<1>. QED BY <1>1, <1>3, <1>8, <1>9, <1>10 DEF Made

LEMMA AnsweringStep ==
  ASSUME OutputsInv, OutputsNext
  PROVE  Answering'
<1>. USE DEF Goto, Answer, asked, disk, locks, answers, Active, Publishing
<1>1. OutputsTypeOK /\ Checked /\ Made /\ Answering
  BY DEF OutputsInv
<1>2. PICK p \in Processes : Step(p) \/ Fail(p) \/ Kill(p) \/ Intrude(p)
  BY DEF OutputsNext
<1>3. /\ request' = request
      /\ \A q \in Processes \ {p} : /\ pc'[q] = pc[q] /\ told'[q] = told[q]
                                   /\ staged'[q] = staged[q] /\ receipt'[q] = receipt[q]
  BY <1>1, <1>2, Others
<1>4. /\ pc \in [Processes -> {"idle", "done", "dead"} \cup Active]
      /\ told \in [Processes -> {"nothing", "ok", "error"}]
      /\ staged \in [Processes -> BOOLEAN] /\ receipt \in [Processes -> Nat]
      /\ request[p].kind \in {"backup", "export", "write"}
  BY <1>1, RequestTyped DEF OutputsTypeOK
<1>5. /\ pc[p] \in Publishing => Out(p) # NoPath
      /\ Is(p, "write") => Out(p) = NoPath
  BY <1>1, RequestTyped DEF Checked
<1>6. /\ pc[p] \in {"unlink", "return"} => p \in published
      /\ pc[p] = "record" => p \in published \/ ~Is(p, "backup")
  BY <1>1 DEF Made
<1>. DEFINE Own(t, at, s, n, pub) ==
              /\ t = "ok" => at = "done"
              /\ s => at \in {"publish", "unlink", "dead"}
              /\ at \in {"idle", "connect"} => n = 0
              /\ at = "guard" => Is(p, "export")
              /\ Is(p, "export") /\ request[p].actor /\ at \in Publishing \cup {"guard"} => n > 0
              /\ at = "close" => (Out(p) # NoPath => p \in pub) /\ (request[p].actor => n > 0)
            Own1 == Own(told'[p], pc'[p], staged'[p], receipt'[p], published')
<1>7. Own(told[p], pc[p], staged[p], receipt[p], published)
  BY <1>1 DEF Answering
<1>8. ASSUME Unwind(p) PROVE Own1 /\ published' = published
  <2>1. pc'[p] = "done" /\ ~staged'[p] /\ published' = published
    BY <1>4, <1>8 DEF Unwind
  <2>. QED BY <2>1
<1>9. Own1 /\ published \subseteq published'
  <2>1. CASE Begin(p)
    BY <1>4, <1>7, <2>1 DEF Begin
  <2>2. CASE Connect(p)
    BY <1>4, <1>7, <1>8, <2>2 DEF Connect, Is
  <2>3. CASE Record(p)
    <3>1. /\ rows' = [rows EXCEPT ![Opened(p)] = Append(@, [by |-> p, what |-> request[p].kind])]
          /\ receipt' = [receipt EXCEPT ![p] = Len(rows'[Opened(p)])]
          /\ pc'[p] = (IF Is(p, "export") THEN "guard" ELSE "close")
          /\ pc[p] = "record" /\ UNCHANGED <<published, told, staged>>
      BY <1>4, <2>3 DEF Record
    <3>2. rows'[Opened(p)] = Append(rows[Opened(p)], [by |-> p, what |-> request[p].kind])
      BY <1>1, <3>1, RowTyped DEF OutputsTypeOK
    <3>3. Len(rows'[Opened(p)]) = Len(rows[Opened(p)]) + 1 /\ Len(rows[Opened(p)]) \in Nat
      BY <1>1, <3>1, <3>2, RowTyped, AppendProperties, LenProperties
    <3>4. receipt'[p] > 0
      BY <1>4, <3>1, <3>3
    <3>. QED BY <1>4, <1>5, <1>6, <1>7, <3>1, <3>4 DEF Is
  <2>4. CASE Guard(p)
    BY <1>4, <1>7, <1>8, <2>4 DEF Guard
  <2>5. CASE LockOutput(p)
    BY <1>4, <1>7, <1>8, <2>5 DEF LockOutput
  <2>6. CASE LockNamespace(p)
    BY <1>4, <1>7, <1>8, <2>6 DEF LockNamespace
  <2>7. CASE Stage(p)
    BY <1>4, <1>7, <2>7 DEF Stage
  <2>8. CASE Publish(p)
    BY <1>4, <1>7, <1>8, <2>8 DEF Publish
  <2>9. CASE Unlink(p)
    BY <1>4, <1>7, <2>9 DEF Unlink
  <2>10. CASE Return(p)
    BY <1>4, <1>5, <1>6, <1>7, <2>10 DEF Return, Is
  <2>11. CASE Close(p)
    BY <1>4, <1>7, <2>11 DEF Close
  <2>12. CASE TimedOut(p) \/ Fail(p)
    BY <1>8, <2>12 DEF TimedOut, Fail
  <2>13. CASE Kill(p)
    BY <1>4, <1>7, <2>13 DEF Kill
  <2>14. CASE Intrude(p)
    BY <1>7, <2>14 DEF Intrude
  <2>. QED BY <1>2, <2>1, <2>2, <2>3, <2>4, <2>5, <2>6, <2>7, <2>8, <2>9, <2>10, <2>11, <2>12, <2>13, <2>14 DEF Step
<1>. QED BY <1>1, <1>3, <1>9 DEF Answering, Is, Out

\* The rows of a database that somebody has open, or that lies at a place, only grow.
LEMMA RowsMove ==
  ASSUME OutputsInv, NEW p \in Processes, Step(p) \/ Fail(p) \/ Kill(p) \/ Intrude(p)
  PROVE  \/ rows' = rows
         \/ /\ Record(p) /\ Opened(p) \in Files \X Makers /\ rows[Opened(p)] \in Seq(Row)
            /\ rows' = [rows EXCEPT ![Opened(p)] = Append(@, [by |-> p, what |-> request[p].kind])]
         \/ /\ Stage(p) /\ p \notin published /\ Opened(p) \in Files \X Makers
            /\ rows' = [rows EXCEPT ![<<Place(p), p>>] = rows[Opened(p)]]
<1>. USE DEF asked, disk, locks, answers
<1>1. OutputsTypeOK /\ Made
  BY DEF OutputsInv
<1>2. CASE Record(p)
  BY <1>1, <1>2, RowTyped DEF Record, Active
<1>3. CASE Stage(p)
  BY <1>1, <1>3, RowTyped DEF Stage, Active, Made
<1>4. CASE ~Record(p) /\ ~Stage(p)
  BY <1>4 DEF Step, Begin, Connect, Guard, LockOutput, LockNamespace, Publish, Unlink, Return, Close,
     TimedOut, Fail, Kill, Intrude, Unwind
<1>. QED BY <1>2, <1>3, <1>4

LEMMA ToldStep ==
  ASSUME OutputsInv, OutputsNext
  PROVE  ToldTruly'
<1>. USE DEF Goto, Answer, asked, disk, locks, answers, Active, Publishing
<1>1. OutputsTypeOK /\ Made /\ Answering /\ ToldTruly
  BY DEF OutputsInv
<1>2. PICK p \in Processes : Step(p) \/ Fail(p) \/ Kill(p) \/ Intrude(p)
  BY DEF OutputsNext
<1>3. /\ request' = request
      /\ \A q \in Processes \ {p} : /\ told'[q] = told[q] /\ staged'[q] = staged[q] /\ receipt'[q] = receipt[q]
                                   /\ database'[q] = database[q] /\ opened'[q] = opened[q]
      /\ pc[p] \in Active \cup {"idle"} /\ (pc[p] # "idle" => database' = database)
  BY <1>1, <1>2, Others
<1>4. /\ pc \in [Processes -> {"idle", "done", "dead"} \cup Active]
      /\ told \in [Processes -> {"nothing", "ok", "error"}]
      /\ staged \in [Processes -> BOOLEAN] /\ receipt \in [Processes -> Nat]
      /\ opened \in [Processes -> Makers] /\ rows \in [Files \X Makers -> Seq(Row)]
  BY <1>1 DEF OutputsTypeOK
<1>5. \/ rows' = rows
      \/ /\ Record(p) /\ Opened(p) \in Files \X Makers /\ rows[Opened(p)] \in Seq(Row)
         /\ rows' = [rows EXCEPT ![Opened(p)] = Append(@, [by |-> p, what |-> request[p].kind])]
      \/ /\ Stage(p) /\ p \notin published /\ Opened(p) \in Files \X Makers
         /\ rows' = [rows EXCEPT ![<<Place(p), p>>] = rows[Opened(p)]]
  BY <1>2, RowsMove
<1>6. Answering'
  BY AnsweringStep
<1>7. published \subseteq published' /\ published' \subseteq published \cup {p}
      /\ (p \in published' \ published => pc[p] = "publish" /\ receipt' = receipt)
  BY <1>2 DEF Step, Begin, Connect, Record, Guard, LockOutput, LockNamespace, Stage, Publish, Unlink, Return,
     Close, TimedOut, Fail, Kill, Intrude, Unwind
<1>8. receipt'[p] = receipt[p] \/ Record(p)
  BY <1>2, <1>4 DEF Step, Begin, Connect, Record, Guard, LockOutput, LockNamespace, Stage, Publish, Unlink,
     Return, Close, TimedOut, Fail, Kill, Intrude, Unwind
<1>9. told'[p] = "ok" => Close(p)
  BY <1>1, <1>2, <1>3, <1>4 DEF Step, Begin, Connect, Record, Guard, LockOutput, LockNamespace, Stage, Publish,
     Unlink, Return, Close, TimedOut, Fail, Kill, Intrude, Unwind, Answering
<1>10. \A q \in Processes : told'[q] = "ok" =>
         (Out(q) # NoPath => q \in published') /\ ~staged'[q] /\ (request[q].actor => receipt'[q] > 0)
  <2>. TAKE q \in Processes
  <2>1. CASE q # p
    BY <1>1, <1>3, <1>7, <2>1 DEF ToldTruly
  <2>2. CASE q = p /\ Close(p)
    BY <1>1, <1>4, <2>2 DEF Close, Answering
  <2>. QED BY <1>9, <2>1, <2>2
<1>11. \A q \in Processes : Is(q, "export") /\ request[q].actor /\ q \in published' => receipt'[q] > 0
  <2>. SUFFICES ASSUME NEW q \in Processes, Is(q, "export"), request[q].actor, q \in published'
                PROVE  receipt'[q] > 0
    OBVIOUS
  <2>1. CASE q \in published
    <3>1. receipt[q] > 0
      BY <1>1, <2>1 DEF ToldTruly
    <3>2. CASE q = p /\ Record(p)
      BY <1>1, <2>1, <3>2 DEF Made, Record
    <3>. QED BY <1>3, <1>8, <3>1, <3>2
  <2>2. CASE q \notin published
    BY <1>1, <1>7, <2>2 DEF Answering
  <2>. QED BY <2>1, <2>2
<1>12. ASSUME NEW q \in Processes, receipt'[q] > 0
       PROVE  /\ receipt'[q] <= Len(rows'[Opened(q)'])
              /\ rows'[Opened(q)'][receipt'[q]] = [by |-> q, what |-> request[q].kind]
  <2>1. CASE q = p /\ Record(p)
    <3>1. /\ Opened(p) \in Files \X Makers /\ rows[Opened(p)] \in Seq(Row)
          /\ rows' = [rows EXCEPT ![Opened(p)] = Append(@, [by |-> p, what |-> request[p].kind])]
          /\ [by |-> p, what |-> request[p].kind] \in Row
      BY <1>1, <2>1, RowTyped DEF Record
    <3>2. rows'[Opened(p)] = Append(rows[Opened(p)], [by |-> p, what |-> request[p].kind])
      BY <1>4, <3>1
    <3>3. Opened(p)' = Opened(p) /\ receipt'[p] = Len(rows'[Opened(p)])
      BY <1>4, <2>1 DEF Record, Opened, Source
    <3>4. /\ Len(rows'[Opened(p)]) = Len(rows[Opened(p)]) + 1
          /\ rows'[Opened(p)][Len(rows[Opened(p)]) + 1] = [by |-> p, what |-> request[p].kind]
      BY <3>1, <3>2, AppendProperties
    <3>5. Len(rows[Opened(p)]) \in Nat
      BY <3>1, LenProperties
    <3>. QED BY <2>1, <3>3, <3>4, <3>5
  <2>2. CASE ~(q = p /\ Record(p))
    <3>1. receipt'[q] = receipt[q] /\ receipt[q] \in Nat /\ receipt[q] > 0
      BY <1>3, <1>4, <1>8, <1>12, <2>2
    <3>2. /\ receipt[q] <= Len(rows[Opened(q)])
          /\ rows[Opened(q)][receipt[q]] = [by |-> q, what |-> request[q].kind]
      BY <1>1, <3>1 DEF ToldTruly
    <3>3. Opened(q)' = Opened(q)
      <4>1. CASE q # p
        BY <1>3, <4>1 DEF Opened, Source
      <4>2. CASE q = p
        <5>1. pc[p] \notin {"idle", "connect"}
          BY <1>1, <3>1, <4>2 DEF Answering
        <5>. QED BY <1>2, <4>2, <5>1 DEF Step, Begin, Connect, Record, Guard, LockOutput, LockNamespace, Stage,
             Publish, Unlink, Return, Close, TimedOut, Fail, Kill, Intrude, Unwind, Opened, Source
      <4>. QED BY <4>1, <4>2
    <3>4. CASE rows' = rows
      BY <3>1, <3>2, <3>3, <3>4
    <3>5. CASE /\ Opened(p) \in Files \X Makers /\ rows[Opened(p)] \in Seq(Row)
               /\ rows' = [rows EXCEPT ![Opened(p)] = Append(@, [by |-> p, what |-> request[p].kind])]
               /\ Record(p)
      <4>1. CASE Opened(q) # Opened(p)
        BY <1>4, <3>1, <3>2, <3>3, <3>5, <4>1
      <4>2. CASE Opened(q) = Opened(p)
        <5>1. rows'[Opened(q)] = Append(rows[Opened(q)], [by |-> p, what |-> request[p].kind])
              /\ rows[Opened(q)] \in Seq(Row)
          BY <1>4, <3>5, <4>2
        <5>2. [by |-> p, what |-> request[p].kind] \in Row
          BY <1>1, <3>5, RowTyped DEF Record
        <5>3. Len(rows'[Opened(q)]) = Len(rows[Opened(q)]) + 1 /\ Len(rows[Opened(q)]) \in Nat
              /\ \A i \in 1 .. Len(rows[Opened(q)]) : rows'[Opened(q)][i] = rows[Opened(q)][i]
          BY <5>1, <5>2, AppendProperties, LenProperties
        <5>. QED BY <3>1, <3>2, <3>3, <5>3
      <4>. QED BY <4>1, <4>2
    <3>6. CASE p \notin published /\ rows' = [rows EXCEPT ![<<Place(p), p>>] = rows[Opened(p)]]
      <4>1. Opened(q) # <<Place(p), p>>
        BY <1>1, <3>6 DEF Made, Opened
      <4>2. rows'[Opened(q)] = rows[Opened(q)]
        BY <1>4, <3>6, <4>1
      <4>. QED BY <3>1, <3>2, <3>3, <4>2
    <3>. QED BY <1>5, <3>4, <3>5, <3>6
  <2>. QED BY <2>1, <2>2
<1>13. ASSUME NEW d \in Files \X Makers, NEW i \in DOMAIN rows'[d], rows'[d][i].what = "backup"
       PROVE  rows'[d][i].by \in published'
  <2>1. \A c \in Files \X Makers : \A j \in DOMAIN rows[c] :
          rows[c][j].what = "backup" => rows[c][j].by \in published
    BY <1>1 DEF ToldTruly
  <2>2. CASE rows'[d] = rows[d]
    BY <1>7, <1>13, <2>1, <2>2
  <2>3. CASE Record(p) /\ d = Opened(p) /\ rows[d] \in Seq(Row)
             /\ rows'[d] = Append(rows[d], [by |-> p, what |-> request[p].kind])
    <3>1. [by |-> p, what |-> request[p].kind] \in Row
      BY <1>1, <2>3, RowTyped DEF Record
    <3>2. /\ rows'[d] \in Seq(Row) /\ Len(rows'[d]) = Len(rows[d]) + 1
          /\ \A j \in 1 .. Len(rows[d]) : rows'[d][j] = rows[d][j]
          /\ rows'[d][Len(rows[d]) + 1] = [by |-> p, what |-> request[p].kind]
      BY <2>3, <3>1, AppendProperties
    <3>3. DOMAIN rows'[d] = 1 .. Len(rows'[d]) /\ DOMAIN rows[d] = 1 .. Len(rows[d]) /\ Len(rows[d]) \in Nat
      BY <2>3, <3>2, LenProperties
    <3>4. CASE i \in 1 .. Len(rows[d])
      BY <1>7, <1>13, <2>1, <3>2, <3>3, <3>4
    <3>5. CASE i = Len(rows[d]) + 1
      <4>1. rows'[d][i] = [by |-> p, what |-> request[p].kind]
        BY <3>2, <3>5
      <4>2. Is(p, "backup") /\ rows'[d][i].by = p
        BY <1>13, <4>1 DEF Is
      <4>3. p \in published
        BY <1>1, <2>3, <4>2 DEF Made, Record
      <4>. QED BY <1>7, <4>2, <4>3
    <3>. QED BY <3>2, <3>3, <3>4, <3>5
  <2>4. CASE rows'[d] = rows[Opened(p)] /\ Opened(p) \in Files \X Makers
    BY <1>7, <1>13, <2>1, <2>4
  <2>. QED BY <1>4, <1>5, <2>2, <2>3, <2>4
<1>14. \A q \in Processes : Out(q)' = Out(q) /\ \A k : Is(q, k)' = Is(q, k)
  BY <1>3 DEF Out, Is
<1>. QED BY <1>3, <1>10, <1>11, <1>12, <1>13, <1>14 DEF ToldTruly

LEMMA InvNext == OutputsInv /\ [OutputsNext]_vars => OutputsInv'
<1>1. ASSUME OutputsInv, OutputsNext PROVE OutputsInv'
  <2>1. OutputsTypeOK'
    BY <1>1, TypeStep
  <2>2. Checked'
    BY <1>1, CheckedStep
  <2>3. Locked'
    BY <1>1, LockedStep
  <2>4. Made'
    BY <1>1, MadeStep
  <2>5. Answering'
    BY <1>1, AnsweringStep
  <2>6. ToldTruly'
    BY <1>1, ToldStep
  <2>. QED BY <2>1, <2>2, <2>3, <2>4, <2>5, <2>6 DEF OutputsInv
<1>2. ASSUME OutputsInv, UNCHANGED vars PROVE OutputsInv'
  <2>. USE <1>2 DEF vars, OutputsInv
  <2>1. OutputsTypeOK'
    BY DEF OutputsTypeOK
  <2>2. Checked'
    <3>. SUFFICES ASSUME NEW q \in Processes, pc'[q] \in Publishing \/ (Is(q, "backup")' /\ pc'[q] \in Active)
                  PROVE  Out(q)' # NoPath /\ Acceptable(request[q], database[q])'
      BY DEF Checked
    <3>1. Out(q) # NoPath /\ Acceptable(request[q], database[q])
      BY DEF Checked, Is
    <3>. QED BY <3>1, GuardsStay DEF Out
  <2>3. Locked'
    BY DEF Locked, SourceLock, PlaceLock, Place, Out, Is
  <2>4. Made'
    BY DEF Made, Place, Out, Is
  <2>5. Answering'
    BY DEF Answering, Is, Out
  <2>6. ToldTruly'
    BY DEF ToldTruly, Is, Out, Opened, Source
  <2>. QED BY <2>1, <2>2, <2>3, <2>4, <2>5, <2>6 DEF OutputsInv
<1>. QED BY <1>1, <1>2

-----------------------------------------------------------------------------
\* The locks, the guards and the answers hold together in every reachable state:
\* an output was found acceptable before it is published, a backup has its place
\* to itself from the stage on, and the row of a receipt is still where it was.
THEOREM OutputsInvariant == OutputsSpec => []OutputsInv
<1>1. OutputsInit => OutputsInv
  BY InvInit
<1>2. OutputsInv /\ [OutputsNext]_vars => OutputsInv'
  BY InvNext
<1>. QED BY <1>1, <1>2, PTL DEF OutputsSpec

\* The variables stay in their types, and the locks of a process that has
\* finished, failed or died are free.
THEOREM OutputsTyped == OutputsSpec => []OutputsTypeOK
<1>1. OutputsInv => OutputsTypeOK
  BY DEF OutputsInv
<1>. QED BY <1>1, OutputsInvariant, PTL

\* Of a backup, an export or a write that is answered ok, everything happened;
\* and the ledger names no backup that was never published.
THEOREM AnswersAreTrue == OutputsSpec => []ToldTruly
<1>1. OutputsInv => ToldTruly
  BY DEF OutputsInv
<1>. QED BY <1>1, OutputsInvariant, PTL

-----------------------------------------------------------------------------
\* Publication.

LEMMA PublishStep ==
  ASSUME OutputsTypeOK, OutputsNext, NEW p \in Processes, p \in published' \ published
  PROVE  Publish(p) /\ (request[p].force \/ ~Exists(Place(p))) /\ file' = [file EXCEPT ![Place(p)] = p]
<1>1. PICK q \in Processes : Step(q) \/ Fail(q) \/ Kill(q) \/ Intrude(q)
  BY DEF OutputsNext
<1>2. Publish(q) /\ published' = published \cup {q}
  BY <1>1 DEF Step, Begin, Connect, Record, Guard, LockOutput, LockNamespace, Stage, Publish, Unlink, Return,
     Close, TimedOut, Fail, Kill, Intrude, Unwind, asked, disk, locks, answers
<1>3. q = p
  BY <1>2
<1>. QED BY <1>2, <1>3 DEF Publish, Unwind

LEMMA FileMove ==
  ASSUME OutputsTypeOK, OutputsNext
  PROVE  \/ file' = file
         \/ \E p \in Processes : p \in published' \ published /\ file' = [file EXCEPT ![Place(p)] = p]
         \/ \E f : ~Exists(f) /\ file' = [file EXCEPT ![f] = Nobody]
         \/ \E p \in Processes : Publish(p) /\ p \in published
<1>1. PICK q \in Processes : Step(q) \/ Fail(q) \/ Kill(q) \/ Intrude(q)
  BY DEF OutputsNext
<1>. QED BY <1>1 DEF Step, Begin, Connect, Record, Guard, LockOutput, LockNamespace, Stage, Publish, Unlink,
     Return, Close, TimedOut, Fail, Kill, Intrude, Unwind, asked, disk, locks, answers

LEMMA KeptStep ==
  ASSUME OutputsInv, OutputsNext, NEW f \in Files
  PROVE  /\ Exists(f) /\ file'[f] = file[f] => IsPrefix(rows[<<f, file[f]>>], rows'[<<f, file[f]>>])
         /\ file'[f] # file[f] =>
              \/ ~Exists(f) /\ file'[f] = Nobody
              \/ /\ f \notin Managed
                 /\ \E p \in Processes :
                      /\ p \in published' \ published /\ Place(p) = f /\ Source(p) # f
                      /\ Exists(f) => request[p].force
<1>1. OutputsTypeOK /\ Checked /\ Made
  BY DEF OutputsInv
<1>2. ASSUME Exists(f), file'[f] = file[f]
      PROVE  IsPrefix(rows[<<f, file[f]>>], rows'[<<f, file[f]>>])
  <2>1. PICK p \in Processes : Step(p) \/ Fail(p) \/ Kill(p) \/ Intrude(p)
    BY DEF OutputsNext
  <2>. DEFINE d == <<f, file[f]>>
  <2>2. d \in Files \X Makers /\ rows[d] \in Seq(Row) /\ rows \in [Files \X Makers -> Seq(Row)]
    BY <1>1, <1>2 DEF OutputsTypeOK, Exists
  <2>3. CASE rows'[d] = rows[d]
    <3>1. Len(rows[d]) \in Nat
      BY <2>2, LenProperties
    <3>. HIDE DEF d
    <3>2. IsPrefix(rows[d], rows'[d])
      BY <2>3, <3>1 DEF IsPrefix
    <3>. QED BY <3>2 DEF d
  <2>4. CASE Record(p) /\ rows'[d] = Append(rows[d], [by |-> p, what |-> request[p].kind])
    <3>. DEFINE e == [by |-> p, what |-> request[p].kind]
                s == rows[d]
    <3>1. e \in Row /\ s \in Seq(Row)
      BY <1>1, <2>2, <2>4, RowTyped DEF Record, Active
    <3>. HIDE DEF e, s
    <3>2. Append(s, e) \in Seq(Row) /\ Len(Append(s, e)) = Len(s) + 1 /\ Len(s) \in Nat
      BY <3>1, AppendProperties, LenProperties
    <3>3. \A i \in 1 .. Len(s) : Append(s, e)[i] = s[i]
      BY <3>1, AppendProperties
    <3>4. SubSeq(s, 1, Len(s)) = s
      BY <3>1, SubSeqFull
    <3>5. \A i \in 1 .. Len(s) : Append(s, e)[i] \in Row
      BY <3>1, <3>3, ElementOfSeq
    <3>6. /\ SubSeq(Append(s, e), 1, Len(s)) \in Seq(Row)
          /\ Len(SubSeq(Append(s, e), 1, Len(s))) = Len(s)
          /\ \A i \in 1 .. Len(s) : SubSeq(Append(s, e), 1, Len(s))[i] = Append(s, e)[i]
      BY <3>2, <3>5, SubSeqProperties
    <3>7. SubSeq(Append(s, e), 1, Len(s)) = s
      BY <3>1, <3>3, <3>6, SeqEqual
    <3>8. IsPrefix(s, Append(s, e))
      BY <3>2, <3>4, <3>7 DEF IsPrefix
    <3>9. rows'[d] = Append(s, e)
      BY <2>4 DEF s, e
    <3>10. IsPrefix(rows[d], rows'[d])
      BY <3>8, <3>9 DEF s
    <3>. QED BY <3>10
  <2>5. rows'[d] = rows[d] \/ (Record(p) /\ rows'[d] = Append(rows[d], [by |-> p, what |-> request[p].kind]))
    <3>1. p \notin published => d # <<Place(p), p>>
      BY <1>1 DEF Made
    <3>. HIDE DEF d
    <3>2. \/ rows' = rows
          \/ Record(p) /\ rows' = [rows EXCEPT ![Opened(p)] = Append(@, [by |-> p, what |-> request[p].kind])]
          \/ p \notin published /\ rows' = [rows EXCEPT ![<<Place(p), p>>] = rows[Opened(p)]]
      BY <2>1, RowsMove
    <3>3. CASE rows' = rows
      BY <3>3
    <3>4. CASE Record(p) /\ rows' = [rows EXCEPT ![Opened(p)] = Append(@, [by |-> p, what |-> request[p].kind])]
      BY <2>2, <3>4
    <3>5. CASE p \notin published /\ rows' = [rows EXCEPT ![<<Place(p), p>>] = rows[Opened(p)]]
      BY <2>2, <3>1, <3>5
    <3>. QED BY <3>2, <3>3, <3>4, <3>5
  <2>. QED BY <2>3, <2>4, <2>5
<1>3. ASSUME file'[f] # file[f]
      PROVE  \/ ~Exists(f) /\ file'[f] = Nobody
             \/ /\ f \notin Managed
                /\ \E p \in Processes :
                     /\ p \in published' \ published /\ Place(p) = f /\ Source(p) # f
                     /\ Exists(f) => request[p].force
  <2>1. file \in [Files -> Makers \cup {NoFile}]
    BY <1>1 DEF OutputsTypeOK
  <2>2. ASSUME NEW p \in Processes, p \in published' \ published, file' = [file EXCEPT ![Place(p)] = p]
        PROVE  /\ f \notin Managed
               /\ Place(p) = f /\ Source(p) # f /\ (Exists(f) => request[p].force)
    <3>1. Publish(p) /\ (request[p].force \/ ~Exists(Place(p)))
      BY <1>1, <2>2, PublishStep
    <3>2. f = Place(p)
      BY <1>3, <2>1, <2>2
    <3>3. Out(p) # NoPath /\ Acceptable(request[p], database[p])
      BY <1>1, <3>1 DEF Publish, Checked, Publishing
    <3>. QED BY <1>1, <3>1, <3>2, <3>3, AcceptableClear
  <2>3. ASSUME NEW p \in Processes, Publish(p), p \in published PROVE FALSE
    BY <1>1, <2>3 DEF Made, Publish
  <2>4. ASSUME NEW g, ~Exists(g), file' = [file EXCEPT ![g] = Nobody] PROVE ~Exists(f) /\ file'[f] = Nobody
    BY <1>3, <2>1, <2>4
  <2>. QED BY <1>1, <1>3, <2>2, <2>3, <2>4, FileMove
<1>. QED BY <1>2, <1>3

\* Nothing is lost to an output: what a file holds stays until an output replaces
\* it, and that needs --force and never comes to a place that belongs to a project
\* or to the database that it was made from, for any spelling of the paths.
THEOREM FilesAreKept == OutputsSpec => OutputsKeepFiles
<1>1. OutputsInv /\ [OutputsNext]_vars =>
        [\A f \in Files :
           /\ Exists(f) /\ file'[f] = file[f] => IsPrefix(rows[<<f, file[f]>>], rows'[<<f, file[f]>>])
           /\ file'[f] # file[f] =>
                \/ ~Exists(f) /\ file'[f] = Nobody
                \/ /\ f \notin Managed
                   /\ \E p \in Processes :
                        /\ p \in published' \ published /\ Place(p) = f /\ Source(p) # f
                        /\ Exists(f) => request[p].force]_vars
  BY KeptStep
<1>. QED BY <1>1, OutputsInvariant, PTL DEF OutputsSpec, OutputsKeepFiles

\* A backup never takes the place of a database that somebody has open, or beside
\* which a log lies.
THEOREM NothingIsTakenUnderfoot == OutputsSpec => NothingUnderfoot
<1>1. ASSUME OutputsInv, OutputsNext, NEW p \in Processes, p \in published' \ published, Is(p, "backup")
      PROVE  Place(p) \notin log /\ \A q \in Processes : Folded(DatabaseLock(Out(p))) \notin shares[q]
  <2>1. OutputsTypeOK /\ Locked
    BY <1>1 DEF OutputsInv
  <2>2. pc[p] = "publish"
    BY <1>1, <2>1, PublishStep DEF Publish
  <2>. QED BY <1>1, <2>1, <2>2 DEF Locked, PlaceLock
<1>2. OutputsInv /\ [OutputsNext]_vars =>
        [\A p \in Processes : p \in published' \ published /\ Is(p, "backup") =>
           /\ Place(p) \notin log
           /\ \A q \in Processes : Folded(DatabaseLock(Out(p))) \notin shares[q]]_vars
  BY <1>1
<1>. QED BY <1>2, OutputsInvariant, PTL DEF OutputsSpec, NothingUnderfoot

=============================================================================
