----------------------------- MODULE MCOutputs -----------------------------
(***************************************************************************)
(* TLC's instance of Outputs: a project whose database is "a", and two     *)
(* databases "b" and "c" outside it.                                       *)
(***************************************************************************)
EXTENDS Outputs, TLC

MCDirectories == {<<"project">>, <<"project", ".coordination">>, <<"project", "docs">>, <<"outside">>}
MCRoots == {<<"project", ".coordination">>}
MCCwd == <<"project", "docs">>
MCSpelling == ("A" :> "a") @@ ("README.md" :> "readme.md") @@ ("Backups" :> "backups")
                @@ ("Project" :> "project")

A == [in |-> <<"project", ".coordination">>, name |-> <<"a">>]
B == [in |-> <<"outside">>, name |-> <<"b">>]
C == [in |-> <<"outside">>, name |-> <<"c">>]
N == [in |-> <<"project", ".coordination">>, name |-> <<"n">>]

MCOnDisk == {A, B, C}

MCSettings ==
  {[version |-> 1, backend |-> "sqlite", database |-> <<"a">>],
   [version |-> 1, backend |-> "sqlite", database |-> <<"Backups", "a">>],
   [version |-> 1, backend |-> "markdown", database |-> <<>>]}

Ask(kind, db, out, force, actor, agent) ==
  [kind |-> kind, db |-> db, out |-> out, force |-> force, actor |-> actor, agent |-> agent]

\* Paths that alias something managed in one way or another.
Aliases ==
  {[A EXCEPT !.name = <<"A">>], [A EXCEPT !.in = <<"Project", ".coordination">>], With(A, "-wal"), [A EXCEPT !.name = <<"config.yml">>]}

MCRequests ==
  {Ask("backup", NoPath, N, FALSE, TRUE, TRUE), Ask("backup", NoPath, N, TRUE, FALSE, FALSE),
   Ask("backup", B, C, TRUE, TRUE, FALSE), Ask("backup", C, B, TRUE, FALSE, FALSE),
   Ask("backup", NoPath, C, TRUE, TRUE, TRUE),
   Ask("export", NoPath, N, FALSE, TRUE, FALSE), Ask("export", B, N, TRUE, TRUE, FALSE),
   Ask("export", B, NoPath, FALSE, TRUE, FALSE),
   Ask("export", B, C, TRUE, FALSE, FALSE),
   Ask("backup", N, B, TRUE, TRUE, FALSE),
   Ask("write", N, NoPath, FALSE, TRUE, FALSE), Ask("write", C, NoPath, FALSE, TRUE, FALSE)}
    \cup {Ask(k, B, out, TRUE, FALSE, FALSE) : k \in {"backup", "export"}, out \in Aliases}
=============================================================================
