---------------------------- MODULE DurableStore -----------------------------
(***************************************************************************)
(* What the database file promises, without files, logs, locks or steps.   *)
(* There is one content, there are copies of what it was at one moment,    *)
(* and it is replaced as a whole or not at all, unless the replacement is  *)
(* cut short; then too, what may be gone is in one copy.  Nobody is told   *)
(* of a commit that is in neither.                                         *)
(***************************************************************************)
CONSTANT Commits

VARIABLES
  content,  \* the commits in the database
  copies,   \* its backups, each a set of commits
  told,     \* the commits somebody was told of
  answer    \* how the last replacement ended, as its caller was told

storeVars == <<content, copies, told, answer>>

StoreInit ==
  /\ content \subseteq Commits /\ told = content
  /\ copies \subseteq SUBSET Commits
  /\ answer = "nothing"

Accept(m) ==
  /\ m \notin told
  /\ content' = content \cup {m}
  /\ told' = told \cup {m}
  /\ UNCHANGED <<copies, answer>>

Copy ==
  /\ copies' = copies \cup {content}
  /\ UNCHANGED <<content, told, answer>>

\* Nothing is taken that is not in one copy as a whole.
Covered == content = {} \/ content \in copies

\* A copy, or the content itself, with the replacement's own commit.
Successors(m) == {rows \cup {m} : rows \in copies \cup {content}}

Replace(m) ==
  /\ Covered
  /\ m \notin told
  /\ content' \in Successors(m)
  /\ told' = told \cup {m}
  /\ answer' = "done"
  /\ UNCHANGED copies

\* The caller is told that the content is as it was.
Decline ==
  /\ answer' \in {"unchanged", "rolled back"}
  /\ UNCHANGED <<content, copies, told>>

\* Cut short, or not undone: the old content, part of it, or the new one.
CutShort ==
  /\ answer' \in {"interrupted", "rollback failed", "killed"}
  /\ \/ UNCHANGED content
     \/ /\ Covered
        /\ \/ content' \subseteq content
           \/ \E m \in Commits \ told : content' \in Successors(m)
  /\ UNCHANGED <<copies, told>>

StoreNext ==
  \/ \E m \in Commits : Accept(m) \/ Replace(m)
  \/ Copy \/ Decline \/ CutShort

StoreSpec == StoreInit /\ [][StoreNext]_storeVars

\* What it comes to: a commit somebody was told of is in the content or in a
\* copy.
ToldIsThere == \A m \in told : m \in content \/ \E rows \in copies : m \in rows
=============================================================================
