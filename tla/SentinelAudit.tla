--------------------------- MODULE SentinelAudit ---------------------------
(***************************************************************************)
(* cmd/sentinel: the governance audit of a branch against                  *)
(* origin/development, run by CI or by hand.                               *)
(*                                                                         *)
(* A commit is [token, subject, parents, files]: how its message mentions  *)
(* [trivial] ("line", "prose" or "none"), whether its subject is the one   *)
(* GitHub gives the merge commit of a pull request ("synthetic"), the      *)
(* number of its parents, and the directories of the files it changes.     *)
(***************************************************************************)
EXTENDS Integers, Sequences

criticalPaths == {"api/internal/", "api/cmd/", "web/src/"}
allowList == {"api/db/migrations/"}
records == {"openspec/proposals/", "openspec/changes/"}
archive == "openspec/changes/archive/"
Paths == criticalPaths \cup allowList \cup records \cup {archive, "docs/"}

GovernanceRecords(files) == files \cap records
CriticalChanges(files) == (files \cap criticalPaths) \ allowList

Tip(branch) == branch[Len(branch)]

\* What is checked out: for a pull_request, the merge of base and branch.
CheckedOut(branch, trigger) ==
  IF trigger = "pull_request"
  THEN [token |-> "none", subject |-> "synthetic", parents |-> 2, files |-> {}]
  ELSE Tip(branch)

\* The three-dot diff, from where the branch left development. After a push to
\* development it is empty: HEAD is origin/development.
DiffFiles(branch, trigger) ==
  IF trigger = "push" THEN {} ELSE UNION {branch[i].files : i \in DOMAIN branch}

\* Faulty variant: HEAD, whatever it is.
AuditCommitHead(branch, trigger) == CheckedOut(branch, trigger)

\* resolveAuditCommit: of a commit made by GitHub, its second parent.
AuditCommit(branch, trigger) ==
  LET head == CheckedOut(branch, trigger)
  IN IF head.parents = 2 /\ head.subject = "synthetic" THEN Tip(branch) ELSE head

\* checkTrivial: a line with nothing else counts, a mention in prose does not.
Trivial(branch, trigger) == AuditCommit(branch, trigger).token = "line"

\* run: whether the audit passes.
Passes(branch, trigger) ==
  \/ Trivial(branch, trigger)
  \/ CriticalChanges(DiffFiles(branch, trigger)) = {}
  \/ GovernanceRecords(DiffFiles(branch, trigger)) # {}

(***************************************************************************)
(* Properties.                                                             *)
(***************************************************************************)

\* A bypass is asked for by the last commit itself: what an earlier commit said, or
\* what a message says about the token, excuses nothing; and a pull request is
\* judged as its branch would be by hand.
JudgedByItsTip(branch) ==
  /\ Passes(branch, "pull_request") = Passes(branch, "local")
  /\ Passes(branch, "local") /\ Tip(branch).token # "line" =>
       \A i \in DOMAIN branch : branch[i].files \cap criticalPaths # {} =>
         \E j \in DOMAIN branch : branch[j].files \cap records # {}
=============================================================================
