------------------------------- MODULE Intake -------------------------------
(***************************************************************************)
(* What a GitHub delivery turns into before it is a row: whether the       *)
(* webhook schedules it at all (app/routers/github_webhook.py), whether    *)
(* its Jenkinsfile can be read (app/services/jenkinsfile_parser.py) and    *)
(* the priority it gets (app/services/priority.py), next to the priority a *)
(* restart gives it (src/main.py).  Pure operators, no state.              *)
(*                                                                         *)
(* A branch name is abstracted to the tests the code makes on it, a set of *)
(* changed files to the kinds of markers found in their paths.             *)
(***************************************************************************)
EXTENDS Naturals

-----------------------------------------------------------------------------
(* Branches and files *)

BranchKind == {"hotfix", "main", "release", "develop", "feature", "other"}

(***************************************************************************)
(* The kind is what the name, or its beginning, is once lower-cased; lower *)
(* says that that part is written in lower case; security that the name    *)
(* contains the word.  "main", "master" and "develop" are whole names, so  *)
(* they do not.                                                            *)
(***************************************************************************)
Branch == {b \in [kind : BranchKind, lower : BOOLEAN, security : BOOLEAN] :
             b.security => b.kind \notin {"main", "develop"}}

FileKind == {"prod", "ci", "plain"}

-----------------------------------------------------------------------------
(* Priorities: 1 runs first *)

(***************************************************************************)
(* calculate_pipeline_priority: the first rule that applies.               *)
(***************************************************************************)
Calculate(b, files) ==
    IF b.kind = "hotfix" \/ b.security THEN 1
    ELSE IF b.kind = "main" \/ "prod" \in files THEN 2
    ELSE IF b.kind = "release" \/ "ci" \in files THEN 3
    ELSE IF b.kind = "develop" THEN 4
    ELSE IF b.kind = "feature" THEN 5
    ELSE 6

\* Mutant of Backfill: the two long-lived branch kinds are swapped.
Backfill_Swapped(b) ==
    IF ~b.lower THEN 6
    ELSE CASE b.kind = "hotfix"  -> 1
           [] b.kind = "main"    -> 2
           [] b.kind = "develop" -> 3
           [] b.kind = "release" -> 4
           [] b.kind = "feature" -> 5
           [] OTHER              -> 6

(***************************************************************************)
(* The UPDATE a start of the web process runs on every row: by the branch  *)
(* alone, and LIKE and = compare case-sensitively.                         *)
(***************************************************************************)
Backfill(b) ==
    IF ~b.lower THEN 6
    ELSE CASE b.kind = "hotfix"  -> 1
           [] b.kind = "main"    -> 2
           [] b.kind = "release" -> 3
           [] b.kind = "develop" -> 4
           [] b.kind = "feature" -> 5
           [] OTHER              -> 6

-----------------------------------------------------------------------------
(* GitHub deliveries *)

(***************************************************************************)
(* An X-GitHub-Event with the part of its payload that decides: the kind   *)
(* of ref of a push, the action of a pull request or a release.            *)
(***************************************************************************)
GithubEvent == {"push branch", "push tag", "push other ref",
                "pull_request opened", "pull_request closed",
                "release published", "release edited", "ping", "unknown"}

Payload == [signed : BOOLEAN,         \* the signature verifies, or no secret is set
            event  : GithubEvent,
            repo   : BOOLEAN,         \* a repository URL or full_name is there
            head   : Branch,          \* the branch pushed, of the request or released
            files  : SUBSET FileKind]

Schedules(p) ==
    /\ p.signed
    /\ p.event \in {"push branch", "push tag", "pull_request opened", "release published"}
    /\ p.repo

(***************************************************************************)
(* A tag becomes the branch "tag/<name>", which is none of the kinds that  *)
(* are recognised by their beginning; only the word counts.                *)
(***************************************************************************)
BranchFor(p) ==
    IF p.event = "push tag" THEN [p.head EXCEPT !.kind = "other"] ELSE p.head

(***************************************************************************)
(* Only a push carries commits, hence files.                               *)
(***************************************************************************)
FilesFor(p) == IF p.event \in {"push branch", "push tag"} THEN p.files ELSE {}

-----------------------------------------------------------------------------
(* The Jenkinsfile *)

Repository == [public : BOOLEAN,
               holds  : BOOLEAN,      \* there is a Jenkinsfile on that branch
               token  : {"none", "valid", "invalid"}]

(***************************************************************************)
(* External: the host's answer to a request with a given token.  A token   *)
(* it does not accept hides even a public file.                            *)
(***************************************************************************)
HostReply(repo, token) ==
    IF repo.holds /\ (token = "valid" \/ (token = "none" /\ repo.public))
    THEN 200 ELSE 404

(***************************************************************************)
(* fetch_jenkinsfile, when the host can be reached: a 404 with a token is  *)
(* retried without it.                                                     *)
(***************************************************************************)
FetchJenkinsfile(repo) ==
    \/ HostReply(repo, repo.token) = 200
    \/ /\ HostReply(repo, repo.token) = 404
       /\ repo.token # "none"
       /\ HostReply(repo, "none") = 200
=============================================================================
