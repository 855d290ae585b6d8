--------------------------- MODULE GitLabResources ---------------------------
(***************************************************************************)
(* sources/gitlab/gitlab.go, in the vocabulary of SourceScript. Contents   *)
(* are those of GitHubResources, with notes for comments, which the code does  *)
(* not filter by date. A release's "archives" are its source archives and  *)
(* its links. Unlike GitHub's, the failure of a clone is returned.         *)
(***************************************************************************)
EXTENDS SourceScript

CONSTANT PerPage   (* gitlabPerPage                                         *)

Namespaces == {"project", "group", "user", "all-groups"}

DefaultScanResources(kind) ==
  CASE kind \in Namespaces -> {"repos"}
    [] kind = "issue"   -> {"issues", "issue-comments"}
    [] kind = "mr"      -> {"mrs", "mr-comments"}
    [] kind = "snippet" -> {"snippets"}
    [] kind = "release" -> {"releases", "release-assets"}
    [] kind \in {"pipeline", "job"} -> {"ci-jobs", "ci-artifacts"}

ResolveResources(t) ==
  LET chosen == (DefaultScanResources(t.kind) \cup t.include) \ t.exclude
  IN  chosen
      \cup {r \in {"release-assets"} \ t.exclude : "releases" \in chosen}
      \cup {r \in {"ci-artifacts"} \ t.exclude : "ci-jobs" \in chosen}

(* Which of them a path names is not known yet: none is scanned without a  *)
(* token.                                                                  *)
TokenAllows(t) ==
  t.token \/ (t.kind \notin Namespaces /\ ResolveResources(t) \subseteq {"repos", "forks"})

-----------------------------------------------------------------------------
(* paginateJSON: the listing ends with the first page that is not full.    *)
EndsPagination(page) == Len(page) # PerPage

UntilShort(pages) ==
  LET k == SelectInSeq(pages, EndsPagination)
  IN  IF k = 0 THEN pages ELSE SubSeq(pages, 1, k)

PaginateJSON(pages, Body(_)) == Paged(UntilShort(pages), Body)

(* inDateRange, and the callbacks that end the pagination at an old item.  *)
EndsListing(x) == x.date = "old"
InDateRange(x) == x.date = "ok"

PaginateDated(pages, Body(_)) ==
  Paged(CutAt(UntilShort(pages), EndsListing), LAMBDA x : When(InDateRange(x), Body(x)))

(* Notes that GitLab itself wrote are passed over.                         *)
ScanItemNotes(notes) == PaginateJSON(notes, LAMBDA note : When(~note.system, Emit(note.in)))

ScanItem(item, bodyRes, commentsRes, res) ==
  When(bodyRes \in res, Emit(item.in)) \o
  When(commentsRes \in res, ScanItemNotes(item.comments))

ScanIssues(proj, res) ==
  PaginateDated(proj.issues, LAMBDA x : ScanItem(x, "issues", "issue-comments", res))

ScanMRs(proj, res) ==
  PaginateDated(proj.mrs, LAMBDA x : ScanItem(x, "mrs", "mr-comments", res))

ScanIssuesAndMRs(proj, res) ==
  When({"issues", "issue-comments"} \cap res # {}, ScanIssues(proj, res)) \o
  When({"mrs", "mr-comments"} \cap res # {}, ScanMRs(proj, res))

ScanSnippets(proj) == PaginateJSON(proj.snippets, LAMBDA x : Logged(Download(x.in)))

ScanReleaseAssets(rel, res) ==
  When("release-assets" \in res, ForEach(rel.archives, LAMBDA x : Logged(Download(x))))

ScanReleases(proj, res) ==
  PaginateDated(proj.releases, LAMBDA rel : Emit(rel.in) \o ScanReleaseAssets(rel, res))

(* The trace of a job, then its artifacts; both failures are only logged.  *)
ScanCIJob(job, res) ==
  Logged(Download(job.in)) \o
  When("ci-artifacts" \in res, ForEach(job.artifacts, LAMBDA x : Logged(Download(x))))

ScanCIJobs(pages, res) == PaginateDated(pages, LAMBDA job : ScanCIJob(job, res))

ScanProjectGit(proj) == Fetch \o ForEach(proj.git, Emit)

ScanRepo(proj, res) ==
  When("repos" \in res, ScanProjectGit(proj)) \o
  When({"issues", "mrs", "issue-comments", "mr-comments"} \cap res # {}, ScanIssuesAndMRs(proj, res)) \o
  When("snippets" \in res, ScanSnippets(proj)) \o
  When("releases" \in res, ScanReleases(proj, res)) \o
  When("ci-jobs" \in res, ScanCIJobs(proj.jobs, res))

-----------------------------------------------------------------------------
(* enumerateProjects: one project, the projects of a group or a user, or   *)
(* those of every group; a project of two groups is sent once.             *)
Sends(proj, res) == ~proj.excluded /\ (proj.fork => "forks" \in res)

StreamGroupProjects(pages, res) ==
  PaginateJSON(pages, LAMBDA proj : When(Sends(proj, res), Send(proj.name)))

StreamAllGroups(groups, res) ==
  PaginateJSON(groups, LAMBDA group : StreamGroupProjects(group, res))

EnumerateProjects(t, res) ==
  SentOnce(
    CASE t.kind = "project" -> When(Sends(t.item, res), Send(t.item.name))
      [] t.kind \in {"group", "user"} -> StreamGroupProjects(t.repos, res)
      [] t.kind = "all-groups" -> StreamAllGroups(t.groups, res))

(* dispatchURL: the path is tried as a project, a group and a user.        *)
Direct(t) == t.kind \notin Namespaces

DispatchURL(t) ==
  CASE t.kind = "all-groups" -> <<>>
    [] t.kind = "group" -> Fetch \o Fetch
    [] t.kind = "user"  -> Fetch \o Fetch \o Fetch
    [] OTHER -> Fetch

(* scanDirect and the scans of one resource that it chooses from.          *)
ScanDirect(t, res) ==
  CASE t.kind = "issue"    -> Fetch \o ScanItem(t.item, "issues", "issue-comments", res)
    [] t.kind = "mr"       -> Fetch \o ScanItem(t.item, "mrs", "mr-comments", res)
    [] t.kind = "snippet"  -> Fetch \o Download(t.item.in)
    [] t.kind = "release"  -> Fetch \o When("releases" \in res, Emit(t.item.in)) \o
                              ScanReleaseAssets(t.item, res)
    [] t.kind = "pipeline" -> ScanCIJobs(t.jobs, res)
    [] t.kind = "job"      -> Fetch \o When(InDateRange(t.item), ScanCIJob(t.item, res))

(* Fragments: what its goroutines are to do.                               *)
Plan(t) ==
  LET res   == ResolveResources(t)
      projs == ToSet(t.contents)
  IN  [accepted  |-> TokenAllows(t),
       dispatch  |-> DispatchURL(t),
       main      |-> IF Direct(t) THEN ScanDirect(t, res) ELSE <<>>,
       enumerate |-> ~Direct(t),
       listing   |-> IF Direct(t) THEN <<>> ELSE EnumerateProjects(t, res),
       wrapped   |-> TRUE,
       scripts   |-> [name \in {proj.name : proj \in projs} |->
                        ScanRepo(CHOOSE proj \in projs : proj.name = name, res)],
       groups    |-> <<>>]
=============================================================================
