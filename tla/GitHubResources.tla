--------------------------- MODULE GitHubResources ---------------------------
(***************************************************************************)
(* sources/github/github.go: what the scan of each resource requests and   *)
(* yields. Items carry their position in the date range: "ok", "new"       *)
(* (not before Until) or "old" (before Since, which ends a listing that is *)
(* in descending order). Empty bodies and whatever the prefilter drops are *)
(* not part of the contents.                                               *)
(***************************************************************************)
EXTENDS SourceScript

(* resolveResources: the defaults of the kind of URL, then include, then   *)
(* exclude; releases bring their assets unless those are excluded.         *)
DefaultScanResources(kind) ==
  CASE kind \in {"owner", "user", "org", "repo"} -> {"repos"}
    [] kind = "issue"       -> {"issues", "issue-comments"}
    [] kind = "pr"          -> {"prs", "pr-comments"}
    [] kind = "discussion"  -> {"discussions"}
    [] kind = "release"     -> {"releases", "release-assets"}
    [] kind = "actions_run" -> {"actions", "action-artifacts"}
    [] kind = "gist"        -> {"gists"}

ResolveResources(t) ==
  LET chosen == (DefaultScanResources(t.kind) \cup t.include) \ t.exclude
  IN  chosen \cup {r \in {"release-assets"} \ t.exclude : "releases" \in chosen}

TokenAllows(t) ==
  t.token \/ (t.kind = "repo" /\ ResolveResources(t) \subseteq {"repos", "forks"})

-----------------------------------------------------------------------------
(* Mutant: items that are too new end the listing as well.                 *)
EndsAtNew(x) == x.date # "ok"
(* inDateRange, as a listing in descending order uses it.                  *)
EndsListing(x) == x.date = "old"
InDateRange(x) == x.date = "ok"

(* What a listing in descending order gets to see.                         *)
UntilOld(pages) == CutAt(pages, EndsListing)

Dated(x, script) == When(InDateRange(x), script)

(* emitCommentNodes, and one reply of emitDiscussionReply.                 *)
EmitCommentNode(c) == Dated(c, Emit(c.in))
EmitDiscussionReply(r) == Dated(r, Emit(r.in))

EmitItemAndComments(item, bodyRes, commentsRes, res) ==
  When(bodyRes \in res, Emit(item.in)) \o
  When(commentsRes \in res, FirstInHand(item.comments, EmitCommentNode))

EmitIssueAndComments(issue, res) ==
  EmitItemAndComments(issue, "issues", "issue-comments", res)

(* Mutant: the comments of a thread end with its first page.               *)
EmitPRFirstPages(pr, res) ==
  EmitItemAndComments(pr, "prs", "pr-comments", res) \o
  When("pr-comments" \in res,
       FirstInHand(pr.threads, LAMBDA thread : ForEach(thread[1], EmitCommentNode)))

EmitPRAndComments(pr, res) ==
  EmitItemAndComments(pr, "prs", "pr-comments", res) \o
  When("pr-comments" \in res,
       FirstInHand(pr.threads, LAMBDA thread : FirstInHand(thread, EmitCommentNode)))

(* Issues and pull requests share one query with two cursors: each round   *)
(* asks for the next page of whichever side is not done.                   *)
Page(pages, k) == IF k \in DOMAIN pages THEN pages[k] ELSE <<>>

(* Mutant: the rounds end with the issues.                                 *)
ScanIssuesFirst(repo, res) ==
  LET issues == UntilOld(repo.issues)
      prs    == UntilOld(repo.prs)
  IN  Concat([k \in DOMAIN issues |->
        Fetch
        \o ForEach(issues[k], LAMBDA x : Dated(x, EmitIssueAndComments(x, res)))
        \o ForEach(Page(prs, k), LAMBDA x : Dated(x, EmitPRAndComments(x, res)))])

ScanIssuesAndPRs(repo, res) ==
  LET issues == IF {"issues", "issue-comments"} \cap res = {} THEN <<>> ELSE UntilOld(repo.issues)
      prs    == IF {"prs", "pr-comments"} \cap res = {} THEN <<>> ELSE UntilOld(repo.prs)
      rounds == IF Len(issues) > Len(prs) THEN Len(issues) ELSE Len(prs)
  IN  Concat([k \in 1..rounds |->
        Fetch
        \o ForEach(Page(issues, k), LAMBDA x : Dated(x, EmitIssueAndComments(x, res)))
        \o ForEach(Page(prs, k), LAMBDA x : Dated(x, EmitPRAndComments(x, res)))])

EmitDiscussionComment(c) ==
  EmitDiscussionReply(c) \o FirstInHand(c.replies, EmitDiscussionReply)

EmitDiscussion(d) == Emit(d.in) \o FirstInHand(d.comments, EmitDiscussionComment)

ScanDiscussions(repo) ==
  Paged(UntilOld(repo.discussions), LAMBDA d : Dated(d, EmitDiscussion(d)))

(* The failure of an asset is logged where it happens, that of the listing *)
(* in emitRelease: none of them is returned.                               *)
ScanReleaseAssets(rel) ==
  Paged(rel.assets, LAMBDA asset : Logged(Download(asset)))

ScanReleaseSourceArchives(rel) ==
  ForEach(rel.archives, LAMBDA archive : Logged(Download(archive)))

EmitRelease(rel, res) ==
  Emit(rel.in) \o
  When("release-assets" \in res,
       Logged(ScanReleaseAssets(rel)) \o Logged(ScanReleaseSourceArchives(rel)))

ScanReleases(repo, res) ==
  Paged(UntilOld(repo.releases), LAMBDA rel : Dated(rel, EmitRelease(rel, res)))

(* A gist is fetched, then its files are yielded; its failure is logged.   *)
EmitGist(gist) == Fetch \o ForEach(gist.files, Emit)

ScanUserGists(gists) ==
  Paged(UntilOld(gists), LAMBDA gist : Dated(gist, Logged(EmitGist(gist))))

(* The URL of the logs, then the logs. Expired artifacts are passed over.  *)
ScanRunLogs(run) == Fetch \o Download(run.in)

ScanRunArtifacts(run) ==
  Paged(run.artifacts, LAMBDA a : When(~a.expired, Logged(Fetch \o Download(a.in))))

(* What a worker of scanActions does with a run; scanSingleActionRun does  *)
(* the same, but returns a 404 of the artifacts.                           *)
ScanRun(run, res) ==
  GoneIgnored(ScanRunLogs(run)) \o
  When("action-artifacts" \in res, GoneIgnored(ScanRunArtifacts(run)))

ScanSingleActionRun(run, res) ==
  Fetch \o GoneIgnored(ScanRunLogs(run)) \o
  When("action-artifacts" \in res, ScanRunArtifacts(run))

StreamWorkflowRuns(repo) == Paged(repo.runs, LAMBDA run : Send(run.in))

(* The clone, then what sources.Git yields (GitSource has the details).    *)
ScanRepoGit(repo) == Fetch \o ForEach(repo.git, Emit)

ScanRepo(repo, res) ==
  When("repos" \in res, Logged(ScanRepoGit(repo))) \o
  When("actions" \in res, <<Step("group", repo.name)>>) \o
  When({"issues", "prs", "issue-comments", "pr-comments"} \cap res # {}, ScanIssuesAndPRs(repo, res)) \o
  When("discussions" \in res, ScanDiscussions(repo)) \o
  When("releases" \in res, ScanReleases(repo, res))

-----------------------------------------------------------------------------
(* enumerateRepos: the listing of the target, without the repositories     *)
(* that were sent before, are unwanted forks or are excluded.              *)
Sends(repo, res) == ~repo.excluded /\ (repo.fork => "forks" \in res)

(* Mutant, without the last step: the repositories seen are forgotten.     *)
StreamReposAgain(pages, res) ==
  Paged(pages, LAMBDA repo : When(Sends(repo, res), Send(repo.name)))

StreamRepos(pages, res) == SentOnce(StreamReposAgain(pages, res))

(* dispatchURL: an owner is resolved to a user or an organization.         *)
DispatchURL(t) == When(t.kind \in {"user", "org"}, Fetch)

Direct(t) == t.kind \notin {"user", "org", "repo"}

(* scanURL, for the one resource that the URL names.                       *)
ScanURL(t, res) ==
  When(t.kind # "gist", Fetch) \o
  CASE t.kind = "issue"       -> Fetch \o EmitIssueAndComments(t.item, res)
    [] t.kind = "pr"          -> Fetch \o EmitPRAndComments(t.item, res)
    [] t.kind = "discussion"  -> Fetch \o EmitDiscussion(t.item)
    [] t.kind = "release"     -> Fetch \o EmitRelease(t.item, res)
    [] t.kind = "actions_run" -> ScanSingleActionRun(t.item, res)
    [] t.kind = "gist"        -> EmitGist(t.item)

(* Fragments: what its goroutines are to do.                               *)
Named(repos, name) == CHOOSE repo \in repos : repo.name = name

Plan(t) ==
  LET res   == ResolveResources(t)
      gists == t.kind = "user" /\ "gists" \in res
      repos == ToSet(t.contents)
      runs  == UNION {Items(repo.runs) : repo \in repos}
      names == {repo.name : repo \in repos}
  IN  [accepted  |-> TokenAllows(t),
       dispatch  |-> DispatchURL(t),
       main      |-> IF Direct(t) THEN ScanURL(t, res) ELSE When(gists, ScanUserGists(t.gists)),
       enumerate |-> ~Direct(t) /\ (gists => "repos" \in res),
       listing   |-> IF Direct(t) THEN <<>> ELSE StreamRepos(t.repos, res),
       wrapped   |-> TRUE,
       scripts   |-> [name \in names |-> ScanRepo(Named(repos, name), res)] @@
                     [in \in {run.in : run \in runs} |->
                        ScanRun(CHOOSE run \in runs : run.in = in, res)],
       groups    |-> [name \in names |-> StreamWorkflowRuns(Named(repos, name))]]
=============================================================================
