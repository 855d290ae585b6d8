----------------------------- MODULE MCSources -----------------------------
(***************************************************************************)
(* Small targets for the sources: hosts, trees, images, repositories and   *)
(* buckets in which the interesting cases occur, and what the resources    *)
(* modules make of them. The wanted inputs are listed by hand.             *)
(***************************************************************************)
EXTENDS Sources, Integers, Sequences, TLC

Leaf(i)        == [in |-> i, date |-> "ok"]
Old(i)         == [in |-> i, date |-> "old"]
New(i)         == [in |-> i, date |-> "new"]
Note(i)        == [in |-> i, system |-> FALSE]
Bare == [name |-> "bare", fork |-> FALSE, excluded |-> FALSE, git |-> <<>>, runs |-> <<>>,
         issues |-> <<>>, prs |-> <<>>, mrs |-> <<>>, discussions |-> <<>>,
         releases |-> <<>>, snippets |-> <<>>, jobs |-> <<>>]
Item(x, comments)      == x @@ [comments |-> comments]
PR(x, comments, threads) == x @@ [comments |-> comments, threads |-> threads]
Release(x, assets, archives) == x @@ [assets |-> assets, archives |-> archives]

Options == [include |-> {}, exclude |-> {}, token |-> TRUE, wantedRepos |-> {}, contents |-> <<>>]

(* GitHub: issues run out before pull requests; comments, threads and the  *)
(* comments of a thread all have a second page.                            *)
Talk == [Bare EXCEPT !.name = "talk", !.git = <<"g1">>,
  !.issues = <<<<Item(New("i0"), <<>>), Item(Leaf("i1"), <<<<Leaf("c1")>>, <<Old("c2"), Leaf("c3")>>>>)>>>>,
  !.prs = <<<<PR(Leaf("p1"), <<<<>>>>, <<<<<<<<Leaf("t1")>>, <<Leaf("t2")>>>>>>, <<<<<<Leaf("t3")>>>>>>>>)>>,
            <<PR(Leaf("p2"), <<<<>>>>, <<>>), PR(Old("p3"), <<>>, <<>>)>>,
            <<PR(Leaf("never"), <<>>, <<>>)>>>>]

TalkTarget ==
  [host |-> "GitHub", kind |-> "repo", repos |-> <<<<Talk>>>>,
   include |-> {"issues", "issue-comments", "prs", "pr-comments"},
   wanted |-> {"g1", "i1", "c1", "c3", "p1", "t1", "t2", "t3", "p2"}, wantedRepos |-> {"talk"}, contents |-> <<Talk>>] @@ Options

(* Releases in which a refusal of an asset can be followed by a body.      *)
Shipped == [Bare EXCEPT !.name = "shipped",
  !.discussions = <<<<[in |-> "d1", date |-> "ok",
                       comments |-> <<<<[in |-> "dc1", date |-> "ok", replies |-> <<<<Leaf("dr1")>>, <<Leaf("dr2")>>>>]>>,
                                      <<[in |-> "dc2", date |-> "old", replies |-> <<<<Leaf("dr3")>>>>]>>>>]>>>>,
  !.releases = <<<<Release(Leaf("v2"), <<<<"a1">>, <<"a2">>>>, <<"z2">>), Release(Leaf("v1"), <<>>, <<"z1">>)>>,
                 <<Release(Old("v0"), <<>>, <<"z0">>)>>>>]

ShippedTarget ==
  [host |-> "GitHub", kind |-> "repo", repos |-> <<<<Shipped>>>>, exclude |-> {"repos"},
   include |-> {"releases", "discussions"},
   wanted |-> {"d1", "dc1", "dr1", "dr2", "dr3", "v2", "a1", "a2", "z2", "v1", "z1"}, wantedRepos |-> {"shipped"}, contents |-> <<Shipped>>] @@ Options

(* The workflow runs of a repository, more than one worker takes.          *)
Run(i, artifacts) == [in |-> i, artifacts |-> artifacts]
Built == [Bare EXCEPT !.name = "built",
  !.runs = <<<<Run("l1", <<<<[in |-> "x1", expired |-> FALSE]>>>>)>>,
             <<Run("l2", <<<<[in |-> "x2", expired |-> TRUE]>>>>)>>>>]


BuiltTarget ==
  [host |-> "GitHub", kind |-> "repo", repos |-> <<<<Built>>>>, exclude |-> {"repos"},
   include |-> {"actions", "action-artifacts"}, wanted |-> {"l1", "x1", "l2"}, wantedRepos |-> {"built"}, contents |-> <<Built>>] @@ Options

(* A user: gists, and a listing with a fork and a repository twice.        *)
A == [Bare EXCEPT !.name = "a", !.git = <<"ga">>]
B == [Bare EXCEPT !.name = "b", !.fork = TRUE, !.git = <<"gb">>]
C == [Bare EXCEPT !.name = "c", !.git = <<"gc">>]
D == [Bare EXCEPT !.name = "d", !.excluded = TRUE, !.git = <<"gd">>]

UserTarget ==
  [host |-> "GitHub", kind |-> "user", repos |-> <<<<A, B>>, <<A, C>>, <<D>>>>,
   gists |-> <<<<[date |-> "ok", files |-> <<"q1", "q2">>], [date |-> "new", files |-> <<"q3">>]>>>>,
   include |-> {"gists"}, wanted |-> {"q1", "q2", "ga", "gc"}, wantedRepos |-> {"a", "c"}, contents |-> <<A, B, C, D>>] @@ Options

OneRun ==
  [host |-> "GitHub", kind |-> "actions_run", item |-> Built.runs[1][1], wanted |-> {"l1", "x1"}] @@ Options

NoToken ==
  [host |-> "GitHub", kind |-> "org", token |-> FALSE, repos |-> <<<<A>>>>, wanted |-> {}, contents |-> <<A>>] @@ Options

(* GitLab: full pages have two items.                                      *)
Lab == [Bare EXCEPT !.name = "lab", !.git = <<"h1">>,
  !.issues = <<<<Item(New("j0"), <<>>), Item(Leaf("j1"), <<<<Note("n1"), [in |-> "sys", system |-> TRUE]>>, <<Note("n2")>>>>)>>,
               <<Item(Old("j2"), <<>>), Item(Leaf("never"), <<>>)>>>>,
  !.snippets = <<<<[in |-> "s1"], [in |-> "s2"]>>, <<[in |-> "s3"]>>>>,
  !.releases = <<<<Leaf("w2") @@ [archives |-> <<"y2">>], Leaf("w1") @@ [archives |-> <<"y1">>]>>>>,
  !.jobs = <<<<Leaf("k1") @@ [artifacts |-> <<"m1">>]>>>>]
LabToo == [Bare EXCEPT !.name = "labtoo", !.git = <<"h2">>]

GroupsTarget ==
  [host |-> "GitLab", kind |-> "all-groups", groups |-> <<<<<<<<Lab>>>>, <<<<LabToo, Lab>>>>>>>>,
   include |-> {"issues", "issue-comments", "snippets", "releases", "ci-jobs"},
   wanted |-> {"h1", "j1", "n1", "n2", "s1", "s2", "s3", "w2", "y2", "w1", "y1", "k1", "m1", "h2"},
   wantedRepos |-> {"lab", "labtoo"}, contents |-> <<Lab, LabToo>>] @@ Options

LabRelease ==
  [host |-> "GitLab", kind |-> "release", item |-> Lab.releases[1][1], wanted |-> {"w2", "y2"}] @@ Options

(* Hugging Face: three listings, a repository in two of them.              *)
Talks == [name |-> "talks", excluded |-> FALSE, git |-> <<"fg">>,
  discussions |-> <<<<[isPullRequest |-> TRUE, events |-> <<"e1">>],
                      [isPullRequest |-> FALSE, events |-> <<"e2", "e3">>]>>>>]
Model(name, commits) == [name |-> name, excluded |-> FALSE, git |-> commits, discussions |-> <<>>]

OwnerTarget ==
  [host |-> "HuggingFace", listings |-> <<<<<<Talks>>>>, <<<<Model("sets", <<"fs">>), Talks>>>>, <<>>>>,
   include |-> {"discussions"}, exclude |-> {}, contents |-> <<Talks, Model("sets", <<"fs">>)>>,
   wanted |-> {"fg", "e2", "e3", "fs"}, wantedRepos |-> {"talks", "sets"}]

(* A tree with a directory, links, a file that is too large, and an        *)
(* archive with a compressed archive in it.                                *)
Plain(pieces) == [kind |-> "plain", skip |-> FALSE, pieces |-> pieces]
Archived(entries) == [kind |-> "archive", skip |-> FALSE, entries |-> entries]
Compressed(file) == [kind |-> "compressed", skip |-> FALSE, decoded |-> file]
Entry(name) == [kind |-> "file", name |-> name, link |-> FALSE, skip |-> FALSE, size |-> "ok", children |-> <<>>]

Files ==
  [a |-> Plain(<<"pa", "pb">>), l |-> Plain(<<"pl">>),
   z |-> Archived(<<Plain(<<"za">>), [Plain(<<"zs">>) EXCEPT !.skip = TRUE], Compressed(Archived(<<Plain(<<"zc">>)>>))>>)]

TreeTarget ==
  [host |-> "files", followSymlinks |-> TRUE, maxFileSize |-> TRUE, maxArchiveDepth |-> 3, files |-> Files,
   tree |-> <<Entry("a"), [Entry("big") EXCEPT !.size = "large"],
              [Entry("d") EXCEPT !.kind = "dir",
                !.children = <<Entry("z"), [Entry("l") EXCEPT !.link = TRUE],
                               [Entry("s") EXCEPT !.skip = TRUE]>>]>>,
   wanted |-> {"pa", "pb", "pl", "za", "zc"}]

(* The same, but archives are too deep and links are not followed.         *)
FlatTarget ==
  [TreeTarget EXCEPT !.maxArchiveDepth = 1, !.followSymlinks = FALSE, !.maxFileSize = FALSE,
                     !.tree = <<Entry("z"), [Entry("l") EXCEPT !.link = TRUE]>>, !.wanted = {"za"}]

(* An index of two platforms and an attestation; layers of every kind.     *)
Member(header, file) ==
  [header |-> header, regular |-> TRUE, skip |-> FALSE, large |-> FALSE, file |-> file]
Tar(entries) == [kind |-> "tar", encrypted |-> FALSE, entries |-> entries]
Blob(file) == [kind |-> "artifact", encrypted |-> FALSE, large |-> FALSE, file |-> file]
ImageOf(platform, layers) ==
  [kind |-> "image", platform |-> platform, manifest |-> <<>>, config |-> <<>>,
   history |-> <<>>, layers |-> layers, miscounted |-> FALSE]

Amd == [ImageOf("amd", <<Tar(<<Member(<<"h1">>, Plain(<<"f1">>)),
                               [Member(<<>>, Plain(<<"never">>)) EXCEPT !.regular = FALSE]>>),
                         Tar(<<[Member(<<"h2">>, Plain(<<"f2">>)) EXCEPT !.large = TRUE],
                               Member(<<>>, Archived(<<Plain(<<"f3">>)>>))>>)>>)
        EXCEPT !.manifest = <<"mf", "mfd">>, !.config = <<"cf">>, !.history = <<"hi">>]
Attest == ImageOf("unknown", <<Blob(Plain(<<"at">>)), [Tar(<<>>) EXCEPT !.encrypted = TRUE]>>)

Containers ==
  [host |-> "container", maxArchiveDepth |-> 1, maxIndexDepth |-> 1, platforms |-> {"amd"}, images |-> <<>>]

IndexTarget ==
  [Containers EXCEPT !.images =
     <<[from |-> "registry", format |-> "layout",
        node |-> [kind |-> "index", index |-> <<"ix">>, children |->
          <<[platform |-> "amd", node |-> Amd], [platform |-> "arm", node |-> ImageOf("arm", <<>>)],
            [platform |-> "unknown", node |-> Attest]>>]]>>]
  @@ [wanted |-> {"ix", "mf", "mfd", "cf", "hi", "h1", "f1", "h2", "f2", "f3", "at"}]

(* What docker save writes, of an archive that goes too deep; a layout of  *)
(* another platform; an empty archive.                                     *)
SavedTarget ==
  [Containers EXCEPT !.images =
     <<[from |-> "daemon", format |-> "docker", manifest |-> <<"dm">>, images |->
          <<[ImageOf("amd", <<Tar(<<Member(<<>>, Archived(<<Archived(<<Plain(<<"deep">>)>>)>>))>>)>>)
             EXCEPT !.miscounted = TRUE], ImageOf("arm", <<>>)>>],
       [from |-> "archive", format |-> "docker", manifest |-> <<>>, images |-> <<>>],
       [from |-> "layout", format |-> "layout",
        node |-> [kind |-> "index", index |-> <<"ox">>, children |->
          <<[platform |-> "unknown", node |->
              [kind |-> "index", index |-> <<>>, children |->
                <<[platform |-> "unknown", node |-> ImageOf("amd", <<>>)]>>]]>>]]>>]
  @@ [wanted |-> {"dm", "deep", "ox"}]

NothingTarget == Containers @@ [wanted |-> {}]

Hosted == [talk |-> TalkTarget, shipped |-> ShippedTarget, built |-> BuiltTarget, user |-> UserTarget,
          oneRun |-> OneRun, noToken |-> NoToken, groups |-> GroupsTarget, labRelease |-> LabRelease,
          owner |-> OwnerTarget, tree |-> TreeTarget, flat |-> FlatTarget,
          index |-> IndexTarget, saved |-> SavedTarget, nothing |-> NothingTarget]

Releases == [shipped |-> ShippedTarget]
NoHosts  == [nothing |-> NothingTarget]

-----------------------------------------------------------------------------
(* Git: more commits than workers, one of them without hunks and one with  *)
(* an archive; more warnings on the standard error than its pipe holds; an *)
(* annotated tag of a tag, and a tag with two names.                       *)
Hunk(i) == [in |-> i, kind |-> "record"]
ZipFile(i) == [in |-> i, kind |-> "archive"]
Warning == [in |-> "none", kind |-> "warning"]
Tag(i, n) == [in |-> i, nested |-> n]

History(last) ==
  <<[hunks |-> <<Warning, Warning, Hunk("h1")>>, message |-> "m1"],
    [hunks |-> <<>>, message |-> "m2"],
    [hunks |-> <<last>>, message |-> "m3"]>>

Chunked == [commits |-> History(Hunk("h3")), include |-> {"messages", "reflogs", "tags"}, full |-> FALSE,
  reflogs |-> <<"r1">>, refs |-> <<Tag("t1", "t2"), Tag("t3", "none"), Tag("t1", "t2")>>,
  tags |-> <<Tag("t1", "t2"), Tag("t2", "none"), Tag("t3", "none")>>,
  wanted |-> {"h1", "m1", "m2", "h3", "m3", "r1", "t1", "t2", "t3"}]

Walked == [Chunked EXCEPT !.full = TRUE, !.include = {}, !.commits = History(ZipFile("z3")),
                          !.wanted = {"h1", "z3"}]

TwoRepositories == [chunked |-> Chunked, walked |-> Walked]

-----------------------------------------------------------------------------
(* S3: one bucket with two pages; two buckets behind a glob, the first     *)
(* with two pages.                                                         *)
OneBucket(failing) ==
  [enumerate |-> FALSE, buckets |-> << << <<"o1", "o2", "o3">>, <<"o4">> >> >>, faults |-> failing]

TwoBuckets(failing) ==
  [enumerate |-> TRUE, buckets |-> << << <<"o1", "o2">>, <<"o3">> >>, << <<"o4">> >> >>,
   faults |-> failing]

AnyFault     == {OneBucket({"list", "object"}), TwoBuckets({"list", "buckets", "object"})}
ABucketFails == {TwoBuckets({"list", "object"})}

(* Hugging Face: two buckets, the first with two pages.                    *)
OwnedBuckets == << << <<"o1", "o2">>, <<"o3">> >>, << <<"o4">> >> >>

-----------------------------------------------------------------------------
(* What the goroutines of a scan are to do, for each kind of source; a     *)
(* full page of GitLab has two entries.                                    *)
GitHub      == INSTANCE GitHubResources
GitLab      == INSTANCE GitLabResources WITH PerPage <- 2
FileTree    == INSTANCE FileResources
Container   == INSTANCE ContainerResources

PlanOfHost(t) ==
  CASE t.host = "GitHub"      -> GitHub!Plan(t)
    [] t.host = "GitLab"      -> GitLab!Plan(t)
    [] t.host = "HuggingFace" -> HF!Plan(t)
    [] t.host = "files"       -> FileTree!Plan(t)
    [] t.host = "container"   -> Container!Plan(t)

SmallObjects == {"o1", "o2", "o3", "o4"}

(* All that may be read, and what two excluded repositories contain.       *)
SmallInputs == SmallObjects \cup {"gb", "gd"} \cup UNION {HostTargets[t].wanted : t \in DOMAIN HostTargets}
                            \cup UNION {TwoRepositories[t].wanted : t \in DOMAIN TwoRepositories}
=============================================================================
