# A verification project for betterleaks

betterleaks searches files, repositories, buckets and images for secrets and, on
request, asks the providers whether what it found still works. This directory
holds TLA+ modules that model the program, configurations that model-check them
with TLC on small instances, and proofs that TLAPS checks for every value of the
constants. `PROJECT.json` lists the components, the runs, the lines of code that
each definition stands for, the hazards that the properties are for, and the
findings.

    tlc -workers 2 -config ScanNested.cfg MCScanEngine    # any run: see PROJECT.json
    tlapm ScanEngineProofs.tla                            # any module of proofs

## 1. The system

A command (`cmd/`) reads its command line and configuration, builds one
**source** (`sources/`), one **scanner** (`scan/`), optionally one **analyzer**
(`analyze/`), and hands them to a **pipeline** (`pipeline/`). The source calls
`yield` with fragments, from as many goroutines as it likes; the scanner detects
in parallel and hands findings, one at a time, to a handler; the analyzer, when
there is one, sits between the scanner and the handler and asks providers about
each finding through a pool of workers, two result caches, a request limiter and
a retrying HTTP transport. The handler writes to the **findings collector**, and
the command turns counts and errors into a report and an exit code.

    source --yield--> scanner --handler--> analyzer --handler--> pipeline --> collector
     S3, HF, files,   semaphore,          pool, caches,          counts      printer,
     git, images...   slots, channel      limiter, transport                 report file

| Component | State it keeps | What is hard | What makes it correct | Modules |
|---|---|---|---|---|
| Scanner (`scan/scanner.go`) | worker semaphore shared by all calls; per scan: slots, results channel, context, joined error | reservation, permit and channel in three steps with a cancellation between any two; handlers that call the scanner again | no slot or permit is lost, sends neither block nor meet a closed channel, a nil error is a promise as far as the source's errors allow | ScanEngine, ScanContract |
| Sources (`sources/`) | listings with pages, channels, error groups, nested contexts, sticky refusals, git processes with two pipes | the source cancels its own work, and that cancellation meets the failure that caused it; failures that are logged, yielded or returned | nil means scanned; a failure is reported; a refused yield ends it; nobody is left behind | SourceContract, SourceScan with SourceScript and the `*Resources` modules, S3Source, HuggingFaceSource, GitSource, Sources |
| What sources read (`reader.go`, `git_patch.go`, `gitdiff/`, `container/content.go`, `pre_receive.go`) | read-ahead buffer, hunk counts, layers | boundaries in streams, quoting, whiteouts, pushes of several refs | the fragments are the stream; each added line has its file, line and commit | ChunkReader, PatchReader, GitHeaders, LayerOverlay |
| Detection (`scan/`, `codec/`, `regexspan/`, `ahocorasick/`, `contextwindow/`) | per fragment | narrowed searches, nested encodings, suppression and components | what a plain search finds is reported or stands elsewhere in the report, at its place | KeywordMatcher, SearchWindows, FragmentDetection, ComponentSets, TextPositions, ContextWindow |
| Configuration (`config/`) | rules of up to three files | inheritance, removal, isolation | each rule in force comes from the right file, and none is dangling | ConfigResolution |
| Analyzer and pool (`analyze/`, `internal/provider/pool.go`) | job and result channels, workers, caches, handler error | producer, pool and handler wait for one another; cancellation races verdicts | nothing accepted is lost; a verdict is earned | AnalyzeStream |
| Result cache (`internal/cache`) | map, flights | lookup and flight are two steps | nothing stored is computed twice; failures do not stick | ResultCache |
| Request limiter (`exprruntime/validation_limits.go`) | next slots, requests by target, timeout budget of a chain | check, wait and count are three steps; the clock is read before the lock | budgets are exact, rates hold, a slow rule blocks nobody | RequestLimiter |
| Retrying transport (`internal/httpclient`) | deadline of a pause | pauses shared by requests; bodies that cannot be rewound | a pause is kept, a response comes with its body | RetryTransport |
| Provider programs (`cmd/generate/config/rules`, `exprruntime/bindings_*`) | - | verdicts from statuses and facts of cut-off bodies, from several regions | an answer that says nothing is no verdict | ProviderAnswers, ProviderPrograms |
| Credentials and redaction (`cmd/credential.go`, `report/`, `internal/revoke`, `internal/analyze`) | - | results of any shape; secrets that contain or cross one another | a result is taken for what it is; no secret is shown, nor any part of one but of those that cross | CredentialResults |
| Command line, targets, limits (`cmd/`, `sources/auto.go`, `targeturl/`) | flags and lists | one token decides what the next one is | a command line has one reading; a target has one source | CommandInputs |
| Pipeline, collector, exit code (`pipeline/`, `cmd/findings_collector.go`, `cmd/root.go`) | counts, two destinations with sticky errors | partial failure of a destination; counts taken at three places | a failed scan is not reported as clean | ScanCommand |

Interactions that matter: the scanner's semaphore is shared by every `Scan` and
`ScanString` on one Scanner, also by those that a handler makes; a source sees
the scanner's stop only as a refused `yield`; the scanner takes any error that
`Is` `context.Canceled`, or its own stop, for a stop and drops it, whether or
not the scan was cancelled, so what a source joins to its error decides whether
a failure is seen; the analyzer's
producer is the scanner, and the handler of the scanner is the pool's `Submit`.

## 2. The modules

### The concurrent core

**ScanEngine** models `scan/scanner.go` from line 260 to 480. `pc[s][p]` is the
position of yield call `p` of scan `s` and, once accepted, of the worker it
started; `SourceEnd` is the producer's own report. `queue` is `resultsCh`,
`slots` the number of tokens in `resultSlots`, `held` and `waiters` the
semaphore (first come, first served, as `x/sync/semaphore` is; external), `con`
the consumer with its deferred drain, `ctxDone` and `canceled` the caller's
context and `run`'s own, `scanErr` the joined error. A fragment is abstracted to
the number of findings in it and to whether detection fails; all of the control
is kept: which `select` may take which branch when several are ready, the early
returns, and what each path gives back. `Parent` says which calls a handler
makes, so that nested scans compete for the same permits. Its source yields and
returns what SourceContract permits, a cancellation that nobody asked for
included: sources do both (`s3.go:320`, `huggingface.go:639`). **ScanContract**
says what `Scan` promises, without goroutines; ScanEngine implements it.

**AnalyzeStream** models `Analyzer.stream` together with the pool: the
producer's calls, the job queue, the workers, the two caches, the roll-up of
component combinations, the results channel, the consumer and its handler. A
worker that asks while another asks about the same key shares its answer; that
abstraction of the cache is what **ResultCache** is about. `Resolve` gives the
answer that no other is better than, which is what the loop over `betterAnalysis`
keeps: equal statuses and facts are one answer here. With `debug` (the option
WithDebug) both caches are left out, and every worker asks for itself. ResultCache models
`GetOrDo` line by line, with singleflight as an external part: `log` is the
history of computations, `store` the map, `flight` singleflight's own map.

**RequestLimiter** models `RoundTrip`, `wait`, `admit`, the timeout budget and
the response body, on discrete time. `Tick` may happen between any two steps of
any goroutine, so a goroutine can be arbitrarily slow; timers fire at or after
their time. **RetryTransport** models `RoundTrip` of the retrying transport with
its shared pause, and GitHub's `gqlQuery` as the caller that pauses everyone:
`resume` is the time left until `resumeAt`, `unread` the bodies of responses that
nobody has drained or closed, `slots` the tokens in `gqlSem`; `asked` and
`promised` are history, the pauses that were asked for and that each goroutine has
seen. gqlQuery's waits are the pauses it records. No caller in the repository sends a body that
cannot be rewound today; the transport's own rule for them is modelled.

**ScanCommand** models a scanning command from its first target to its exit
code: `pipeline.Scan` with and without an analyzer and with its status filter,
the loop of `cmd/directory.go` over several paths, `findingCollector.Add` and
`Close` with a terminal and a report that may each fail at every write, and
`findingSummaryAndExit`. It takes the scanner as ScanContract describes it: a
failure of the source is an error of the scan (`SourceFails`), or is dropped
with the findings it hides (`FailureDropped`); the history variable `dropped`
remembers these, and no action reads it.

### The sources

**SourceContract** says what `sources/source.go` asks of a source; every source
implements it. Errors are kept as the *set* joined in the returned error, over
"fail", "canceled" and "refused", because that is what the scanner tells apart.

**SourceScan** has the goroutines of GitHub, GitLab, Hugging Face repositories,
file trees and container images: "main", the enumerator with its channel of one,
the scan of repositories, and an error group of a lister and workers. What a
goroutine does is a script, a sequence of requests, yields and the choices
between them: **SourceScript** is its language, and **GitHubResources**,
**GitLabResources**, **FileResources** and
**ContainerResources** translate each listing and each resource of the source
into one, operator by function (`scanReleases`, `walkIndex`, `fileFragments`
...), with what a failure does there: it is returned, it is logged and something
is passed over, or it is yielded. `PlanOf` of MCSources puts a
target's scripts together and adds those of Hugging Face repositories. What
SourceScan demands of a plan is in its `Assumptions`: every step names scripts and groups
that exist and jumps forward, and a source that does not wrap `yield` ends what it does with a refusal and
enumerates nothing (`sources/file.go`, `sources/container/`). `PlansAreRegular` of Sources adds what
the scripts of all hosts have in common: only a repository's own script starts groups, what is sent to a
worker sends nothing further, and what a failure passes over holds no group. TLC evaluates
them on the scripts of every target of the run.

**S3Source** and **HuggingFaceSource** model the buckets: the lister, one task
per object, and three nested contexts, each kept with its cause. **GitSource**
models the scan of a repository's history: the workers that partition it, each
git process with its two bounded pipes and the goroutine that collects its
standard error, the errgroup, the kill and the wait.

What they read: **ChunkReader** (the reader of a stream and its look-ahead for a
safe boundary, a state machine over short reads and failures), **PatchReader**
(`git log -p` read line by line, and gitdiff's own reading of a patch, which
must agree; and the revisions that a pre-receive hook asks git for), **GitHeaders** (headers of files as git writes and quotes them, of
commits, and the options given to git log), **LayerOverlay** (which paths of a
layer later layers hide).

### Detection, configuration, providers

**KeywordMatcher** is the automaton that finds keywords, with its folding of
wide runes, and the lists that filters compile and cache. **SearchWindows** is
`regexspan.Plan`, the assignment guard and the suffixes of path expressions: all
that keeps a rule from looking at the whole text. **FragmentDetection** takes
the matches from there: rules in the order of specificity over the passes of
decoding, suppression and components, and, for one match, the value group, the
captures, the filters, path rules and confidence. **ComponentSets** counts out
the combinations of components, **TextPositions** the segments of nested
encodings, the way back and the lines, **ContextWindow** the text shown around a
match, **ConfigResolution** inheritance, validity and hashes of configurations.

**ProviderPrograms** has the validation programs of the rules, one operator for
each Go function that writes one, over answers that are a status and a set of
facts ("live", "refused", ...); **ProviderAnswers**, which it extends, the
functions that ask clouds, and the programs that ask twice, revoke or analyse.
**CredentialResults** has the inputs of `validate`,
`analyze` and `revoke`, the reading of a program's result, and redaction.
**CommandInputs** has the routing of a command line, the selection of rules, the
strings of a printed configuration, the detection of a target's source, bounded
downloads, and the origins and clients of request limits.

**Sources** composes the sources: `which` says which one is scanned, its variables have
their own names (those that several sources have, such as `target` or `cause`, are
shared), and the rest are unused. Its properties are those of all sources, and `ImplementsSource` is the
refinement of SourceContract, with one mapping for each source. **MCSources** gives it targets.
**MCSequential** runs what one goroutine does, one `part` at a time: the command,
the chunk reader, and the algorithms, each of whose inputs is picked in two
steps (`First`, then `Rest`) and compared with a reference definition that is
written down without the code's own devices (a search of the whole text for the
windows; a quantifier over all texts for the automaton).

A definition with a name like `EndPageFirstOnly` or `OrderedRunTogether` that no
action uses is a plausible mistake: it stands beside the definition it would
replace, and replacing it makes TLC find the property named in `PROJECT.json`
under "mutants" violated.

## 3. The runs

| Run | Instance | States | What it shows |
|---|---|---|---|
| ScanNested | two scans, the second started by the first one's handler, two yields each, two permits; failing sources and detection, cancellation at any moment | 1.30 M | slots are exact, sends are safe, what nil means, the engine implements ScanContract |
| ScanShared | one scan with three yields, one `ScanString` from its handler, one from elsewhere, one permit | 208 k | permits are exact, returns are clean, read-ahead is bounded, stops are final, everything returns |
| Sources | each source on targets of a few pages (below), two workers, one fault | 375 k | nil means scanned, once; refusals are final; nobody is left behind; SourceContract; termination |
| Cache | three goroutines, two keys, three calls in all | 139 k | no recomputation, no sticky failure, own key, termination |
| Analyze | three findings (two combinations sharing a key with a second finding whose list was cut off, and one that may be direct or malformed), two workers, a queue of one; with Debug and without | 1.31 M | delivery, shutdown, verdicts, sharing, termination |
| Limiter | a slow rule's request with a redirect and an unlimited rule's; budget 2, global interval 2, slow interval 3, timeout 2, time up to 7 | 366 k | budget, rates, fairness among rules, timeout |
| Transport | two queries that share a slot and a call whose body may be sent once; one retry, two faults, pauses of 1 and 3 | 339 k | bodies, pauses, termination |
| Sequential | one part at a time, below | 2.01 M | the command tells the truth; readers and algorithms agree with their references |
| S3BucketFails, HFFailureDropped, RefusalIgnored, ComponentsSurfaced | the instances above, with the failure in question | small | findings (section 6) |

**Why the bounds are enough.** The smallest pools create the contention: with
one permit two tasks already queue, and a nested scan needs the permit that its
parent's worker holds; two workers and three yields add overtaking and the
closing of a channel while one worker is late. Three yields also give one
reservation, one queued result and one in the consumer's hands, and one more. In
the sources one task is running, one queued and one not yet submitted when a
listing fails; the targets of MCSources give each listing a second page, one
that ends exactly at a page's end, an empty one, and duplicates and forks where the
code looks for them; an archive in an archive, one too deep and one too large;
an index of two platforms and an attestation; more commits than history workers
and more warnings than a pipe holds. One fault suffices, because whatever
happens afterwards is cleaning up, which a refusal or a cancellation may still
meet. In the cache a leader, a joiner and a late caller are three goroutines; a
second key exists so that answers could be mixed up. In the analyzer each
finding stands for one kind of roll-up and two of them share a key. In the
limiter the budget is smaller than the requests wanted and both rates are slower
than a tick. `MaxCalls`, `MaxRequests`, `MaxFaults`, `MaxRetries` and `MaxTime`
are the caps on counters; no property depends on reaching them.

The parts of Sequential and their inputs:

- *command*: two targets with three findings of which none, one or all are
  hidden, every combination of destinations, every write, scan and close may
  fail, the command may be interrupted anywhere; *chunks*: all streams of up to
  five bytes over letter, space and newline, ending or failing, chunks of 3,
  reads of 2, look-ahead of 2, every read of every size, an empty one included.
- *patches* (one or two commits of two files, cut at every line, also inside a hunk),
  *names* (up to 5 characters over letter, space and slash, or 3 over six),
  *commits* (messages of up to 5 lines), *options* (words of up to 2 characters in three
  quotings), *pushes* (two updates of every kind on small histories), *overlay*
  (two layers of up to two entries and a third of one).
- *detection* (rules with one another's components over one or two passes),
  *judging* (valid rules, both filters in five kinds, three paths, up to two captures),
  *sets*, *decoding* (up to two encoded values in six bytes, and two in what
  they decode to), *encodings* (up to four of nine pieces of text), *locations*, *contexts*,
  *keywords* (texts of up to five of six runes against four lists of patterns), *searches*, *suffixes* (ten
  expressions on paths of up to four of six symbols), *lists* (up to two of six words).
- *configs* (three files of up to two rules), *hashes* (some 200 configurations
  in pairs), *selection* (four rules, up to two identifiers of five isolated and
  disabled), *printed* (texts of 4 over seven characters or 6 over three), *lines* (a
  leading flag or none and up to 4 of 12 tokens), *targets*, *downloads* (up to four bytes),
  *origins*.
- *answers* (15 statuses with up to two facts, five kinds of input, four
  outcomes of the exchange), *regions*, *grants*, *results*, *identities*,
  *inputs*, *redaction* (texts of up to 4, secrets of up to 3 letters over two,
  shown to 0, 50 and 66 per cent).

A bound is large enough for an algorithm when every branch of it is taken and
two of its objects can overlap, touch and nest; TLC's coverage shows the former,
and the mutants, most of them off by one, the latter.

Deadlock is checked in every run: a `Finished` (or `Checked`) action lets a
terminated system stutter, and nothing else may.

**Fairness.** Weak fairness of each goroutine's own steps, because Go schedules
every runnable goroutine, detection terminates, provider requests and downloads
have timeouts, and a handler returns. Sources need less: weak fairness of *some*
step of progress, since no step of theirs is repeated for ever. Nothing is
assumed of callers: nobody has to start a scan or cancel one, and failures are
never fair. The semaphore of the scanner needs no strong fairness, because it is
first come, first served; gqlQuery's slot is a channel, whose senders queue, so
strong fairness of `Acquire` in RetryTransport is what the runtime gives. A
source is assumed to end its yields (the contract asks for that, and the run
Sources shows it of those modelled). The limiter has no liveness property:
whether a request is admitted depends on how long its caller waits.

## 4. What the properties say

*Scanner.* `SlotsAccounted`: each token of `resultSlots` is one reservation, one
queued result, or the one result in the consumer's hands. `SendsSafe` follows
from it and from the order of shutdown: no send ever blocks, so a worker never
keeps a permit because a handler is slow, and this is what makes nested scans
safe; and no send meets a closed channel. `PermitsSound` is the semaphore's
book-keeping over all scans and calls, including an `Acquire` that is granted in
the moment it is cancelled. `CleanReturn`: nothing of a scan outlives it.
`NilMeansComplete` and `ImplementsContract`: after a nil error every finding of
every fragment that the source handed over has been given to the handler, and no
detection or yielded error has failed; and if the source neither yielded nor returned a
cancellation, it has handed over all that it has and returned no error. That is as much as the code
promises: an error that `Is` `context.Canceled` is dropped with all that is joined to it,
although `runCtx` is alive (lines 366, 390, 397), and finding 2 of section 6 is a source that does
this to a failure. What the sources add is `FailureReported` and `ImplementsSource`. `ReadAheadBounded`: at most Workers + 1 fragments are ahead of a slow
handler. `StopIsFinal`, `Returns`.

*Sources.* `NilMeansScanned` compares what was yielded, and what was passed over
with a reason that is logged or yielded, with a list of what is wanted that
MCSources writes down by hand. Its first part, `WantedIsListed`, is about those lists: that they are what
the scripts made by the `*Resources` modules read, what git prints, what the pages of a bucket
hold, each input in one place. `EachScannedOnce`, `RefusalIsFinal` (files and
containers; and the kill of git after a refusal is not git's failure),
`NothingLeftBehind` (git's process, listener and readers), `ImplementsSource`,
`Returns`, and the three promises of section 6 that do not hold. In
SourceContract a failure may stop the rest of a source, so that a stop may be
joined to it; that it is then still *reported* is the stronger `FailureReported`.

*Analyzer.* `NilMeansDelivered`; `NothingLeftRunning`; `VerdictEarned` (valid if
and only if one combination works, never "invalid" when combinations were left
out, and no verdict of a request that was cut off); `AnswersShared` (one key, one
answer, unless Debug bypasses the caches; asked once for a finding, with Debug too); `StopIsFinal`; `Returns`.

*Cache, limiter, transport.* `ComputedOnce`, `AnswersRight`, `CallsReturn`;
`BudgetExact`, `RatesHold`, `SlowRuleBlocksNobody`, `TimeoutShared`: the rate is a
bound over the whole run. Two consecutive requests can be closer than the
interval: `wait` reads the clock (line 146) before it takes the lock (line 147), so a
delayed goroutine reserves the next slot from an old time; what holds, and is
proved, is that the number of slots never exceeds what was due by then.
`ResponsesIntact` (a response that is retried is closed before the next attempt, and a
caller gets the last one, unread, unless the request could not be sent again),
`PausesHonoured` (a recorded pause is kept by every call that begins after it,
whatever shorter pauses others record, and a goroutine that was told to wait
itself sends nothing before), `Returns`.

*Command.* `TotalsMatchContent` (a healthy destination holds every finding that
was tried, although the other has failed, and totals are those of what stands
before them), `CountsAgree` (detected, resolved, emitted and printed shrink in
this order, and without an error only by what was hidden), `OutcomeHonest` (a
scan is called complete, and exit code 0 is given, only if every target was
scanned and every destination has every finding, but those that a source lost
to a failure it joined to a cancellation). That one exception is the code's: the
scanner reports nothing of such a failure, so the command prints "complete" and
exits with 0 although part of a target is unscanned. The property says that there is no second
way: all that the scanner reports to the command is kept to its end.

*Sequential.* Each property is the conjunction of what its parts promise.
`ChunksFaithful`: the fragments of a stream are the stream, with their line
numbers, and a nil result means all of it, unless its last Read gave neither a byte nor
an end, which ends it early (section 6). `SourceInputRight`: additions carry their file, line and commit, also
of a log that was cut; quoted names are read back; a push scans exactly the commits that are new;
an image's layers are read as the image they make; a command line and a target
have the reading that their grammar gives; nothing beyond the limit is downloaded.
`DetectionRight`: what is complete and not suppressed is reported, and no match that a
filter was right to drop is; combinations come in order and are marked when cut
off. `PositionsRight`: decoded text maps back to the encoded value it came from and is
all that was encoded, lines and columns are those counted by hand, the context is the lines around.
Its references say what is meant, not what the code does, and name the two places where the
code differs (section 6): `EndsInDouble`, and a match that begins with newlines.
`RulesRight`: windows, guards, automaton and suffixes lose nothing that the plain
search finds; the rules in force are those that the files and flags say;
configurations with one hash are one configuration; a cached filter is the
filter of its own list. `CredentialsRight`: no verdict without an answer that earns
it, and at a status that says nothing of a credential only by the word for it in the
body; no analysis or revocation from a result of another shape; limits that reach the clients they are for.
Of redaction, at 100 per cent it says exactly what is left: the text without the secrets, of which, where two overlap,
the earlier or the longer wins. Nothing of a secret is left where no two cross; where two
cross, the tail of the later one stays (section 6). At any percentage that masks a letter of each, none can be read whole.

## 5. What is proved

All eight modules of proofs speak about every number of workers, callers, scans,
yields, chains, keys, findings, queries and targets, every stream, every script of a source, and every interval, pause,
budget and timeout, under the named assumptions of the modules only (finite sets, at least
one worker, distinct tags, a parent function, a finding in one target only, regular plans);
TLC evaluates these on every run. Each inductive invariant was an invariant of the
component's run before it was proved.

**ScanEngineProofs.** `SlotInv` is `TypeOK /\ SlotsAccounted /\ ControlInv`. Slots
alone are not inductive: `ControlInv` adds that producer and consumer start together, that the
handler is called for a finding still to be handled, and that the producer has no report of its own
before the workers are done. Each action moves one unit between the terms of
`SlotsAccounted`, or enters and leaves a pair of them (`ReservedGrows`, `ReservedShrinks`, `AccountMoves`).
`TypeCorrect` and `SlotsNeverLost` follow. `PermitsAlwaysSound` shows that
`Acquire`, `Release` and `Withdraw` preserve the semaphore's invariant and that all
other steps leave the status of every task where it was. `ShutdownInv` states the order of shutdown
(`source done`, then workers, then `close`, then the drain, then the return);
`SendsAreSafe` takes from it that nothing is sent after the close, and from
`SlotsAccounted` that a sender finds room. `ReturnsClean` combines all three.

Its second part follows one result. `ResultInv` has, for
each scan, `QueueInv` (a result is sent once and taken once), `HandledInv` (the handler
has had those findings of a result that the consumer has passed), `AnswerInv` (what
detection reported of a fragment is what its content gives, unless the scan was being
stopped), `SourceInv` (what the source reports and what happened to its yields) and
`VerdictInv` (the joined error has every failure the consumer met; it goes on only without
one). `NilIsComplete` needs them all, and the shutdown order: without an
error the channel was closed by the source's end and emptied by the consumer, so every
accepted fragment is `Settled`. Nothing is assumed of when a source speaks of a cancellation. `ReadsAheadBounded` needs only that each fragment in flight has a
slot, apart from the one result whose slot the consumer has released. `ScannerKeepsContract` is
the refinement of ScanContract: `Begin` is the call of `Scan`, `HandOver` and `Say` what the source yields and returns, `Deliver` the step that hands one finding
to the handler, `Return` the consumer's return, which has to show `Complete` for a nil error; every other action is a stutter.

**ResultCacheProofs.** `CacheInv` adds to the properties `Flights` (a flight has one leader,
its followers wait for that leader and its key) and `Computations`
(a leader past its second lookup found nothing stored, and what is stored is a finished computation
of that key). Without the leader's second lookup `ComputedOnce` is not
inductive, and the mutant that drops it shows that it is not true either.

**RequestLimiterProofs.** `IInv` is `TypeOK` and five layers: `Timing` (no clock that was read and
no start lies in the future), `Spent` (the remaining budget and the time spent
add up to the timeout until the deadline has passed), `Rates` (the slots given times the interval are at
most the next free slot, which is one interval after the last one and at most one from now), `Waits` (a request without a rule rate sleeps until
the global slot after the last one), and `Budgets` (`sent` is `received` plus those about to be sent). Each layer is
preserved by every action given the ones before it.

**SequentialProofs** has two parts. Of the command, `IInv` is `TypeOK` and three parts. `Places` says where findings can be: on
their way in the current target, or `Done`, and that only done ones were tried. `Collected` ties
destinations and counts to what was tried; `Faultless` says that before the first error everything done
was written, hidden or dropped with a failure, and it is what makes the equalities of `CountsAgree` inductive. `Report` and
`Resolve` share one step, `Reaches`, whose lemmas (`DoneGrows`, `EmitCollected`, `EmitFaultless`) carry most
of the argument. `CleanExit` is carried along for `OutcomeHonest`, as an exit code 0 must be remembered to have been earned.

Of the chunk reader, `ReaderInv` is `ReaderTypes`, `ReaderEnds` (an end is met with the last byte, and kept until all
bytes are taken; a stream that failed or went idle has no other), `ReaderAt` (a fragment begins where the last one ended, on the line counted so
far), `ReaderLooks` (a newline counted in the lookahead is one of the fragment, with only blanks behind it)
and `Faithful`. It needs no induction: the loop over peeked bytes is stated by
where it stops, at the first `Second` newline. `ReaderLooks` is what makes the cut at a blank line inductive, as
the count is carried from one peek to the next.

**AnalyzeStreamProofs.** `Inv` is `TypeOK` and seven layers. `PlaceInv` is the heart: an accepted
finding is queued, with one worker, in the results or handled, in one of them and once,
unless the stream was told to stop. `StopInv` is the order of shutdown, from the producer
to the workers to the close of the results to the return. `NilIsDelivered` and `NobodyLeftRunning` follow from
these two. `WorkInv` says which combinations a worker's answers
are for; `FlightInv` that who asks the provider is alone in that and nothing is stored; `StoreInv` that
what was learnt agrees with the cache; `AskedInv` that a finding whose worker asked
is done, or its worker waits for that answer or has it. `AnswersAgree` takes the last three:
that two findings agree is only inductive by way of the cache. `FlightInv` and `Stored` are empty with Debug, and `AskedInv` is not: a worker's own answers do without the caches. `OutcomeInv` carries
`VerdictEarned` and that a verdict which was cut off has not been handled
(`Receive` looks at the context first). `BestExists` and its neighbours show that a finite set of
answers has one that no other is better than, for the `CHOOSE` of `Resolve`.

**RetryTransportProofs.** `Inv` is `TypeOK` and three layers: `SlotInv` (the tokens of `gqlSem` are the queries between
`Acquire` and `ReleaseSlot`), `PauseInv` (the deadline is the longest pause asked for, a
sleeper's wake-up is not before what it promised, and who is about to send owes
nothing) and `BodyInv` (while its fate is open, a goroutine's response is unread). `PausesKeptByAll` is an
action property: it follows from `PauseInv` before the step of `Send`. `SlotsReturned` is a
theorem that no run checks by name, as `Returns` covers it there: the semaphore is empty when all calls are over.

**SourcesProofs** is about how a source ends, for
every target, and every script that SourceScan admits. `SourcesInv` is the invariant of the source that is
scanned, one of four:

- `HostInv` (hosts, files, containers). `HostPhases` says which goroutines run in which phase of `Fragments`;
  `HostWork` that a goroutine with something left to do has no error that ends it, and that
  each has the error that was caused: "refused" only after a refusal, "canceled" only once the context has a cause. `HostGroup`: a
  group of workers exists while the goroutine that opened it stands at that step, so `scanActions` and
  the parallel readers of files cannot outlive their repository or tree (`HostIdle`).
  `HostRefused`: a refusal becomes the cause of the context where `yield` is wrapped, and the
  error of the caller where it is not.
- `S3Inv`. An error of a group ends its context; the lister's error and the context of the only bucket
  have a stop or a failed listing behind them, and a failed listing is on its way out.
- `HFInv`. The same for Hugging Face's three contexts, and `HFCause`: the verdict is the cause of the
  enumeration's context if it has one. `BucketEnumerationReported` follows.
- `GitInv`. `GitProcess` ties a reader's position to its process and the listener of its standard error, so that a reader
  that has ended has no process; `GitErrors` and `GitGroup` say what an error of a reader
  shows about the scan. `GitClean` is what makes `KillNotReported` inductive: as long as nothing has failed and nobody
  has stopped a reader from outside, its process ends well, or was killed by the reader itself, after a refusal.
  `GitRecords` is needed for it too: every record of the loops over messages and
  tags is yielded, in hand, in the pipe or still to be written.

`NothingIsLeftBehind` and `ARefusalIsFinal` follow from the invariant. `EverySourceKeepsTheContract` is
the refinement of SourceContract: `QuietStep`, `CallStep`, `AnswerStep` and `ReturnStep` say
which change of (phase, yields under way, stopped, failed, verdict) is a step of the contract, and one lemma for each source shows that
each of its actions makes such a change. The hard case is the return: a verdict must
be explained by a failure, a stop or a refusal, for which the invariants above carry where each error comes from.

**SourceResultProofs** goes on from SourcesProofs to what sources have read. `ResultsInv` says where the inputs of a
target are until the verdict, in one of three forms:

- `HostReads` (hosts, files, containers). `HostWhole`: each input that the plan reads is yielded, told or logged as
  passed over, or in one of `Places`: the rest of a goroutine's script, the part of the plan that has not
  begun, the repository in `repoCh`, the task in `runCh`; or there is trouble, an error on its way
  into the verdict. `HostDisjoint` and `HostApart`: no input is in two places, or twice in
  one. `HostSound` keeps what is left of a script regular, as it was in the plan, and `HostRepos` follows the
  repositories of the enumeration in the same way. A step takes an input from one place to another;
  a failure passes over some steps of a script and tells of them, and there
  regularity is needed: what is passed over has to be an input, not a group.
- `GitReads`. What a reader is to read is in the stages it will come to, in git's script of the current
  one, in the pipe, in hand or yielded, or its process has failed and the error is kept;
  `GitFull` that the workers' parts of the history have all been started.
- `S3Tries`. The pages that the lister has passed hold no object without a task, and an enumeration
  that returns without an error has come behind its last bucket.

`NilMeansScannedHolds` and `EachScannedOnceHolds` follow, for every target for which `WantedIsListed` holds. It is a
hypothesis on constants, and no state occurs in it: a target's list of wanted inputs is the
measure that the property compares with, so it must be the list of what there is to read. That the
translation of a *particular* target meets it is a computation over trees and pages; TLC makes it
for every target, as the first part of `NilMeansScanned`. For Hugging Face buckets the property says only
that a failed enumeration is the verdict, since a failed object may be dropped (section 6).

Only model-checked:

- *Liveness*, every `Returns` and `CallsReturn`: fairness is out of the prover's reach.
- *What the `*Resources` modules make of a target*: `WantedIsListed`, and with it that the scripts read all
  that is wanted. A script is computed by recursion over trees and pages.
- *The algorithms* of Sequential, which are the other parts of its properties. They are folds over data, so what they compute for
  every input needs an induction that the prover does not offer.

## 6. Findings

Shown by runs:

1. *A failed bucket may end the enumeration* (`sources/s3/s3.go:320`, run
   S3BucketFails). The object that a failed listing cancels yields its read
   error, the scanner refuses it, the refusal cancels the context of `Fragments`,
   and the remaining buckets are not scanned, although the comment on
   `scanEnumerated` calls the failure of one bucket non-fatal.
2. *A failed object may be dropped* (`sources/huggingface/huggingface.go:639`, run
   HFFailureDropped). The group's own cancellation stops the listing, whose
   `context.Canceled` is joined to the failure, which the scanner takes for a
   stop. With the listing already ended, the same failure is reported. (S3 does
   the same with the failed listing of a single bucket.) Whatever was unscanned then, the scanner
   returns nil, and the command prints "complete" and exits with 0 (section 4, *Command*).
3. *A refusal is taken for a failure* (`sources/github/github.go:1365`, run
   RefusalIgnored). A refused asset of a release is logged, and the next
   release's body is yielded; GitLab does the same.
4. *A finding is left out as the component of one that is left out itself*
   (`scan/scanner.go:1212`, run ComponentsSurfaced). It is nowhere in the report.

Met while modelling, without a run of their own:

- *Sources.* Only the first failed Hugging Face bucket is kept
  (huggingface.go:198). Requests that already sleep do not look at a pause
  recorded meanwhile, against the comment on `PauseFor` (transport.go:193). A
  reader that returns `(0, nil)` once, at the head of readerFragments' loop, ends its stream
  with the rest unread and a nil error (reader.go:91-95): bufio hands such a read on when the
  caller's buffer is as large as its own. In the lookahead bufio asks a hundred times, and that
  failure is told. A git that cannot run `rev-parse` looks like a push without
  commits (cmd/git.go:117). A commit whose author or date cannot be read has no SHA, so
  an archive in it is read from the index; so has one whose message line is
  longer than 64 KiB. docs/scanning.md:887 says that a GitLab
  namespace is refused without a token; gitlab.go:201 does not ask, and no property does.
- *Text.* Adjacent decoded ranges count as overlapping. A match that begins with
  newlines is trimmed (scanner.go:842, 864), and its end is then computed from its old start and its new
  length, as many bytes short; its start is that of the newlines, a line too early for each. encodings.go:211
  compares with `i+7 < n`, one too few: a text that ends in a first doubly escaped `\\uXXXX`
  decodes to a stray backslash. Both are exceptions named in `PositionsRight`. A `U+XXXX` directly behind a word character is
  never seen. The assignment guard drops the plan of a rule whose class folds to
  a letter outside ASCII. Of two path-only rules on one file the more specific
  is reported alone. Filter caches join lists by NUL, so members with a NUL
  collide; a joined expression is checked only as a whole.
- *Redaction.* Of two secrets that cross, the one that starts earlier wins
  although it may be shorter, and the tail of the other stays, against
  finding.go:157 ("Longest values win"). `RedactionRight` states the exception. Low percentages show short secrets
  whole. Keys of a sanitized map may collide and lose an entry.
- *Providers.* Some programs decide by the body at any status (authress,
  datadog, ionic, auth0, voyageai, slack, alibaba); cloudsmith reads a 200
  without its fact as invalid; paypal, zoho, langfuse and llamacloud never say
  invalid; fastly reads a bare 401 as revoked; the Google key is invalid on one
  400 though the first request failed; an unknown Azure host is invalid; a cloud
  answer 200 with a cut-off body stays valid. Hugging Face's 202 is revoked with
  a comment that justifies it, GitHub's is unknown. Analyses of airtable, slack,
  github and cloudflare do not say why there are no capabilities.
- *Commands.* An explicitly isolated component with skipReport stays unreported;
  disabling a component makes the configuration invalid, so the error of
  `applyRuleSelection` for it cannot occur; `config show` prints TOML that cannot
  be read for a text with a newline and another control character; a capture
  `a:b:c` goes to the components `a` and `a:b`; Auto lowers the case of hosts where the S3
  parser does not, and selects S3 for `s3-region` hosts that it refuses; a double slash
  inside a GitHub URL gives an empty repository.

## 7. What is not modelled

About 40 % of the implementation are the patterns, keywords, examples and stop
words of some 290 rules: data, of which only the programs are modelled. Keywords
are often wider or narrower than the expression on purpose, so "the keyword
covers the expression" is no property of a rule.

- *Engines and formats.* Regular expressions, TOML and JSON decoding, the
  expression interpreter, the tokenizer and word list, archive formats, base85
  and binary patches, SHA-256 (taken as injective), request signing.
- *Presentation and wiring.* Report writers, colours, fingerprints, logging,
  timing, diagnostics, the flags of each command.
- *In modelled components.* The clone of a URL and git's diff modes (one process
  each); semaphores, retries and rate limits inside the API clients of the
  hosts; digests, byte budgets and unpacking in containers; the concurrency of
  the walk over a tree (fastwalk calls back in any order, the model in one);
  a panic of a cached computation; the debug facts of results; Validate and new or deleted files
  in gitdiff; the limits on literals and the 256 windows of a plan, and runes of
  several bytes in windows; the entropy of decoded values; percent escapes that
  fail; errors of the callbacks of the patch reader; links, allow signatures; other encodings in which diagnostics are redacted.
- *Exercised little.* In the part *detection* all matches lie on line 1 and are to lie within 0 lines of one
  another, so that distances between components are compared and never tell any apart. The window of a
  rule whose assignment guard rejects its own keywords is excluded from the part *searches* (`GuardHidesPlan`). Requests that
  sleep through a pause do not look again, which `PausesHonoured` does not ask of them.
- *Assumptions.* git's output is in the format that newGitLogCmd demands, with
  the prefixes a/ and b/ (a repository's own configuration could change these),
  and a commit message's first line is not indented.

## 8. Plan

Built, in order of importance: the scanner with its contract and proofs; the
source contract and all sources; cache, limiter, transport and analyzer; the
command; the readers of streams, patches and layers; detection, decoding,
keywords and windows; configuration; provider programs, results and redaction;
command lines and targets.

Proved since: the results of the scanner and its refinement of ScanContract,
the analyzer's stream, the transport, and of all sources how they end, that
they implement SourceContract, that a nil verdict means that their scripts have been run to the end, and
that no input is yielded twice; and the reader of a stream.

Left: two parts with control of their own, the
semaphores of API requests and the byte budgets of container sessions.
