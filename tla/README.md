# A TLA+ model of caddy-static-adapter

The adapter gives Caddy the `_headers` and `_redirects` files of static hosts.
Two HTTP handlers, `static_headers` and `static_redirects`, look their rules up
per request in a cache of compiled files, which is refreshed by polling and by
file system events. This directory models the parts of it that keep state, or
whose order of steps decides the answer, and says what of it is checked by TLC
and what is proved by TLAPS.

    tlc -config HandlerEviction.cfg MCFileHandler      # any run of PROJECT.json
    tlapm FileHandlerProofs.tla

## The system

| Part | Source | State | Operations |
| --- | --- | --- | --- |
| file cache and reload | `filewatcher.go` | `files` (path → `cachedFile`), `mu`, `closed`, `debounce` timers; per entry `data`, `loaded`, `lastErr`, `watched`, `lastCheck` | `getCached`, `addFileLocked`, `refreshLocked`, `ensureWatchingLocked`, `scheduleReload`, `reloadInBackground`, `Cleanup` |
| shared watcher | `watchhub.go` | one fsnotify watcher; `dirs` (path → handlers, its watch), `watches` (path → directory identity, its paths) | `subscribe`, `unsubscribe`, the event loop with `targetsFor` and `dropWatch` |
| scanning and parsing | `scan.go`, `headers_parser.go`, `redirects_parser.go`, `parse_error.go` | the rule being built, the warnings, the bytes read | `scanLines` and its two callbacks, strict mode |
| URL patterns | `pattern.go` | none (a compiled pattern) | compile, match, capture, folded if the file system ignores case; hosts of absolute patterns |
| templates | `pattern.go` | none (a compiled text) | find the references, substitute escaped values |
| redirects | `redirects.go` | three indexes of one file's rules | `compileRedirects`, `MatchFirst`, `expand` |
| header rules | `headers_compile.go`, `headers.go` | indexes of one file's rules | `compileRules`, `MatchOrdered`, `MatchBySpecificity`, merging and applying operations |
| file guard, path cleaning | `path_access.go`, `headers.go` | none | which request paths are refused, and which path the rules are matched against |
| Caddy glue | `directives.go`, `ServeHTTP` | configuration | registering, provisioning |

How they meet: a request calls `getCached` of its handler; the first request of
a path, or the one that wins the compare-and-swap on `lastCheck` when
`checkInterval` has passed, takes the handler's `mu`, subscribes the file's
directory with the hub and runs stat, load, stat. Loading is the parser
followed by the compiler. The hub's loop takes fsnotify's events, computes the
reload targets under the hub's own lock, and calls back into each handler's
`scheduleReload`, which arms a debounce timer; the timer's goroutine reloads
under the handler's `mu`. `Cleanup` sets `closed`, stops the timers and
unsubscribes. The request then matches its path against the compiled rules
without any lock. `static_redirects` answers with the first rule that matches,
its destination expanded; `static_headers` applies the operations of all rules
that match to the response and calls the next handler.

What is hard in it:

- Requests, timers, the loop and `Cleanup` interleave, and a handler calls the
  hub holding its own lock. State is read before `mu` is waited for (the entry,
  `lastCheck`) and used after it.
- A file may change at any step of stat, load, stat; events are lost; a file is
  broken, unreadable, absent, or put back exactly as it was.
- Paths are symlinks that are re-pointed, so several may lead to one directory,
  where fsnotify has one watch only, and nothing reports the re-pointing.
- Rules of one file are spread over several indexes and the answer must be as if
  they had been tried in file order.
- Where the file system ignores case, or is Windows', several request paths name
  one file. The rules of that file must apply to all of them, and none may get
  at the configuration file, yet a request should cost no normalization.
- Values captured from a decoded path go into URLs and header values, where
  their characters would mean something.
- A parser that skips what it cannot use must not attach what follows to
  something else, and cuts files and lines at exact limits.

What makes each part correct is stated below, run by run; every hazard is listed
with its line in `PROJECT.json`.

## Modules

| Module | Models | Extended by |
| --- | --- | --- |
| `FileHandler` | one `fileHandler`: its cache, requests, timers, `Cleanup`, and the file system it watches | `MCFileHandler` (symmetry), `FileHandlerProofs`, and over it `RuleCacheProofs` (theorems) |
| `RuleCache` | what a `fileHandler` promises; implemented by `FileHandler` | |
| `WatchHub` | the shared watcher over fsnotify, its handlers' calls, directories that move | `MCWatchHub`, `WatchHubProofs` (theorems) |
| `Subscriptions` | what the shared watcher promises; implemented by `WatchHub` | |
| `Pattern` | patterns: compile, match, capture, fold, and what a pattern means by its text | `Template`, `HostPattern`, `PathAccess`, `PatternProofs` (theorem) |
| `Template` | header values and destinations: references, contexts, escaping, and how a client reads a URL | `RedirectMatch`, `HeaderMatch` |
| `HostPattern` | absolute URL patterns: splitting, ports, hosts, and what a host means by its text | `HeaderMatch` |
| `PathAccess` | the guard of the configuration files and the cleaning of request paths, and which names are left of a path | `RedirectMatch`, `HeaderMatch` |
| `RedirectMatch` | `static_redirects`: `compileRedirects`, `ServeHTTP` and `MatchFirst`, an iteration per step, and `expand` | `MCRedirectMatch` (the pools of rules and paths), `RedirectMatchProofs` (theorems) |
| `HeaderMatch` | `static_headers`: `compileRules`, `ServeHTTP`, `MatchOrdered` and `MatchBySpecificity`, an iteration per step, and `applyHeaders` | `MCHeaderMatch` (the pools of rules, settings and requests), `HeaderMatchProofs` (theorems) |
| `RuleParser` | `scanLines` with the callbacks of `Parse` and `ParseRedirects`, and strict mode | `RuleParserProofs` (theorems) |
| `NaturalSets` | nothing of the code: induction over sets of naturals, and that recursive functions on them exist | `RuleParserProofs`, `PatternProofs`, and over it `RedirectMatchProofs` and `HeaderMatchProofs` |

The handlers' modules are composed through the pure ones: a file of compiled
rules, its patterns and templates and the guard are the same operators in both.
They meet the cache only in a compiled file, which a request keeps however often
the cache replaces it, so the cache's modules have versions in its place.

Definitions marked `variant` are the mutants of `PROJECT.json`: the definition
below each one changed as a plausible bug would change it. No specification
refers to them.

### FileHandler

`files`, `entry`, `mu`, `debounce` and `cleanup` are the fields of `fileHandler`;
`pc`, `at`, `ref`, `info` and `buf` are each goroutine's position, path, entry
pointer and locals. Requests step through `getCached` (`LookupMiss`,
`LookupDue`, `LockForCheck`, `LockFindsEntry`, `LockForNewEntry`), both kinds of
goroutine through `refreshLocked` (`Stat…`, `Load…`, `Restat…`), and `Unlock`,
`Publish` or `PublishEvicting` is the end of the critical section with the
eviction in it. Every wait, and every look at the file system, separates two
actions; what happens between them under `mu` is one.

- A file's `ver` is its content, its `stamp` what `os.Stat` can tell apart. A
  quiet rewrite changes the first alone. A half-written file is a version of
  its own, and so is any content that is `rejected`.
- `Chmod` makes a file readable that was not. Neither its stamp nor its version
  changes, so only `lastErr` makes a check load it again.
- Compiled rules are the version they were read from: what the parser and the
  compiler do with it is the subject of the other modules.
- A cache hit that is not due, and a lost compare-and-swap, change nothing and
  are no actions. What a request returns is the entry's `data` at that moment.
- Ages count ticks since `lastCheck` and stop at `MaxAge`. `addFileLocked`
  stores the time of the lookup, before the wait for `mu`, so
  `LockForNewEntry` may start at any age.
- A `Worker` is a debounce timer with the goroutine it starts. How many exist is
  a bound, `WorkerLeft`: an event is not delivered while none is free, which
  only delays it. Stopping a pending timer and starting another is the same
  timer, still pending.
- The hub is `subscribed`, the directories it lists this handler under.
  `HubForgets` is any of the ways it drops one for every handler.
- `torn` is history: no action reads it.
- `Collect` resets the entries nothing refers to, so that their addresses can be
  used again; without it every eviction would use one up.

`RuleCache` is the same without goroutines, entries and locks: the version of
its file that each cached path has, a version read and not yet stored, the paths
watched. Its actions say what is hard to see in the code: only what was read
from the file is stored, and of overlapping loads the later; only a missing file
drops rules; a full cache replaces one path together with its watch, and one
with rules only if all have some; nothing is watched after the end. `Cache` is
the mapping: the version read is in `buf` of the lock holder, and an entry not
yet published counts only for its watch.

### WatchHub

Everything under `h.mu` is one step; `Stat` is a step of its own, because
`subscribe` stats the path before it takes the lock. `dirs` and `watches` are
the maps, `call` the subscribe each handler is in. A handler makes one call at a
time since it holds its own lock.

- fsnotify is not in the repository. `fsn`, `FsnAdd`, `FsnRemove` and
  `FsnForget` follow what the comments of `watchhub.go` say of it: one watch per
  directory, events named by the first path added, and removing either path
  removes the watch for both. `fsn.on` is what `WatchList` returns.
- The map iteration of `detachLocked` that attaches the other paths again is
  written as what its result may be (`Leaders`): the paths that lead to one
  directory join one watch, named after any of them whose `Add` succeeded.
- The events of a closed watcher are gone with it, except that its loop may have
  taken one already and wait for `h.mu`. Such an event is in `late`, and
  `DropWatchLate` is `dropWatch` finding that `h.watcher` is another watcher, or
  none, by then.
- The stat and the `Add` of each other path in `detachLocked` are part of the one
  step: a path re-pointed between those two is not modelled, one re-pointed
  between the stat and the lock of `subscribe` is.
- The filter of the loop by file name and operation keeps no state and is left
  out: `TargetsFor` is what an event of the file in a directory leads to.

- `Subscriptions` is a set of pairs. `Promise` maps it to the handlers in
  `dirs`: a call changes the caller's subscription of that directory, except
  that one whose watch fails ends the directory for all, and no other handler's
  subscription is lost when shared watches are taken apart and put together.

### Pattern, HostPattern, PathAccess

A path is the sequence of its segments and a segment a short sequence of
characters, since `*` splits a segment. `Match` and `Capture` follow
`compiledPattern`, including the two directions of `walk`. `Reads` is the
reference: the path is the pattern's text with one segment for each
placeholder and any text for the `*`; it knows nothing of heads and tails.

- `FoldRune` is a table: letters with two variants, and `s`, which has a third
  outside ASCII. A character is one element whatever its encoding, so the byte
  counts of `foldPrefixLen` and `foldSuffixLen` are the same on both sides.
- `HostPattern` works on texts, since ports, userinfo and addresses are cut out
  of one; `https://` is one character of it. `HostReads` is the reference: a name
  or an address, then perhaps a port, on both sides. An IPv6 address is digits
  and at least two colons, and addresses are equal if their texts are.
- `PathAccess` has both uses of a path in front of the rules.
  `IsProtectedConfigPath` is modelled with its short cuts; `_s` stands for both
  names, a first character without case and one with a variant outside ASCII.
  `path.Clean` and `caddyhttp.CleanPath` are library functions. `ServedNames`, the
  reference, does not walk the path as they do: it says which segments no `..`
  behind them undoes.

### Template

A template has a part per literal character or reference. `ScanAt` is an
iteration of `compileTemplate`'s loop, with the context it keeps; the parts keep
where in a URL they are. A percent-encoded character is `%` and the character.
`UrlShape` is the reference: what a client sees of a URL's structure, which is
whether it has an authority, of how many labels, whether with userinfo, how many
parameters its query has, and whether there is a fragment.

### RedirectMatch

`RedirectMatch` compiles one rule per step into `exactRedirects`,
`byFirstSegment` and `anyFirstSegment`, then answers requests, one candidate of
the merge per step. The guard, the expansion and the response are part of the
steps around. The model ends at the argument of `http.Redirect`.

### HeaderMatch

Rules are compiled one per step into `exactPaths` and `wildcards`, and ranked
once: the place of a wildcard in `bySpecificity` is the number of those not behind
it, which is what a stable sort by score gives. The settings are those of the handler (`dedup`) and of the file system the
file was loaded from (`fold`, of `caseInsensitiveDir`; `windows`, of
`windowsPaths`). A request is answered one candidate per step: `UseExact` is the
merge of `MatchOrdered`, the order of `MatchBySpecificity`, and the loops for one
list only, which are the merge when the other is empty. The host is stripped of
its port once in `ServeHTTP` and again in `matchHost`, as in the code.
`ApplyHeaders` applies all operations at once: nothing else sees the response.
`headers` has the lines of each header, so that `Set-Cookie`, which is never
joined, is told apart from the rest. `EveryRuleInFileOrder` says what the code does
with other headers of several upstream lines: one that no rule speaks of keeps them,
and of one that some rule speaks of only the first line counts, as `Get` and `Set` have
it.

`OperationsInOrder` compares the answer with the compiled rules: whichever index a
rule is in, its operations stand where `Earlier` puts it, in file order or, with
dedup, by score with the exact rules last.

The other references are made from the texts of the rules (`Means`, `Asks`, `Said`), not
from the compiled ones: which rules concern a request, and what each says of
each header. With dedup, `NarrowestRuleWins` does not look at scores: a rule is
narrower than another if it matches fewer of the paths in `Probes`.

### RuleParser

A line is its length, whether it is indented, and the class of its text: `skip`
(blank or comment), `valid`, `invalid`, or `unsupported` (a redirect whose status
never fails strict mode). A line of length zero is blank, and the last one is not of
length zero unless a newline ends it (`EndsInBytes`). `ReadFails` is a read error at any byte of the file.
A line the limit or the error cuts may become another line, so `NextLine`
chooses its class. `Load` is `firstStrictError` and the decision of the load
functions. Limits of zero or less, which mean the defaults, and the `\r` of a
line end are abstracted from.

## Runs

Every passing run has a mutant for each of its properties, a change of one
definition that TLC must find; they are listed in `PROJECT.json`. The first run of
each module checks its `TypeOK` as well.

| Run | Bounds | Shows |
| --- | --- | --- |
| `handler_eviction` | 3 paths, cache of 2, 2 requests, no timers, 4 entries | `EveryWatchHasAnEntry`, `NoSubscriptionAfterCleanup`, `CacheBounded`, `LoadedRulesEvictedLast`, `ImplementsRuleCache` |
| `handler_reload` | 1 path, 2 requests, 2 timers, 2 changes, quiet ones too | `RulesNeverGoBack`, `SkipsOnlyCurrentRules`, `NoTimerAfterCleanup`, `ImplementsRuleCache` |
| `handler_liveness` | 1 path, 1 request, 1 timer, 2 changes, moves away and back | `RulesOutliveBrokenDeploys`, `FreshEventually`, `RequestsReturn`, `CleanupCompletes` |
| `handler_torn_restore` | as `handler_liveness` | finding: `TornLoadIsRetried` fails |
| `hub_structure` | 3 paths, 2 directories, 2 handlers, 2 changes, failing `Add` | `MapsAgree`, `OpenIffWatching`, `NoOrphanWatch`, `ImplementsSubscriptions` |
| `hub_recovery` | 3 paths, 2 directories, 1 handler, 3 changes | `EveryChangeIsHeard`, `WatchRecovers` |
| `hub_stat_race` | 2 paths, 2 directories, 1 handler, 3 changes | finding: `WatchRecovers` fails |
| `redirect_first_match` | files of up to 3 of 12 rules, 16 paths | `FirstMatchWins`, `AnswerReadsAsThePath`, `CapturesRebuildThePath`, `DestinationKeepsItsShape` |
| `redirect_repeated_name` | the patterns that repeat a name | finding: `LaterSegmentWins` fails |
| `header_rules` | every 2 of 16 rules and every 3 of 5, all settings, 16 requests | `ConfigFileIsRefused`, `RulesOfTheServedFile`, `OperationsInOrder`, `EveryRuleInFileOrder`, `NarrowestRuleWins`, `ValuesKeepTheirShape` |
| `parser_limits` | files of up to 3 lines, 3 lengths, sizes around the limit, 1 or 2 rules | `HeadersStayWithTheirPattern`, `NothingElseIsDropped`, `CutLinesAreNotTrusted`, `StrictLoadsExactlyCleanFiles` |
| `parser_long_comment` | as above | finding: `OnlyPatternsEndRules` fails |

Why the bounds are enough:

- Eviction needs a full cache and one more path: two and three. Two requests can
  both miss one path, or one can wait at `mu` while the other evicts its entry;
  four entries are the two published and one per request, so allocation never
  blocks. The reload races need a request and a timer, or two timers of one
  path, around one deploy during the load and one after it. Paths are
  independent there, so one is enough; entries are chosen with `CHOOSE` and are
  not in the symmetry set.
- The hub's structure needs two symlinks that may share a directory and a third
  path that leads to one of the two only (`d3`, a real directory), so that detaching
  a leader splits its paths. Two changes make them part and meet again; the
  recovery run has three, enough to move a directory away and re-point both
  symlinks.
- The redirect patterns have every bucket, a `*` alone, with text before, after and
  on both sides, and before and behind a placeholder; three rules are enough for
  one candidate of each of the three buckets in any order. Their destinations
  have references in a host, a path, a query, behind a `#` and behind a `\`; the
  paths have what structures a URL (`.`, `@`, `&`, `=`, `?`, `#`, `\`), an empty
  first segment and an empty value.
- Header rules interact through one header, so pairs of all rules show every
  order of two, and threes of the five that overlap most a removal between two
  values, or an exact rule between two others. There are exact rules that differ
  in case only, that set a header twice, and that set, remove and set it; a
  removal; a value that sets nothing; cookies; placeholders and the `*` in
  values with lists and attributes; hosts with userinfo, ports, placeholders and
  IPv6 addresses. The requests spell one path with dots, double slashes,
  backslashes and spaces, and the configuration file in several ways.
- With a limit of nine bytes and lines of none, two or three, three lines end
  before, at and behind the limit with and without a last newline; lengths two and
  three are at and over the line limit, and a line of none is only its newline.

What they do not bound: which steps interleave, where a file changes or a read
fails, and in which order map iterations go.

### Fairness

Safety is checked without any. `FairSpec` of `FileHandler` assumes:

- goroutines that can run do, and time passes (weak fairness);
- a goroutine waiting for `fh.mu` gets it: strong fairness of the lock steps,
  since a `sync.Mutex` is handed to the longest waiter after a millisecond;
- requests for every path keep coming (strong fairness of `Lookup`). Polling is
  driven by requests, so `FreshEventually` says nothing of a site nobody asks
  for. Events are assumed to be lost at will: no fairness of the hub. A file that
  was moved back stays out of `FreshEventually` (`MovedBack`): that is finding 1.

`FairSpec` of `WatchHub` assumes that handlers check every path again and again,
that a begun subscribe goes on, and that the loop takes its events.
`HubRecovery.cfg` sets `StatRaces = FALSE`: a path is not re-pointed between the
stat and the watch of one subscribe. That assumption is not the code's, and
`hub_stat_race` shows what happens without it; structure and safety in
`hub_structure` are checked without it.

### Findings

1. **A torn load can stick** (`handler_torn_restore`, `filewatcher.go:254`). With
   no rules to keep, a load the file changed during stores its rules but leaves
   `loaded` at the version before. If the file of that version is moved back, no
   later check sees a difference, so the "next check" that comment and log message
   promise skips. The change's watcher event, when it arrives, repairs it.
2. **Stat and watch of a re-pointed path** (`hub_stat_race`, `watchhub.go:60`). A
   path recorded with the directory it led to before makes two watches share one
   directory; removing one silences the other, which `subscribe` goes on taking
   for current. Polling still reloads.
3. **Repeated placeholder behind the `*`** (`redirect_repeated_name`,
   `pattern.go:190`). The tail is walked backwards, so there the earlier segment's
   value wins, not the later one's as the comment on `segments` says.
4. **An overlong comment ends a headers rule** (`parser_long_comment`,
   `headers_parser.go:118`). The callback for overlong lines takes every unindented
   one for a pattern and drops the headers below it.

## Proofs

The theorems hold for all values of the constants: any paths, entries, requests,
timers, directories, handlers, rules and files, and any limits. Nothing is assumed
but what the modelled modules assume of their constants, and TLC evaluates that
in every run of them.

| Module | Theorem | States |
| --- | --- | --- |
| `FileHandlerProofs` | `Typing` | `Spec => [](TypeOK /\ LocalInv)` |
| | `WatchesHaveEntries` | `Spec => []EveryWatchHasAnEntry` |
| | `CleanupIsFinal` | `Spec => []NoSubscriptionAfterCleanup` |
| | `CacheStaysBounded` | `Spec => []CacheBounded` |
| | `NoReloadAfterCleanup` | `Spec => []NoTimerAfterCleanup` |
| `RuleCacheProofs` | `RulesSurvive` | `Spec => RulesOutliveBrokenDeploys` |
| | `EmptyEntriesGoFirst` | `Spec => LoadedRulesEvictedLast` |
| | `RulesMoveForward` | `Spec => RulesNeverGoBack`, if `~Restores` |
| | `SkipsAreCurrent` | `Spec => SkipsOnlyCurrentRules`, if `~Restores` |
| | `HandlerImplementsRuleCache` | `Spec => ImplementsRuleCache` |
| `WatchHubProofs` | `HubTypes` | `Spec => []TypeOK` |
| | `HubMapsAgree` | `Spec => []MapsAgree` |
| | `WatcherOpenIffWatching` | `Spec => []OpenIffWatching` |
| | `NothingWatchedIsForgotten` | `Spec => []NoOrphanWatch` |
| | `ChangesAreHeard` | `Spec => []EveryChangeIsHeard`, if `~StatRaces` |
| | `HubImplementsSubscriptions` | `Spec => ImplementsSubscriptions` |
| `PatternProofs` | `PatternMeaning` | `Match(CompilePattern(raw), path) <=> Reads(raw, path)`, if `raw` has at most one `*` and no placeholder has it, and no segment has a slash |
| `RedirectMatchProofs` | `RedirectTypes` | `Spec => []TypeOK` |
| | `FirstRuleAnswers` | `Spec => []FirstMatchWins` |
| | `AnswerMeansThePath` | `Spec => []AnswerReadsAsThePath` |
| | `CapturesAreThePath` | `Spec => []CapturesRebuildThePath` |
| `HeaderMatchProofs` | `HeaderTypes` | `Spec => []TypeOK` |
| | `OperationsAreInOrder` | `Spec => []OperationsInOrder` |
| | `ConfigFileRefused` | `Spec => []ConfigFileIsRefused` |
| | `RulesMatchServedFile` | `Spec => []RulesOfTheServedFile` |
| `RuleParserProofs` | `ParserTypes` | `Spec => []TypeOK` |
| | `HeadersStay` | `Spec => []HeadersStayWithTheirPattern` |
| | `CutLinesFailStrictMode` | `Spec => []CutLinesAreNotTrusted` |
| | `NothingElseDropped` | `Spec => []NothingElseIsDropped` |
| | `StrictIsExact` | `Spec => []StrictLoadsExactlyCleanFiles` |

Of the constants they use: `ConstantsAssumption` (`Nil` is nothing else, requests
are not workers, the paths are finitely many since their cardinality is counted,
the limits are natural numbers); `HubAssumption` and `NilAssumption` (the nil
pointer is no object); `RedirectAssumption` (a rule file is a list of rules,
patterns and destinations are what the parser accepts, patterns and paths what a
text is when cut at its slashes: `IsSplit`); `HeaderAssumption` (a request path is
a list of texts and starts with a slash); `RuleAssumption` (rule files are lists of rules, whose patterns and
operations are those the parser makes); `ParserAssumption` (limits are positive and
lengths natural numbers). Three theorems have the hypothesis of their run, and need it: a file put
back as it was makes rules go back and a load skip it (finding 1, for
`Restores`), and a path re-pointed inside a subscribe silences a watch
(finding 2, for `StatRaces`). TLC finds both.

Hardly any of the properties is inductive. The conjuncts that make them so are
defined in the modules of the proofs, each with its reason; TLC checked
those it can evaluate before they were proved.

### FileHandler

That a subscription can always be found again is `IndInv`:

- `LockInv`: a goroutine is at a point inside `fh.mu` exactly if it holds it. So
  there is one at most, and what the others do leaves its entry alone.
- `LocalInv`: what each goroutine has at each point (its path, its entry). It is
  proved with `TypeOK`, which needs it: an entry is written through `ref[t]`.
- `PublishedInv`: no entry is published under two paths, and the one a request works on
  inside the lock is its path's or is not published. Without it, clearing
  `watched` of an evicted entry might clear another path's.
- `CleanupInv`: once `Cleanup` returned, no goroutine is between the check of
  `closed` and the hub. `UnsubscribeAll` needs `mu`, so nobody is inside then,
  and whoever enters later reads `closed`.

`TypeStep`, `LocalStep`, `LockStep`, `PublishedStep`, `WatchStep` and
`CleanupStep` each prove one conjunct preserved, with a step per action;
`Inductive` combines them. `CacheBounded` is preserved by itself given the types:
`FilesStep` shows that only a publish changes `files`, `BoundStep` counts.
`NoTimerAfterCleanup` needs `TimerInv`: a pending timer is the one that `debounce`
names for its path, so stopping what `debounce` has stops all.

What an entry holds needs more, because goroutines keep a pointer to it while it is
evicted and its slot used again. `OwnerInv` says that an entry anybody refers to
is that path's for all of them, and is not published under another; `BufferInv` that
data is in a buffer between the read and the second stat only. From both,
`EntryStep` names the steps that replace the rules of an entry somebody refers
to, and the action properties are read off it. `RulesNeverGoBack` and
`SkipsOnlyCurrentRules` also compare versions: `VersionInv` says that, with no
old file put back, no entry and no load in progress is ahead of the file, that
what the lock holder has read is not behind the entry it will store it in, and
that no rules are older than the version recorded with them.

`HandlerImplementsRuleCache` maps the initial state and then every action: the
`...Quiet` lemmas say what leaves the mapped rules, the mapped buffer and the
mapped watches alone, so that a step of a goroutine outside `mu`, a wait or a
stat is a stutter, and the rest is one abstract action each. It needs
`RefinementInv`, the invariants above, for the mapping reads entries through
`files`, and a value read through the pointer of the lock holder.

### WatchHub

`StructInv` is `TypeOK`, `MapsAgree`, `OpenIffWatching` and `NoOrphanWatch`
together: detaching a watch finds its paths through `watches` and attaching reads
`dirs`, so no one of them is preserved without the others. `Leaders` is treated
by what it promises of the result, for any set of paths and any failing `Add`.
`EveryChangeIsHeard` needs `FsnInv` (fsnotify watches the directory the hub
recorded and names events after the hub's own watch; a watch fsnotify dropped
has its event still to come) and `CallInv` (a subscribe acts on what the path leads
to now), which is where `~StatRaces` enters. The refinement is proved from
`StructInv` alone, races or none.

### Pattern

`PatternMeaning` says that compiling and matching do what the text of a pattern
says. It has no state; its induction is over sets of numbers, like the others.

- `Reads` speaks of texts, `Match` of segments. `SlashedInjective`: a text with a
  slash before each segment determines its segments, as none has a slash in it. So
  a filled pattern without a `*` has the text of the path exactly if it agrees in every
  segment (`StarlessFill`, `StarlessReads`).
- `OneStar`: a pattern the parser accepts has no `*` or one, at one place of one
  segment. The `*` splits the text, and `BetweenAffixes` and `AffixesBetween` say
  that what compilation keeps on both sides, an affix within the segment and the
  segments before and behind it, are just the conditions that `walk` tests.
- `StarredFill`: if they hold, the path's text between head and tail is what fills
  the `*`. `StarredReads`: whatever fills it, with slashes of its own or none, leaves
  a path that `walk` accepts.

### RedirectMatch

`IndexInv` says that each bucket lists, in file order, the rules indexed so far that
belong to it; `MergeInv` that, while buckets are merged, every rule that
matches is the exact match, behind it, or still in a bucket. The first holds
because the three kinds of bucket partition the rules; the second because a
taken candidate that matched would have ended the merge. What remains are two
facts about patterns: an exact rule matches only its own key, and a path that a rule
matches starts with the rule's first segment. Both are proved from the
definition of `Match`, by cases over head, splat and tail.

`AnswerMeansThePath` is `FirstMatchWins` read with `PatternMeaning`: of the rule that
answers, and of all before it. `CapturesAreThePath` needs the places as well:
`CaptureInv` says what is captured, and `StarlessValue` and `StarredValue` that, as
long as no name repeats, the value of each placeholder is the segment of the path that
`StarlessFill` and `StarredFill` put there.

### RuleParser

`Offset`, the byte each line starts at, is a recursive function. That it exists and
never falls is proved by induction in the form of sets (`SetInduction` of
`NaturalSets`, from the library's well-foundedness of the naturals), since none of the provers takes
a theorem about predicates. On it rest `ScanInv` (the scan is at the end of a line
or in the one an error cuts), `CurrentInv` (which rule the next line stands
under), `RulesInv` and `HeadersInv` (as long as no cut line was used, rules and
headers are those of the lines read) and `WarnInv` (warnings say exactly what
was dropped so far, and at the end of the whole file). `OrderInv` says that the
headers of a rule are in file order. `Owner`, the pattern a
header stands under, looks back over the lines, the parser goes forward with
one variable; `CurrentInv` is that both agree except below what was rejected.

### HeaderMatch

`ConfigFileRefused` and `RulesMatchServedFile` compare two readings of one request
path: the code walks it, the reference says which segments no `..` behind them
undoes.

- `UncleanOrServed`: `Clean` has exactly the names the reference keeps. For a
  segment to be undone, the `..` behind it must outnumber the names between them;
  `Level` counts this, and `AlwaysBalanced` is the induction over the segments:
  behind each name kept so far, as many names are kept as its level says. So the
  last name `Clean` holds is the one that the next `..` undoes for the reference
  as well. `NamesAreKept` is the case of a path without dots, which `ServeHTTP` does
  not clean: it is its own names.
- `GuardIsExact`: the two short cuts of `isProtectedConfigPath` lose nothing. What
  Windows reads of a segment is a part of one of its pieces (`SplitAt` at a
  backslash, trailing dots and spaces off), so a path that names the file has a
  segment the short cuts notice (`ConfigIsNoticed`), also where case folding leaves
  ASCII.
- `AnsweredInvariant` and `MatchedInvariant` carry the decision and the path taken at
  `ServeHTTP` through the candidates to the response.

`OperationsAreInOrder` is about the indexes. `Ordered(list, members, R)` says that a
list has the members of a set, each once, in the order `R`; of appending to such a
list and of taking its first there is a lemma each.

- `Indexed`: every rule compiled so far is in exactly one list, that of its key or
  `wildcards`, in file order, and `bySpecificity` has the wildcards in the order of
  their scores. `RankedInOrder` shows the last for any linear order of a finite set:
  as many are not behind an element as its place says, so every place has one.
- `Collected`: the operations are those of the rules taken so far that match, in
  order, and whatever is left in the two lists is behind them. `TakesExact` and
  `TakesWildcard` show that the candidate taken is before all that is left, in both
  orders. That the list of one key leaves out no exact rule is `ExactMatchesKey`: such
  a pattern matches a path exactly if their keys agree, folded or not.
- `HeaderTypes` adds `Kinds`: merging, expanding and applying keep the operations
  operations (`MergedType`, `ExpandedOps`), on headers that are known
  (`HeadersStay`).

`NaturalSets` gives the inductions, as for the parser, and that the recursive
function exists in which `FlattenSeq` joins the pieces; of `Clean`'s own function the
list of the names kept so far is the witness.

### Checked by TLC only

- Liveness (`RequestsReturn`, `CleanupCompletes`, `FreshEventually`,
  `WatchRecovers`): out of the prover's reach.
- `EveryRuleInFileOrder`. Proved is that the operations are those of the rules that
  match, in order (`OperationsAreInOrder`). That these are the rules whose text names
  host and path is not: `HostReads` and the reading of a header's text are left to TLC,
  and a path is a decoded text, in which a percent-encoded `:` or `*` may come out as
  one, so `PatternMeaning` does not hold of every pattern of a header rule.
- `NarrowestRuleWins`. No theorem would hold for all rules, since the score decides;
  TLC checks that it agrees with the sets of paths for the patterns people write.
- `DestinationKeepsItsShape` and `ValuesKeepTheirShape`. Nor are these true of all
  texts (a destination may end in `%` before a reference).
- What `HostPattern` and `Template` compute against their references.

## Not modelled

- Configuration and registration (`directives.go`, `Provision`,
  `UnmarshalCaddyfile`): nothing there changes later. `caseInsensitiveDir` is one look
  at the file system whose answer is the `fold` setting.
- Unicode: `FoldRune` has a few letters of each kind. Characters whose case
  variants have encodings of other lengths are one element here, so the byte
  arithmetic of the folded affixes is not checked.
- The library: `net.ParseIP` (two spellings of one address), `url.PathUnescape` of a
  slash, canonical header names, what `http.Redirect` makes of its argument.
- Locks other than `fh.mu`. `debounceMu` and the hub's lock are held for one step
  each and wait for nothing inside, so their sections are single actions. Only of
  `fh.mu` do `RequestsReturn` and `CleanupCompletes` show that nobody keeps it.
- Logging, the texts of warnings, and what `applyHeaders` leaves to later handlers.

Some statements that may look natural are not claimed, since the code does not
promise them or decides otherwise:

- that rules never go back when an entry is evicted and added again (another
  load may have stored newer rules in the entry that is gone);
- that no event is lost during the first load of a path (the entry is not
  published yet, so the reload finds none; polling repairs it);
- that a redirect is matched against a cleaned path: `MatchFirst` takes the path
  as it came, only `static_headers` cleans it;
- `ConfigFileIsRefused` reads a path the way Windows does, on every system. It
  does not say that the guard covers the reading of other file systems as well;
- a pattern whose host is empty once userinfo and port are cut off has no host
  constraint, as one that is only a path;
- `NarrowestRuleWins` compares rules that match different sets of paths of which
  one includes the other, and rules of equal sets by file order. Of others the
  score decides;
- `DestinationKeepsItsShape` is checked of destinations without quotes, angle
  brackets and references in the authority of a `//host` destination.

## Plan

Everything that keeps state is modelled. Every safety property of the handler, the
hub, the parser and the first match is proved except `DestinationKeepsItsShape`; of
`HeaderMatch` the guard, the path that is matched and the order of the operations
are. What is left would be `HostPattern` against `HostReads`, and with it the
half of `EveryRuleInFileOrder` that is about hosts. The rest of what TLC checks alone
does not hold for every value of the constants, or is liveness.
