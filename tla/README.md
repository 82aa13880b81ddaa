# Verification of ferro-protect

TLA+ models of [ferro-protect](../src/README.md), a Rust client library for the
UniFi Protect integration API (`crates/ferro-protect`) and its command line
(`crates/ferro-protect-cli`), with TLC configurations that check them on small
instances and TLAPS proofs of what matters most for every instance.

Paths below are relative to `src/crates/ferro-protect/` (library) or
`src/crates/ferro-protect-cli/` (CLI). `PROJECT.json` names, for every
definition that models code, the lines it stands for.

## 1. The system

| Part | State it keeps | Operations | Interacts with |
|---|---|---|---|
| Proactive rate limiter (`rate_limit.rs`) | one GCRA cell (`Arc`), shared by all clones | `quota`, `handle` (`until_ready`, then the rest of the stack) | every attempt of every call; the clock; governor |
| Retry middleware (`retry.rs`) | a counter per call | `handle` (loop: send, decide, drain, sleep), `decide_retry`, `backoff_for`, `is_transient` | the limiter below it, the server's status and `Retry-After` |
| Client and stacks (`client.rs`) | two middleware stacks over one `reqwest::Client` and one limiter | `build`, the six HTTP helpers, `json_response` | application tasks (clones of the client run concurrently), the server |
| Error mapping (`error.rs`) | none | `from_response`, `From` conversions | the helpers |
| Endpoints (`cameras.rs` and the other entities) | none | one helper call each; `streams_in_request_order` | the helpers, the commands |
| Spec rewriting (`build_support/spec_rewrite.rs`) | a JSON tree | lift, relax, then the rules of `descend` | `build.rs`, typify |
| CLI entry (`main.rs`) | none | load, resolve, logging, key, client, dispatch | everything below |
| Configuration (`config.rs`), key (`api_key.rs`), logging (`logging.rs`) | files, environment | discovery, validation, precedence | `main.rs` |
| `config` commands (`commands/config.rs`) | the config file and its temporary sibling | `show`, `path`, `template` | the file system, other processes |
| Entity commands (`commands/*.rs`) and output (`output.rs`) | the buffer of stdout; the file of `cameras snapshot --out` | refuse, fetch, `emit`/`emit_stdout`, `write_snapshot` | the endpoints, std's `LineWriter`, whoever reads stdout, the file system |

How they interact: an application task calls a method of a client clone; the
method calls one helper; the helper sends its request into one of two stacks.
The stack for reads is *retry loop → limiter → reqwest*, the one for mutations
*limiter → reqwest*, with the retry loop around it only after
`retry_on_mutations`. Both stacks hold the same `Arc` of the limiter. The CLI
makes one client per process, after it has read the config file once.

What is hard:

* **Limiter.** It is consulted concurrently, and a clock reading may be stale by
  the time the cell is updated. No run of permits may exceed rate and burst, no
  permit may be lost, and waiting callers must get through although nobody queues.
* **Stacks.** Every attempt, retries included, must pay its own permit, which
  depends on the order in which the middlewares are stacked.
* **Delivery.** A request may be carried out although its answer is lost or late,
  so a retry may repeat an effect. Mutations must not be repeated unless asked
  for, and what a method returns must be what the server did.
* **Progress.** Every call must return although server and network owe nothing.
* **Configuration.** Three walks over flags, environment and file (in
  `config.rs`, `api_key.rs` and `logging.rs`) must agree with each other, while
  the files change under the process.
* **`config template`.** A multi-step write that may be killed anywhere, next to
  other invocations, the user's editor, and a disk that reorders.
* **Output.** Text passes a buffer whose last flush nobody checks, into a pipe
  that may close at any write; a snapshot is written in place, next to other
  writers, and may be killed half way. An exit code of 0 must be believable.
* **Spec rewriting.** Rules that make and destroy the shapes which other rules
  look for, applied in one traversal.

`PROJECT.json` lists each hazard at its line with the properties that cover it.

## 2. The modules

| Module | Models | Checked by | Proved in |
|---|---|---|---|
| `RateLimiter` | `rate_limit.rs` and governor's loop | `MCRateLimiter` | `RateLimiterProofs` |
| `Retry` | the decisions of `retry.rs` | through `ProtectClient` | `ProtectClientProofs` |
| `ProtectClient` | the calls, both stacks, server and network; EXTENDS `Retry`, INSTANCE `RateLimiter` | `MCProtectClient` | `ProtectClientProofs` |
| `CallContract` | the abstract promise of a method call | through `ContractSpec` | `ProtectClientProofs` |
| `Commands` | what the commands do with the library's answer: `commands/`, `output.rs`, `cameras.rs`; INSTANCE `CallContract` | `MCCommands` | `CommandsProofs` |
| `ConfigTemplate` | `config template` and the file system | `MCConfigTemplate` | `ConfigTemplateProofs` |
| `CliRun` | `main.rs`, `config.rs`, `api_key.rs`, `logging.rs`, `config show`/`path` | `MCCliRun` | `CliRunProofs` |
| `SpecRules` | `build_support/spec_rewrite.rs`: what is done to one JSON object | through `SpecRewrite` | `SpecRewriteProofs`, `SpecMeaningProofs` |
| `SpecRewrite` | `build_support/spec_rewrite.rs`: the passes over a document; EXTENDS `SpecRules` | `MCSpecRewrite` | `SpecRewriteProofs` |
| `SpecMeaning` | what the schemas of a document mean, and what the passes may do to it; EXTENDS `SpecRewrite` | `MCSpecRewrite` | `SpecMeaningProofs` |

`SetInduction` is a library for the proofs: induction over the naturals in terms
of sets, and what follows for recursive functions.

**RateLimiter.** `tat` is the cell (the theoretical arrival time of the next
request), `reading` the clock value a caller took, `wake` its timer. The loop of
`until_ready` is three actions because three things can happen in between:
`ReadClock`, the decision on the cell (`Grant` or `Deny`; the compare-and-swap is
atomic), and `Wake`. `log` is history: the granted readings in order. Time is in
ticks; the code counts nanoseconds, and `CellPeriod` truncates as `per / rate` does.

**Retry.** `RetryDelays(result, attempt)` is the set of delays `decide_retry` may
return; the empty set is `None`. Jitter is a choice. `ShlBits` is the width of
the factor `2^attempt`, 32 in the code.

**ProtectClient.** Each call is at one point `pc` of its way: `start`, `limiter`,
`send`, `inflight`, `drain`, `backoff`, `body`, `done`. `Issue` is the helper
building its request and `RejectUrl` the return before there is one, when the path
does not join the base URL; `EnterInnerStack` and `HasRetryLayer` are the two stacks;
`Permit`/`WaitForPermit` are the limiter's own actions, taken by the call;
`AttemptEnds` is the whole of what the retry loop does with a result. The server
(`Answer`, `ServeUnheard`) may carry a request out and answer, answer a 5xx with
or without having carried it out, carry it out long after the client gave up, or
never. `wire` holds the requests it may yet see.

**CallContract** has no clock, stack or network: a call may take effect at most
`budget` times and returns once with `ok`, `refused` or `unknown`, where `refused`
of an unretried call promises that nothing was or will be done. `ContractSpec` is
`CallContract` under the refinement mapping at the end of `ProtectClient`
(`budget` from helper and policy, `AbstractOutcome` for the outcome).

**ConfigTemplate.** An invocation is one action per system call (check, open,
write, sync, rename, and the removal after a failed rename). Files carry who
wrote them, whether they are complete, private and synced. `onDisk` is the
directory as last written out: a power loss falls back to it or to the current
one, and spoils data that was not synced. Process ids are reused.

**CliRun.** One shell session: commands one after the other, each from its
command line to the request. `Start`, `LoadConfig`, `ResolveConfig` (resolve and
logging), `ReadKeyFile` or `TakeRawKey`, `WarnIfReadable`, `Send` (with what the builder refuses, `BuildError`); `ShowConfig`
and `PrintPath` are one step each because they read one file once. The user may
change any config or key file between any two of them. Values are names; a value
that is set but empty is `Blank`, which the sources treat differently.

**Commands** takes over where `CliRun` has dispatched. The library call is an
instance of `CallContract`: `Request`, `Serve` (the effect, also a late one) and
the fetches move `effects`, `budget` and `outcome` as the contract allows, so that
the composition with `ProtectClient` rests on its refinement. Output is counted
in units: `Emit` queues the calls of `write_all` that `emit` makes, `Write`
hands one to `LineWriter` (`DeliveredWith`: everything up to its last newline leaves,
the rest stays if it fits), `WriteFails` delivers any part of it and fails,
`Finish` exits, after which the last flush may deliver nothing. The file of `--out` is
`CreateFile` (which truncates), `WriteFile` per `write(2)`, and
`FileWritten`; the file remembers who wrote each unit, and a hole that a
truncation under another writer leaves. `Kill` may end an invocation anywhere.
`StreamsInRequestOrder` is the order of `rtsps` streams.

**SpecRules** and **SpecRewrite.** A JSON value is a one-field record per kind.
The rules of `descend` are operators on the map of one object, composed in the
code's order (`RewriteObject`); `DescendInto` is one step of the traversal. The
passes of `rewrite` are the three actions of `SpecRewrite`. `Stripped` says what
is left of a string without its other characters than ASCII letters and digits, so
that `+` and `-` make one identifier, and `a-b` and `ab`. `Indigestible` is
what the comments of the rules say must not reach typify (`spec_rewrite.rs:20-27`,
`107-110`), whatever stands beside it, and not what the rules test for; `OutOfReach`
names the three shapes of the input in which the code leaves some of it (section 4).
Three abstractions change nothing that is stated here: a reference is a bare name,
of which `LiftedName` need not take the last segment; a document without
`components.schemas`, on which `lift_inline_one_or_array_refs` returns at once, is
none of `Specs`, as the build stops there; and `Preprocess` walks the schemas and
not the rest of the OpenAPI document, of which the generator takes nothing. A walk is a function on the values that it meets (`Nodes`, `RewriteNodes`),
which are collected level by level, `Depth` levels down, so that the walks can be
reasoned about. The constants are constrained by two assumptions that TLC
evaluates too: the documents are JSON and nest less than `Depth`
(`SpecsAssumption`; serde_json itself stops at 128), and no schema has the name of
a keyword that a rule changes (`NamesAssumption`). `Preprocess` also waits for
`ShallowRewrite`: the rules add a few levels of their own.

**SpecMeaning** is an independent definition of what schemas mean, against which
the passes are judged. `Says` is what one object of a schema demands of a JSON
value, keyword by keyword; an object whose keywords have values of other kinds
than JSON Schema gives them is no schema (`IsSchema`) and accepts nothing. As schemas refer
to each other and to themselves, `Accepts` counts steps: a schema accepts in `n`
steps what its object demands if its subschemas, and the schemas it refers to,
accept in fewer. What a schema means is what it accepts in some number of steps. It is a
function on the naturals and no recursive operator, so that it can be proved
about. The properties say how the number of steps moves: a lifted pattern costs
one reference more, an alternative in place of a type array one subschema more.
The constants are constrained by four assumptions, which TLC evaluates too: the
values compared are JSON (`InstancesAssumption`), `Steps` is a number, appending
`OrArray` keeps names apart (`EndingAssumption`, true of strings and needed because
the prover knows nothing of them), and the members of `enum` and `const`
are scalars, and no property is called `const` (`ConstantsAssumption`). The last
is a hypothesis about the published documents: the rules would rewrite constants that are objects, and rename the
property, the hazard at `spec_rewrite.rs:48`.

## 3. The runs

| Run | Question | Instance |
|---|---|---|
| `limiter` | Do grants conform to rate and burst, is nobody held back or overtaken without cause? | 3 callers, burst 2, a period that the rate does not divide, arrivals until time 4: callers are denied, sleep, are overtaken, and repeat (45,721 states) |
| `limiter_window` | Is it `rate` requests per rolling window? (no) | 3 callers, rate 2, period 4 |
| `client_concurrent` | Effects, permits, Retry-After, use of the limiter, return | 2 calls, each a read or a mutation, 1 retry, a bucket of one, statuses 200/429, a refill slower than the backoff, attempts that may time out at any time (502,567 states) |
| `client_outcomes` | What a method returns; the schedule of its sleeps; the contract; return | 1 call through each of the six helpers, 3 retries: the cap bites at the second, the width of the factor at the third; each class of status (204,243 states) |
| `client_body_timeout` | Is every read timeout of a retried call retried? (no) | 1 read, 1 retry |
| `cli_start` | Do flags, environment and files combine as promised under edits? | 7 command lines, 6 environments, 9 config and 6 key file contents, 2 edits (298,292 states) |
| `template` | Is the config file whole, private, installed? | 2 invocations, 2 reusable ids, faults, kills, power loss, edits (41,618 states) |
| `template_race` | Is an existing file kept without `--force`? (no) | 1 invocation and the user, no faults |
| `commands` | Can exit code 0 be believed, is the old snapshot kept, are streams ordered? | every command with its flags; 2 invocations when both write one file; a buffer of 2 units, texts and images below and above it (192,190 states) |
| `snapshot_tail` | Does an output error of a snapshot always surface? (no) | one request with a buffer of the same size |
| `spec_rewrite` | Do the passes keep or relax the meaning, and leave nothing of what their comments promise to keep from typify? | one schema with every combination of the keywords, and with `oneOf`, in three positions (6,098 documents, compared on 26 JSON values, 5 steps) |
| `spec_existing` | Does a spec's own `…OrArray` schema win? (no) | 2 documents |

*Why the bounds suffice.* Limiter: a denial needs burst + 1 callers, an overtaken
caller one more wake-up; the proofs remove the bound. Client: two calls are what
it takes to contend and to interleave effects; more retries are needed only for
delays that differ, and are in `client_outcomes`. `MCTick` lets the clock run only
while a timer is pending, which bounds it and removes no order of events, as every
guard compares a deadline with the clock. CliRun: one edit makes a version
differ from the one loaded, two let the key file and its mode change apart. Template:
one process to leave something behind, one to find it. Commands: the buffer
matters only by whether a tail fits in it, and the lengths lie on both sides; two
writers are what it takes to mix a file; three requested qualities give every
order, repetition and gap. Spec rewriting: the documents nest less deep than
`Depth` = 12, also when rewritten, so that every one of them reaches `done`, and
each keyword meets each other in every position. `Steps` = 5 is more than any of
them takes to reach its innermost schema, through properties, `allOf` and a
reference; the proofs remove both bounds. The `SYMMETRY` in `limiter_window` is over
callers that its property does not tell apart; no run with a liveness property has
one. `retry_on_mutations` is off in the runs of the client: with it a mutation goes
through the stack that the reads go through, and the proofs are for both values.

*Deadlock* is checked everywhere but in `spec_rewrite`/`spec_existing`, which
end with the build. In the runs of client and limiter the
end is an explicit `Quiescent` step: a state that is stuck with a call underway
is a deadlock.

### What the properties say

* `Conformance` – any run of grants beyond a burst is paid for by time between
  their readings. `DebtBounded` – no queue of promises. `HeldBackOnlyWhenSpent`
  – nobody waits while a permit is left.
* `PermitPerAttempt` – the permits can be dealt out to the calls so that each has
  as many as it has made attempts: none is shared, and none is taken for nothing.
* `EffectsBounded`, `OutcomeTruthful` – see section 1. `RetryAfterHonoured` – of a
  429: the code looks at the header of no other status. `LimiterSpec` and
  `ContractSpec` are the refinements.
* `GivesUpOnlyExhausted` – judged by what reaches the caller: a retried call that
  returns with retries left was last answered with no status that is retried (429,
  408, 5xx), and what it returns is no timeout and no failure to connect, unless
  that hit the body, which is read outside the retry loop. What the documentation
  says, without that exception, is `ReadTimeoutsRetried` and violated (finding 5). A
  connection that breaks is not retried at all and not claimed to be (section 4).
* `NeverBelowSchedule` – unless the server says how long, no delay is below what the
  schedule without jitter gave any earlier attempt of the call, also where
  `2^attempt` leaves its width. It does not say that delays grow: once the cap is
  reached, the jitter alone decides, and a delay of cap + 90 ms may be followed by
  one of cap + 10 ms.
* `SuccessMeansDone` – exit code 0 means that the server carried the request out
  and that every unit of a text, or of a file, was delivered, although nobody
  checks the last flush. `OldSnapshotKept`, `NoRemains` – the file of `--out`
  survives whatever fails before the image has arrived, and then holds nothing of
  an older or killed writer. `StreamsAsRequested` – each requested stream that the
  server made, once per request of it, in the order of the request.
* `TargetWhole`, `NeverWidened`, `ForceInstalls` – after any crash the config file
  is whole; a private one is not replaced by a readable one; `--force` is not
  stopped by leftovers.
* `OneVersionUsed`, `ShownIsUsed`, `ConflictRefused`, `LaxKeyWarned`,
  `NamedFileUsed` – a request follows from one version of the config file,
  `config show` told the truth about it, host and base_url never both apply, an
  exposed key file was warned of, a named file was not silently skipped.
* `LiftExact`, `OnlyRelaxed`, `RefsResolve`, `TypifyReady` – lifting keeps the
  meaning, nothing is made stricter, no reference dangles, one traversal suffices
  to remove what the comments promise to remove (but for the three shapes of
  section 4). The first two exclude
  documents that define a lifted schema themselves (finding 4), `LiftExact` also
  those that refer to one without defining it: lifting gives that reference a meaning.

### Fairness

`MCFairSpec` of the limiter and the client: the executor polls every runnable
call, timers fire, and the clock runs (weak fairness of `Tick` and of each
caller's own steps). This is what tokio provides. Server, network and application
owe nothing: `Answer`, `ReadBody`, `Issue` and all failures are unfair, so that
`EveryCallReturns` rests on reqwest's timeout alone. `EveryCallerGranted`
needs arrivals to end: with an unbounded stream of newer callers the loop of
`until_ready` guarantees nothing to any one of them. `FairSpec` of
`ConfigTemplate`: a process that is not killed makes its next system call.

## 4. Findings

1. **Rolling window** (`limiter_window`): the GCRA lets a full bucket plus the
   window's refills through, up to `2 * rate - 1` requests in one window of `per`
   (`WindowBoundedHolds` proves that it is never more), where ARCHITECTURE.md
   pins it to the server's 10 per rolling second. The documents also disagree with
   each other: `rate_limit.rs:45-46` says that `per` is "not a strict rolling-window cap".
2. **The end of a snapshot** (`snapshot_tail`): `write_snapshot` does not flush
   (`commands/cameras.rs:200`), so what follows the last newline byte of the image
   leaves at process exit, where an error is ignored: the command exits with 0
   and the image is cut, although `run` is documented to bubble up any I/O error
   of printing (`commands/cameras.rs:108-110`).
3. **`config template` without `--force`** (`template_race`): a file that appears
   between the existence check and the rename is replaced.
4. **A spec that defines `viewerIdOrArray` itself** (`spec_existing`): when it has
   the shape that is lifted, it ends as a `$ref` to itself, where the comment
   says that it wins. The same happens to a document that is rewritten twice.

5. **A read timeout within a body** (`client_body_timeout`): the retry loop decides
   when the headers are there, and the helpers read the body after the stack has
   returned (`client.rs:222`, `235`), so that a timeout there surfaces at the first
   attempt. `client.rs:45`, `retry.rs:19` and ARCHITECTURE.md:299-301 say that
   read timeouts are retried.

Observed while modelling, without a run:

* `Retry-After` is honoured for a 429 only (`retry.rs:106-125`); the documentation of
  `ProtectClient` says 429 and 5xx (`client.rs:82-83`), that of `RetryConfig` names no
  status (`client.rs:45-49`). A hint is slept in full, whatever `max_backoff`.
* A connection that is reset while the response is awaited is not retried
  (`is_transient`, `retry.rs:149-164`: only timeouts and failures to connect), where
  `retry.rs:19` says that network errors are.
* A snapshot to a terminal is refused only after the image has been fetched
  (`commands/cameras.rs:193`).
* `cameras rtsps` for which the server makes no stream prints an empty result and
  exits with 0.
* `config path` prints with `println!`, which panics on a broken stdout where the
  other commands return an error.
* Two `cameras snapshot --out` on one path write over each other: the file may mix
  both images or have a hole (`NoRemains` excludes exactly this case).
* `Error::Json` is documented (`client.rs:118-119`, `error.rs:33`) but never
  built: reqwest's `json` reports a wrong shape, which becomes `Error::Http`
  (`client.rs:235`).
* When the body of the last error response breaks off, the caller gets
  `Error::Http` and the status is lost (`error.rs:56`; compare `retry.rs:29-31`).
  The body is read outside the retry loop.
* The jitter is added after the cap, so that a sleep may exceed `max_backoff` by
  99 ms (`retry.rs:143`, `client.rs:48-49`).
* `config show` prints an `api_key_file` that a command does not open when
  `UNIFI_PROTECT_API_KEY` is set (`config.rs:409-411`), and `config show`/`path`
  ignore `UNIFI_PROTECT_JSON` and `json` of the file (`main.rs:199-203`).
* `cameras snapshot --json --out PATH` is refused with a message that recommends
  `--out` (`commands/cameras.rs:157-163`).
* A log variable that is set but empty hides the sources below it, unlike every
  other variable (`logging.rs:104`).
* The rules of `descend` also apply to `properties`, whose keys are names: a
  property called `const` would become one called `enum` (`spec_rewrite.rs:48`).
  A schema called `const` would lose its name, which `NamesAssumption` excludes.
* Three shapes of the input leave `descend` with something that its comments promise
  to remove (`spec_rewrite.rs:22-27`, `107-110`). `TypifyReady` excludes them
  (`OutOfReach`; of the third also the enums that have another value after the two):
  * `flatten_singleton_all_of` looks at an object before its parts are traversed: of
    `allOf: [{allOf: [{$ref}]}]` only the inner one collapses, and a singleton
    `allOf` of a reference is left.
  * A type array with `"null"` beside an `anyOf` or `oneOf` of the spec's own stays as
    it is (`spec_rewrite.rs:63-65`).
  * An enum with two strings of one name survives unless its type is `"string"` and
    strings are all it has before the second of them (`spec_rewrite.rs:120-126`). So
    it does in a schema of type `["string", "null"]`, as the type array has been
    expanded by then, and so does `["+", null, "-"]`: nullable enums, although the
    comment says of such strings that typify panics.
* A one-or-array pattern that appears only once an inner singleton `allOf` is
  flattened is not lifted, as lifting comes first.

## 5. The proofs

All theorems are for arbitrary constants under the named assumptions in the
modules that declare them: `RateAssumption`, `PerAssumption` and
`QuotaAssumption` (the builder rejects a zero period), `RetryAssumption`,
`ClientAssumption`, `FaultyAssumption`, `CliRunAssumption` (the paths that are
named exist as paths), `SettingsAssumption` (clap and serde only pass values of a
flag's or field's type), `CommandsAssumption`, `OwnersAssumption`,
`DepthAssumption`, `SpecsAssumption` and `NamesAssumption`, and the four of
`SpecMeaning` (section 2). They hold for unbounded time, any number of callers,
calls, invocations, edits and documents, and for `Spec`; the `MC` specifications only add bounds.

**RateLimiterProofs.** `Conformance` speaks of the log and `HeldBackOnlyWhenSpent`
of the future, while a grant is decided from the cell. The inductive invariant
`IInv` ties them together: the cell is the upper envelope of lines that start one
period above each granted reading and rise one period per later grant
(`TatCovers`, `TatTight`), and readings are never in the future. `GrantStep` is
the heart; the other steps leave cell and log alone. Results: `TypeCorrect`,
`ConformanceHolds`, `DebtBoundedHolds`, `HeldBackHolds`, and from conformance
`WindowBoundedHolds`: a window of the length of the period holds at most
`2 * Rate - 1` grants, which says how far finding 1 can go.

**ProtectClientProofs.** First the refinement `LimiterRefined`: each step of the
client is a step of the limiter or leaves it alone; `ClientConformance` then
carries `ConformanceHolds` over to all attempts of all calls, and
`ClientWindowBounded` the bound on a window. The schedule comes second: that
`Shifted` doubles is an induction over the attempt, from which follow
`FactorGrows` (a factor that has left its width saturates, and stays there) and
`ScheduleGrows`. The invariant
`IInv` is `CallTypes` and, per call, `CallOk`: attempts stay within policy and
stack (`WithinPolicy`), effects plus requests still on the wire are paid for by
attempts (`Paid` — needed because late service raises `effects` after the call
is over), and a response that is being read tells what the server did
(`ResponseTruthful`, `ReturnTruthful`). Results: `TypeCorrect`,
`EffectsBoundedHolds`, `OutcomeTruthfulHolds`, `ContractRefined` (each step is
`Apply`, `Return` or a stutter of the contract) and `ClientAtMostOnce`.

Its last part is the retry policy. `PolicyOK` adds, per call, that a
delay is one that the schedule may have drawn (`Sleep`), that the result which left the
stack is one the policy does not retry or the last, and that what the method returns
is this result or comes from its body (`Settled`), and where the time named by a 429 stands until the
next attempt: covered by `delay` while draining, by `wake` while sleeping, and
passed from the limiter on (`Honoured`). A delay is bounded from below by
the schedule of its own attempt, and that by the schedule of every earlier one
(`ScheduleGrows`).
`PermitPerAttempt` needs no sum over the calls: the invariant `Made` says that the
log can be dealt out (`Dealt`), and a step either leaves the log and the counters
alone or adds one grant, which goes to the call that has just been permitted
(`DealOne`). Results: `GivesUpOnlyExhaustedHolds`,
`RetryAfterHonouredHolds`, `NeverBelowScheduleHolds`, `PermitPerAttemptHolds`.

**CommandsProofs.** The properties speak of the end of a command; `InvocationOK`
says of every point on the way what has been delivered, is held back and is still
queued. The heart is `PrintOK`: what is held back lies behind the last newline,
and the queue ends in a newline, so that an empty queue leaves nothing for the
unchecked flush. `FileOK` ties the file to the offset of its only writer.
Results: `TypeCorrect`, `SuccessMeansDoneHolds`, `OldSnapshotKeptHolds`,
`NoRemainsHolds`. `StreamsAsRequestedHolds` is an induction over the prefixes of
the request (`KeepOne`, `KeptAll`): what has been kept so far is in the order of
the request, because each step appends at most the next one.

**ConfigTemplateProofs.** `IInv`: a live process owns its id, its sibling is what
it has made of it so far, every sibling is private, and the target is whole and
synced both now and on the disk. Results: `TypeCorrect`, `TargetWholeHolds`,
`NeverWidenedHolds`.

**CliRunProofs.** `IInv`: each step works on exactly what the steps before it left
(`LoadedOK`, `ResolvedOK`, `KeyOK`, `RequestOK`), the loaded file is one of the
versions that were there, and what was shown is what `Resolve` says of that file.
Results: `TypeCorrect` (for which one must know that the loaded file was validated, and
that `resolve` lets only booleans past) and the five properties of `cli_start`.

**SpecRewriteProofs.** First one JSON object. Each rule touches a few keys and no
other (`ExpandKeeps`, `ConstKeeps`, ...), so that what one rule has removed is
still gone after the next; and where the input has neither a nullable type array
beside a choice nor a mixed enum with two strings of one name, each rule sees what it
is there for: `RewriteSettles`. `LiftsOnlyThePattern` says that what is
lifted is the synthesised schema and nothing beside it.

Then whole documents, `TypifyReadyHolds` and `RefsResolveHolds`. Their inductive
invariant `IInv` says of every stage that `schemas` is what the passes so far make
of `original`, and for `done` that the rewriting was shallow; the work is to know
what the functions of the passes return. (1) The levels exist as the recursive
functions that `Levels` and `RewriteLevels` define, by induction over sets of
naturals (`LevelsThere`), and `Nodes(v)` is the least set around `v` that is
closed under parts (`NodesClosed`, `NodesLeast`). (2) The function of a walk
calls itself on the parts of a value, which are one level nearer to the bound: it is built
from the last level upwards (`LiftDescends`, `DescendsThere`), and satisfies
the equation one reads in the source. (3) `Sound(M, doc, names)`, that `M` is a set
of JSON values with all their parts, holds the document, and refers to nothing but
`names`, is carried through the passes: lifting adds the schemas it refers to
(`LiftKeepsSound`), `Vec::retain` only drops (`RelaxKeepsSound`), and the rules
make only objects that are sound where those before them were (`RewriteOrigins`,
`GrownIsClosed`, `RewriteNodesAreDocuments`). (4) What occurs at the end
is what the walk makes of something it met (`Preprocessed`); no such object is
`Indigestible`, unless it comes of one of the three shapes, as the traversal of its
values leaves kinds and scalars alone (`ObjectSettles`), and a reference among them was one before
(`ReferencesDescend`). `RefsResolve` needs `NamesAssumption`: the names of the
schemas must survive the rules (`RulesNeedKeys`).

**SpecMeaningProofs.** What the passes do to the meaning of a document, for every
document, every set of JSON values and every number of steps: `LiftExactHolds` and
`OnlyRelaxedHolds`. The invariant is the `IInv` of `SpecRewriteProofs` (each stage
is what the passes make of `original`); what is hard is to compare two documents.

1. `Accepts` is unfolded (`AcceptsIsRows`) into a relation: `Taken(doc, n)` holds
   the pairs of a schema and a value that it accepts in `n` steps, and one step
   more is `Holds` of the object (`Takes`). More steps accept more (`TakenGrows`).
2. `Carried(f, g, E)` says that the object `g` demands no more than `f`, if the
   parts of `f` and `g` are related by `E`. Then what `f` accepts `g` accepts, in as
   many steps as it takes for the parts (`CarriedHolds`). A walk that changes no
   object carries both ways (`Walked`, `WalkedCarries`).
3. Lifting: a schema is related to what `lift_descend` makes of it (`LiftedTo`). By
   induction over the steps, what it accepts in `n` it accepts afterwards in
   `2 * n` (`LiftRelaxes`), and what it accepts afterwards in `n` it accepted in
   `n` (`LiftTightens`). In both, the case that matters is the pattern, which
   becomes a reference whose target is the pattern again (`LiftedPattern`,
   `PatternHolds`, `RefHolds`).
4. Relaxing: a schema with fewer required fields demands no more (`SameCarries`), in as
   many steps (`RelaxRelaxes`).
5. The rules: each makes an object say no more than before (`ExpandRelaxes`,
   `ConstRelaxes`, `FlattenRelaxes`, `DropsRelaxes`), which gives `RewriteRelaxes`,
   and leaves a schema a schema (`RewriteWellFormed`). The schemas
   `{"type": t}` that a type array is expanded to are new: they are carried by
   `TypeObject`, and are where the one step more comes from.
6. The traversal, `DescendRelaxes`: the object that has been rewritten is walked, so
   that 5 and 2 apply one after the other.

The kinds of JSON values that a document consists of, and that it still nests
within `Depth` after lifting and relaxing (`LiftNests`, `RelaxNests`), are what all
these inductions need of the walks: a walk is only defined within the bound.

**SetInduction.** The library's induction theorems take an operator as a
parameter, which no installed prover can instantiate. `NatSetInduction` states
induction of a set instead and is derived from the well-foundedness of `<`;
`RecursionUnique`, `RecursionExtends` and `NatRecursion` build the recursive
functions from it, so that a definition `f[n \in Nat] == ...` can be unfolded.

**Model-checked only.** Liveness (`EveryCallerGranted`, `EveryCallReturns`,
`ForceInstalls`) and anything about ENABLED are beyond this prover.
Every safety invariant and every action property that a passing run checks is
stated by a theorem.

## 6. Not modelled

* Streaming request bodies (no helper sends one), cancellation of a future in
  the middle of a call, the overflow of `Duration`, the length of the connect
  timeout, redirects, the idle time before the first call.
* Pinned certificates: the CLI offers none, and `build` takes one or fails. That a
  header value is marked as sensitive (`auth.rs`).
* `config template` on Windows (no mode, no sync), symbolic links, two live
  processes of one id in different PID namespaces.
* clap's parsing, table and JSON layout, wording of messages, log formats; the
  generated types (`models.rs`) and the fields of the entities.
* typify, and the published spec files (a submodule): the documents of the runs
  are made of the shapes that the comments of the rules describe.
* The scripts and the tests against a live server.

## 7. What is left

The project follows the code as it is; what would have to be extended with it:

1. `patch_json` and `send_no_content` have no caller yet. They are
   modelled and checked as helpers; the endpoints that will use them belong in
   `Commands` once they exist.
2. *Composition*: `Commands` uses `CallContract`, which `ProtectClient` is proved to
   implement; a module that runs both on one step relation would add the
   interleavings of several commands with one limiter, which the CLI, with one
   client and one call per process, does not have.
