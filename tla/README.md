# Verification of shrt

shrt runs chains of RPC calls against a backend, records every run, lets a
person approve a run as a chain's baseline (its *safe spot*), and later
compares new runs with it. What is hard to test is not one call but what
happens between calls, between files and between processes: commands of
several people and agents work on one directory without a lock, a command can be
killed between two writes, a session can end in the middle of a run, and a run
that goes on past a failure has to know what it may still believe. This
directory models those parts in TLA+, checks them with TLC on small instances
and proves the central results with TLAPS. Paths below are relative to the
repository root (`src/` in `PROJECT.json`).

## Inventory

| component | state | operations | correct when |
|---|---|---|---|
| `store` (`run.go`, `proposal.go`, `safespot.go`) | files under `.shrt/runs`, `.shrt/safespots`, `pending/`, `archive/` | SaveRun, LoadRun, Propose, Approve, Promote, DropProposal, RenameSafeSpot | a safe spot is only ever approved content of a recorded run; no approval is lost; a report shows what its approval does |
| `shrt confirm` (`cmd_confirm.go`, `confirmall.go`, `confirmrename.go`, `proposalchain.go`) | none; reads chain files | propose, approve, reject, rename, `-all` | nothing is approved of a chain kept red, or of another chain file than the run ran |
| `transport` auth (`auth.go`, `tokencache.go`) | a token source per profile in memory, one cache file for all processes | Token, login, Accepted, Invalidate, re-send, Seed | a write is performed at most once; a re-send has a new token; evidence about a refused token is true |
| `runner` (`runner.go`, `resend.go`, `keptred.go`) | records, broken steps, exports, what is held back from output | Run, runStep, settle, kept_red verdict | no request is built from a value known wrong; a passed run really passed; `as_pinned` means exactly as pinned |
| `chain` (resolution, checks, lint) | scope of a run: responses, requests, exports | Resolve, PreflightProblems | references read what the author wrote |
| slicing (`chain/slice.go`, `without.go`; `cmd_chain_slice.go`, `slicerepeat.go`, `slicekeptred.go`, `sliceentities.go`) | a queue of steps; slice files, their verdicts, the record a slice is judged by | Slice, Without, `-verify`, `-write`, `-keep-red` | a slice reads what the chain read, holds what its step needs and no more; what it says of itself is true |
| pinning (`cmd_chain_pin.go`) | the chain file, its description | `shrt chain pin`: run, slice, cut, note, again | no step is lost; a chain called green ran green |
| gate, verify, run (`cmd_gate.go`, `cmd_verify.go`, `cmd_run.go`, `midrunrestart.go`, `tokenlifetime.go`, `droppedrepeat.go`, `gatesession.go`) | history of runs, baselines; early refusals and reads per profile during one gate | classify a run, try again, hold tokens, exit code | a failure is explained away only with evidence, and a finding is not lost |
| run history (`run.go`, `intermittent.go`, `keptreddrift.go`) | the records of a chain, in the order they list | latest, the run before, the pinned reference, what comes and goes | the last run is the one that started last; a change is not lost because it was seen once; a failure of every run is not called a chance |
| `diff` | none | compare two records | pairing of steps and items; masked ids |
| `transport` client and streams | connections, timers | Do, readStream, AnsweredLater | an answer is not taken for another; a stream ends |
| `contract`, `catalog`, `config`, `doctor`, `pathmask`, `distill`, `hollow`, `namecase`, `yamlkey`, `agentkit` | none (files read or written once) | plan probes, describe messages, validate, mask, filter text | pure functions of their inputs |

How they interact: `shrt run` calls `runner.Run`, whose calls go through the
auth middleware, and saves the record in the store; `shrt confirm` moves
records to proposals and safe spots; `shrt verify`, `shrt gate` and `shrt diff`
read both; `shrt gate` starts `verify` and `run` as processes, tries each again
after an exit code 3 and adds up what they report. Processes share state through the store's files, the token cache
file and the backend's sessions, and through nothing else: there is no lock and
no server of shrt. Inside a process one goroutine runs the loop of a chain.

Hard behaviours, each listed in `PROJECT.json` under `hazards` with its line:
unlocked read-check-write sequences on files; truncating writes and kills; two
files that must agree; a decision taken on one load and an act on another;
evidence read before the state it describes is wiped; output held back for an
explanation that may never come; a run that continues past failures, where
"passed", "tolerated", "held back" and "as pinned" interact; a closure computed by
five rules that feed each other; a verdict drawn from three runs of which some do
not count; a chain file that is cut while slices of it are written.

## Modules

| module | models | extends |
|---|---|---|
| `SafeSpotStore` | the store and `shrt confirm`, one action per file that is read for a decision or written, any number of processes | |
| `BaselineRegister` | the abstract promise: a baseline is set only where none is, and goes away only when its approval is archived or in place under another name | |
| `SafeSpotStoreProofs` | type correctness and the approval invariant, proved | `SafeSpotStore`, `TLAPS` |
| `StoreAloneProofs` | what the store promises when commands run one after the other: nothing is lost, replaced unnamed or shown wrongly, no chain kept red is confirmed, and the store implements the register, proved | `SafeSpotStoreProofs` |
| `TokenAuth` | token sources, the cache file, the auth middleware, several processes and restarts | |
| `TokenAuthProofs` | a write is performed once, evidence is true, an invalidated token is forgotten, proved | `TokenAuth`, `TLAPS` |
| `ChainRun` | one run of a chain: the loop, a step, the end of the run and the kept_red verdict | |
| `ChainRunProofs` | what `passed` and `as_pinned` mean, and that nothing is sent on wrong values, proved | `ChainRun`, `TLAPS` |
| `Slice` | `chain.Slice` and `chain.Without`: which steps, vars and pins a shorter chain has, one action per turn of a loop | |
| `SliceProofs` | a slice reads the same, is complete, is least and sends what the run sent, proved | `Slice`, `TLAPS` |
| `SliceVerdict` | what a run of a slice says of the step it was cut for, as operators | |
| `ChainPin` | the commands `chain slice` and `chain pin` on the files of one working copy, with kills | `SliceVerdict` |
| `ChainPinProofs` | what a slice says of itself, that a failure is called intermittent only for the backend's sake, and that pin loses nothing and ends well on green only, proved | `ChainPin`, `TLAPS` |
| `Verdicts` | what `verify` and `run` conclude from a record and the runs before it, as operators | |
| `Gate` | one `shrt gate` over a suite of chains, and a backend that restarts or has a defect | `Verdicts` |
| `GateProofs` | a restart is no finding and no regression, green is green, a defect is found, and nothing is hidden behind a refusal, proved | `Gate`, `WellFoundedInduction`, `TLAPS` |
| `RunHistory` | the run records of one chain as later runs read them: which is the last, the reference of a chain kept red, what is called intermittent | |
| `RunHistoryProofs` | the last run is the one that started last, a drift stays, and what is called intermittent or repeated is, proved | `RunHistory`, `FiniteSetTheorems`, `SequenceTheorems`, `TLAPS` |
| `MCSafeSpotStore`, `MCTokenAuth`, `MCChainRun`, `MCGate`, `MCSlice`, `MCChainPin`, `MCRunHistory` | constants of the runs: symmetry, profiles per process, the chains that are run | the module each is named for |

A definition whose name ends in `Slip` is a plausible mistake in the code that
the definition after it stands for. No action uses it; `PROJECT.json` pairs it
with a property that fails when the mistake is made (`mutants`).

### SafeSpotStore

`runs`, `spots`, `archive`, `pending`, `report` and `chainFile` are the files;
a file is `None` when absent and `Torn` when it is not JSON. A process has a
program counter and the memory of its command: the record, proposal or safe
spot it loaded. The actions follow the code file operation by file operation:
`ProposeLoad .. ProposeFill` are `runConfirm` and `Store.Propose`,
`ApproveStart` is the first read of the chain file (`keptRedNeverConfirmed`),
`ApproveProposal` and `ApproveMatch` are `approveProposal` up to `store.Approve`
(the proposal and its run, then the chain file a second time), `ApproveLoad` and
`ApproveSeal` are `Approve`, which loads the proposal and its run again, `PromoteArchive`, `PromoteOpen` and `PromoteFill`
are `Promote`, `DropProposal` and `DropReport` are `Store.DropProposal`,
`Rename*` are `renameSafeSpot` and `RenameSafeSpot`. `writeJSON` is two steps
(truncate, fill), so that a kill or another process can come between them; a
file filled by two processes may end as either one's bytes or as neither's.
Around the commands, `SaveRun` records runs, `Crash` kills a command, and
`EditRun`, `EditSpot`, `EditChain` are people, merges and checkouts.

A file that a command reads twice is read in two steps; reads of different files
in a row are one, since a write in between commutes with one of them.
`meddled` notes an edit by hand that fell between the reads of an approval. An
edit changes one part of the body of a record (its content, whether it passed,
or the chain digest), a seal, a safe spot or a chain file.

The content of a run is one value: what `recordDigest` hashes. A seal is the
body it was computed from, so that "the seal matches" is equality. Simplified:
a run record, a report and an archived safe spot are written in one step (the
race of two archivers for one free file name is not modelled); chains whose
names fold to one slug, digests of older formats and records without a chain
digest are left out; approval times are distinct.

### TokenAuth

`cache` and `tmp` are the cache file and the `.tmp` file that every process
writes before it renames it. `fd` is where the file is that a process has open
for writing: the bytes of `os.WriteFile` go to the file it opened, which another
process may have renamed into place meanwhile (`"cache"`) or replaced there
(`"gone"`). `mem` is a `LoginTokenSource` per process and
profile. A call goes `token -> (login -> write cache) -> send -> (refused ->
drop from cache -> token -> resend)`. The backend may end any session, and time
may bring any token within the leeway of its expiry and past it. `Answers` says
how a call under a token can be answered: an HTTP 401 comes from in front of
the handler, so the call was not performed; a refusal in the body or the error
code may come after it was, and an answer may be lost. `Restart` ends a process
at any step and starts the next with nothing in memory. Left out: calls that
skip auth or send the invalid token (they never reach a token source), which
profile a call uses (`Resolve`), the times of a refusal, and a cache file that
cannot be written. A file that was truncated and not yet filled reads as one
without entries: both yield nothing.

### ChainRun

A chain is a sequence of steps with references, expectations, exports, and
`allow_fail`; a reference carries a dependency and the step and field its value
comes from. Each action is one turn of the loop of `Run`: the step is not sent
because the target is unreachable (`SkipUnreachable`) or because it reads a
broken step (`SkipBehind`), it cannot be built (`FailRef`, `Invalid`), or it is
sent and answered, once (`Call`) or twice (`CallTwice`, `resendRead`). `Record`
is the record that `runStep` returns and `Finish` what the loop does with it.
`Return` is everything after the loop: the flush of held output,
`settleServiceRefusals`, the status and `keptRedVerdict`. Which expectations
hold, which fields an answer has and how a call is answered are free choices of
the backend (`Answers`), since the property is never about the comparison
itself. Left out: dry runs, redaction, latency, build tracking, the `got` values
of pins; a step has at most one expectation per path; an in-band refusal carries
all fields or none.

### Slice

A request is a chain, a target and what is asked of it; steps are numbers. The
text of a step is abstracted to what the algorithm takes from it: its
references, the entities it sends, the names it exports, the fields a contract
may fill, the vars it builds strings with, the values of filters and unique
keys, aliases in its id. `needs` is what the contract says an rpc needs first
(`contract.PrereqsFor`), `refused` how the source run ended a write, `irrelevant`
and `asserts` the two questions that `cmd_chain_slice.go` answers from the record.

`ProducerIn` is `producerOf`; `Begin`, `Serve`, `Prereq` and `Served` are the inner
loop of `Slice`, `AddSideEffects`, `AddStateWrites` and `AddSameValues` the three
rules after it in their order, `Again` the outer loop, and `Build` the rest: the
vars and where their values come from, fresh and missing ones, dropped writes and
pins. `Walk` and `Leave` are `Without`. Each step's references are served in any
order, which the code sorts by text, so that nothing that is checked depends on
the names of steps. Left out: the reason given for a kept step, the description.

### SliceVerdict and ChainPin

A program is a chain with a backend: what each step reads, which earlier writes
must have happened for its defect to show (`cause`) or for it to work at all
(`needs`), which records it acts on or lists, which writes tell no record, whether
the defect comes and goes, how it looks (`shape`). `StepResults` says what a step can come to in a run; it fails as
the defect does, in another way (`lacking`), in expectations that were held back,
or gets no answer. An expectation that reads a step which did not pass is held back
(`Behind`) whatever the step itself comes to, so that a step can fail in one
expectation and be held back in another: `Failures` is what `pin` takes for a failure,
`Relaxable` leaves such a step out, and `Answer` with `UpstreamOnly` is how a verdict
with held back expectations is compared (`withoutBlocked`). `RunVerdict` is `runSliceVerify` after the run, `Combined` is
`combineSliceVerdicts`, `NextKeep` is `suggestKeep`. What a slice keeps is the
closure under reads here; `Slice` has the rules in full. `Kept` and the steps that
go with a cut one (`Gone`) are stated as the least closed sets: a step is in when no
closed set is without it. `WithoutUnread` goes over the related writes in the order of
the loop of `classifyFieldReads`, as what is left out early decides who is left to
read a later one.

`ChainPin` is the two commands around them. `Slice` is `sliceChain` up to the
first write of the file, `RunStep` a step of a run, `Repeat` one comparison,
`Record` the verdict in the file or its removal, and `Round`, `Look`, `After`,
`Cut` and `Note` are one turn of `chainPin`: is the newest record of this chain,
what fails together (`pinGroup`), the slice again with more kept, the chain file
without the steps (`sliceWithout`), the line in the description. A slice that keeps
every step and is written is run under the name of the chain, so its record becomes
the newest of the chain without being a run of it (`Saved`). `Kill` can come
between any two of these, and `Checkout` brings the chain file back. Each write of
a file is one step. Left out: drift against a safe spot and the comparison of
expectation paths (a verdict matches when the step ends in the same way), records
of another target, which record `-run latest` takes when the newest is a replay,
the checkpoints that keep an earlier read with a pinned one, what stops a pin for
other reasons than those of `Explained` (values that collide with a literal, reused
fixtures, tokens), a verdict noted in the source chain when the slice is the whole
chain, chain files torn by a kill,
`-without -verify`, and writes whose records are unknown.

### Verdicts and Gate

`Verdicts` has one operator per question that package `main` asks of a record:
`LossAt` and `RestartEvidence` are `detectSessionLoss` and `restartEvidence`,
`LossFinding` is `examineSessionLoss` with the latest earlier run that sent the
step, `FreshAt` is `repeatedFreshRefusal`, `TokenLifetime` is
`examineTokenLifetime`, `UnansweredOnly` and `DroppedAt` are `unansweredOnly`
and `repeatedUnanswered`, and `Verify` and `Run` put them together in the order
of `examine`, `notJudged`, `findingOrNoVerdict` and `runRun`. An answer is one
of seven values: as in the safe spot, another value, data not there, refused at
authentication, cut off, not dialled, never asked.

`Gate` is the loop of `runGate` around them. An attempt is a `verify` (which
keeps going) or a `run` (which stops at the first failure), a call per action:
`Accepted`, `RefusedNotResent`, `RefusedResent`, `Unreachable`, `CutOff`,
`Skip`. `Retry` is the second try of `gateAttempt`, `RunToo` the `run` after a
`verify` without a verdict, `Absorb` what the last try leaves, and `HoldFirst`,
`ProbeFirst`, `ProbeHalf`, `ProbeFull` are `checkSession`. The scenario fixes
the suite, whether the backend keeps its data over a restart, whether its logins
state an expiry, what the token cache holds and the backend's defect; `Stop`,
`CutOff` and `RefusedResent(TRUE)` restart it between calls, during a call and
between a refusal and the re-send. Who has which token is `TokenAuth` with one
process; a step behind a broken one is held back as in `ChainRun`.

Left out of both: answers that are server errors (see `RunHistory`) or come from a
gateway, and a build that changes during a run (with neither, a later call that got
no answer has no HTTP status and is passed over by `sessionRestartEvidence`, and the
record before, asked about as a whole, has no sign of a restart); reused fixtures and idempotent replays (the tag of an
attempt is fresh); changed chains, input and descriptors; chains kept red;
latency; lists that shrink and conflicts that vanish as evidence;
`-no-session-check`; and how `settleGate` groups failures for display. Sessions
that end early do so within the hold of the check (30 s in the code); a longer
one is not found there, and the gate says so.

### RunHistory

A process looks for its reference when the chain is kept red (`Look`,
`pinnedReference`), begins its run (`Start`: the second and a random suffix are its
name), executes and judges (`Execute`: all answers of a chain at once, then
`judgePinnedDrift`, then the file is created), saves (`SaveFill`) and reads the
records again (`Judge`, `detectIntermittent`). The clock ticks between any two, and a
process may be killed between the two steps of `writeJSON`, which leaves a torn file.
`ListRuns` is the order of the files: by the second in the name, then by the
`started_at` that can be read (`stated`: of a torn file it may be there or not), the
time it was written, and the name. `Newest` is the loop of
`latestRunBefore` and `previousRunAttempting`, one `Consider` per record, which stops at
the first record of an earlier second than the best so far. A backend fails the same calls in every run
(`fixed`), fails any (`flaky`), or answers a chain kept red with one of several values
beside the pinned path (`kept`). A step has its status, the server error it ended
with, and the one a read was re-sent after.

Left out: which other failures an intermittent call explains (`otherFailures`,
`explainsAll`), how often it failed (`callCounts`), `settleFlaky` and `foldFlaky` of the
gate, runs that are not saved, replays, dry runs, records of a changed chain file.

## What the runs show

All states within the bounds are explored. Deadlock is not checked for
`TokenAuth`, `ChainRun`, `Gate`, `Slice`, `ChainPin` and `RunHistory`: calls and commands are
bounded there, and a run of a chain, a gate and a slice end.

| run | bounds | shows |
|---|---|---|
| `store_one` | 1 process, 2 chains, 2 runs, 2 contents, a version kept red, 2 approvals, 1 edit by hand, 1 kill | with commands one after the other, every promise of the store, and what is left of them after a kill between any two file operations: `NothingLost`, `KeptRedNeverConfirmed`, `ReplacesNamed`, `ReportShowsPromoted`, `ProposalDecided`; whatever reads as a safe spot is approved recorded content (`SpotsApproved`), and the store implements `BaselineRegister` (`ImplementsRegister`); `SpotsApproved` is proved for any number of processes, the others for one |
| `auth_one` | 1 process and its successor, 2 profiles, 2 tokens, 3 calls | `WritesOnce`, `EvidenceTrue`, `RefusedForgotten` when no other process is at work |
| `auth_two` | 2 processes sharing a profile and the cache file, 2 tokens, a call each | `WritesOnce` and `EvidenceTrue` do not depend on the cache file being whole or current |
| `run_all` | 2 and 3 steps, 2 fields, 1 export; chains wired through fields, requests and exports, with `allow_fail`, asserted refusals, reads, kept_red (also with a step allowed to fail, answered or never sent); with and without `-keep-going` | `NothingPoisoned`, `PassedMeansPassed`, `KeptRedSeen`, `HeldIsPrinted` |
| `slice_all` | chains of up to 6 steps: shadowed exports, two entities written by two writes in every wiring, contracts with aliases, values and shared producers, every origin of a var | `ReadsSame`, `Complete`, `Least`, `InputsOfRun` |
| `pin_all` | chains of 2 to 5 steps; defects that hide behind a write, come and go, share a shape or stand alone; expectations that read a step that failed, writes that tell no record or make one that is listed; 2 commands and a checkout, one outage, one kill; 3 runs per verification | what a slice says of itself (`VerifiedTrue`, `BlameTrue`, `IntermittentTrue`), and that pin loses nothing and lies about nothing (`CutIsPinned`, `NoStepVanishes`, `NoUnprovenRed`, `PinnedIsGreen`, `Ended`) |
| `history_all` | 2 processes, up to 3 runs in 5 ticks (4 with three runs of a chain kept red) of which two are one second, 2 suffixes, 1 kill; a chain that sends one request twice with a write between; 4 sets of calls that always fail, calls that fail now and then, 2 values beside a pin, 2 targets | which record is the last (`LatestIsLast`), what later runs are compared with (`DriftStays`), what is called intermittent (`FlakyTrue`, `RepeatedNamed`) |
| `gate_all` | suites of one chain of two to four steps, or two chains; 1 or 2 profiles; with and without a safe spot; 11 kinds of defect or none, with and without durable data and stated expiries; a restart at any moment and one more while tokens are held | `RestartIsNoFinding`, `RestartIsNoRegression`, `DefectIsFound`, `GreenIsTrue`, `NothingBeforeIsHidden`; all proved for any suite |

For slices, six steps make two entities, two writes on either, a reader and a
reader of that, which is more than one turn of the outer loop; a rule looks at
pairs of steps only. For pin, three defects make three rounds, and a slice needs a
producer, a dropped write, a step that needs it and a target; two commands are what
a verdict or a cut left by one and read by the next takes. Three runs make a run, the one it is
compared with and one that ends in between or before both; four ticks put two of them in
one second and one in the next. Each backend has its own number of runs and kills: two
runs where every call may fail or two targets are run against, and kills where the same
calls always fail: a search that meets a torn file skips it for every question alike.
Two approvals are enough for every store property, because each relates an
approval to the one before it; two processes are enough for the token cache and for
`store_v_lost`, because each race there is between a reader and one writer. Three steps make a producer, a step in
between and a reader, which is as long as a dependency chain in the loop gets:
the loop keeps no more of earlier steps than `broken`, `exporter` and the scope.
Two tokens are the refused one and the next. A chain of a gate needs a write, a
read of what it wrote and a call after both, and a second profile whose session
is refused on its own; two chains make a second early refusal of one profile, and a
write and a read alone make one only, which leaves the verdict to the held tokens.
Two restarts on the same step of two tries look like a backend that refuses
tokens, and the code reports them as a finding, knowingly; so one restart is
allowed until the last chain is done.

The runs with `_v_` show where the code does not do what a document, a report or
a comment of the repository says (`findings` in `PROJECT.json`):

| run | property | what happens |
|---|---|---|
| `store_v_lost` | `NothingLost` | of two overlapping approvals, the second overwrites the first's safe spot, which no archive has |
| `run_v_poison` | `NothingPoisoned` | of two writers of one export the second leaves it unset, and a reader sends the first writer's value, which was asserted to be wrong |
| `gate_v_restart` | `RestartIsNoVerdict` | after a restart mid-run the re-sent read finds its data gone, and the run exits 1 instead of 3 |
| `pin_v_rounds` | `StillRedIsRed` | three defects in four steps: the loop bound shrinks with the chain, and the chain that would pass now is called still red |

`run_v_poison` has two chains, and either alone violates the property: the second
writer is refused and tolerated (`allow_fail`), or it fails an assertion on another
field than the one it exports and its answer lacks that one. In both the loop takes
the second step for the writer (`runner.go:1103`), finds nothing said against its
field, and resolves the name to what the first one exported.

The passing runs keep to inputs outside these: `run_all` has no chain in which two
steps export one name, which lint warns of (`lint.go:986`), the one-process runs have no second process, and
`pin_all` does not check `StillRedIsRed`. Some promises hold in a narrower form, and
their definitions say which: after a kill, `ReportShowsPromoted` (the report of another run stays beside
the earlier proposal) is claimed no more, and an approval repeated after a kill may
replace itself (`ReplacesNamed`); a verification killed after it created with a value
leaves that value used, and the next one given it may be called intermittent
(`IntermittentTrue`). `RefusedForgotten` needs that no other process writes the token cache
between the drop and the next login: with two processes the refused entry can come
back and be sent again. A call can then be refused on account of it, and `auth_two`
checks that it is still performed once and explained truly.
`RestartIsNoRegression` is the part of `RestartIsNoVerdict` that `verify` does
keep: one profile, and logins that state no expiry.

Code and documents also differ in places that no run is about:

- `docs/agent/GRAMMAR.md:34` and `PLAYBOOK.md:200`: `allow_fail` tolerates a
  transport refusal; the loop (`runner.go:1112`) also tolerates a step that was never
  sent, when a field it reads was missing, since such a step has no assertion that
  failed either. `keptRedVerdict` does the same (`keptred.go:60`), so such a run can be
  `as_pinned`. `PassedMeansPassed` and `KeptRedSeen` are stated with that exemption, and
  `run_all` has chains in which it is used.
- `GRAMMAR.md:354`: a run is `as_pinned` when it fails as pinned; a pinned step that
  also lacks a field it exports is `as_pinned` too (`keptred.go:201`).
- `PLAYBOOK.md:448-450`: pin adds `Kept red in <slice>: <steps>.` The slice pins
  what failed in the run that speaks for the three (`slicekeptred.go:344`), so a step
  of the group whose defect did not show in that run is cut from the chain, named in
  the line and pinned nowhere. `CutIsPinned` claims the pin of the step the slice is
  named for only.
- `PLAYBOOK.md:517`: "keeping more steps will not help" an intermittent slice; pin
  slices again with the writes that the run that differed asked for
  (`combineSliceVerdicts` clears `Next`, not `nextKeep`).
- `PLAYBOOK.md:518`: a matching verdict is `INCONCLUSIVE` when dropped writes act on
  kept entities; of those only the ones that set a field some kept step reads count
  (`classifyFieldReads`).
- `PITFALLS.md:297-303` and `findingMeaning`: an intermittent failure is "not a
  deterministic regression". One request answered at one step and failed at another is
  evidence enough (`sameRun`), so a backend that fails it after the write in between, every
  time, is called intermittent in the first run on record and repeated from the second
  on, which is what `RepeatedNamed` claims. `latestRunBefore` does not ask for the same
  target, so that first run may follow one against another backend.
- `PLAYBOOK.md:438-439`: a run exits 1 when a pinned step returns something else than in
  the last run that failed as pinned. The search ends after 50 records
  (`pinnedReferenceScan`): when 50 others follow that run, the next is compared with none and
  its value becomes the reference. `DriftStays` is checked with fewer runs than that.
- A slice for a step that is kept red together with a later one drops writes
  between the two without a word (`slice.go:319` looks at writes before the target).

**Fairness.** `HeldIsPrinted` and `Ended` need weak fairness of the steps
of the command at work: the loop of `Run`, a `chain slice`
or `chain pin` go on (`Next` of `ChainRun`, `Command` of `ChainPin`;
what a person gives and kills is not fair). One goroutine executes each, every call
has a timeout and every wait an upper bound (`MaxWait`), so no turn of a loop is put
off for ever. Everything else is safety.

## What is proved

`SafeSpotStoreProofs` proves for any chains, runs, contents, versions, any number
of processes, approvals, edits and kills, from the assumptions named in
`SafeSpotStore` (the bounds are naturals; the sentinels `None` and `Torn` are no
contents; `KeptRed` is a set of versions):

- `TypeCorrect`: `Spec => []TypeOK`;
- `ApprovedOnly`: `Spec => []SpotsApproved`, whatever is in place goes back to an
  approval of content that shrt recorded.

`SpotsApproved` is not inductive: whether `PromoteFill` writes approved content
depends on what the process loaded several steps ago, while other processes and
editors rewrite those files. The invariant `IInv == Shape /\ Safe` adds what
holds in between. `Shape` is `TypeOK` with the facts about memory at each program
counter (`MemoryOK`: at `a_spot` there is a record and a proposal, at `r_fill` a
safe spot; `ProposalsFiled`: a pending proposal is of the chain it is filed
under). `Safe` adds `RunsSealed` (a record whose seal matches holds what shrt
recorded: an edit changes the body or drops the seal, never makes a matching
one), `SealedInMemory` (past `checkSealed`, what is in memory was recorded) and
`RenamesBacked` (a safe spot being carried was backed when it was read). Each
has a lemma per kind of step: `ShapeCommand`, `ShapeEnvironment`,
`SealedInMemoryStep`, `RenamesBackedStep`, `SpotsApprovedStep`,
`SafeEnvironment`. The safe spots follow from `SpotsEffect`: a step of a command
writes at most one safe spot file, and what it writes is torn, absent or backed
(`WritableBacked`).

`StoreAloneProofs` proves, from the same assumptions and `Alone` (there is at most one
process, and a killed one is followed by the next), the promises that hold only when
commands run one after the other:

- `ApprovalsKept`: `Spec => []NothingLost`;
- `ReplacesWhatItNames`: `Spec => ReplacesNamed`, an action property;
- `ReportsTrue`: `Spec => ReportShowsPromoted`, an action property;
- `ProposalsDecided`: `Spec => ProposalDecided`, an action property;
- `KeptRedUnconfirmed`: `Spec => []KeptRedNeverConfirmed`;
- `Implements`: `Spec => ImplementsRegister`.

No file is locked between the step that reads it for a decision and the step that
writes, so each is false with a second process: `store_v_lost` shows it of
`NothingLost` and so of the register, and TLC finds the next three violated on the
same constants, without an edit or a kill. The chain kept red falls with one edit of the
chain file made before any approval: a second process proposes an old run, of the version kept red,
between the proposal that approve compared and the one it loads.

The invariant `Orderly`, beside `IInv`, says what the files hold of
what a command remembers. `Remembers`: nobody else wrote what it read, so a proposal
being written names what is in place and one being approved is still there. `Keeps`:
what is about to be written over is in the archive, and what a rename is about to
remove is in place under its new name, torn at `r_fill` only. `Proposed`: a pending
proposal names what is in place, unless that is torn or a kill left there what is
proposed, and its report is beside it.

`KeptRedUnconfirmed` holds for any number of edits by hand made before an approval
begins, since it checks everything it relies on; an edit made between its reads (the
chain file set to a version kept red for the second read only, or the run record broken
for the comparison and restored for the load) defeats it, and is what `meddled` excludes.
`Checked` says what an approval has made sure of at each step: the chain file is not kept
red, the proposal and the run compared are the ones on disk, the run loaded for good is
the one compared.

The refinement states its mapping: `recorded` is what shrt recorded (`recordedRuns`), a
baseline is what the safe spot file reads back as, `archived` the numbers of the archived
approvals, `count` the approvals so far. A `PromoteArchive` is an `Archive`, a
`PromoteOpen` or `RenameRemove` a `Withdraw` of what `Keeps` says is archived or in place
elsewhere, `PromoteFill` a `Confirm`, `RenameFill` a `Carry` (`Carries`: what it carries is
still in place under the old name); everything else is a stutter.

`SliceProofs` proves for any set of chains and requests, of any length, from
`RequestsAssumption` (a request is what the parser and the flags can give):

- `TypeCorrect`: `Spec => []TypeOK`;
- `SameReads`: `Spec => []ReadsSame`, every kept step reads what it read;
- `SliceComplete`: `Spec => []Complete`, no rule has anything left to ask for;
- `SliceLeast`: `Spec => []Least`, nothing is kept that a closed set does without;
- `SentAsRun`: `Spec => []InputsOfRun` where what the run's writes created with is
  neither what the chain declares nor what a flag gives now (`GivenAnew`, the
  theorem's hypothesis). Without it the property says nothing of the code: a chain
  that creates with the value it declares creates the same thing twice, sliced or not.

The invariant `IInv` has a part per theorem. `Looked`: every kept step is in the
queue or was looked at, that is, its producers are kept and its contract needs are
met or named as unmet, up to `nth` for the step at work; `Rounds`: at each rule,
what the turn has not added yet (`~grew`) leaves the rules before it with nothing
to ask for, which adding steps cannot change back because the queue is worked off
first; `NoMore`: what is kept so far is in every closed set, because each rule asks
for no more of a smaller set than of a larger one (`RulesGrow`); `Walked` is the same
for `Without`. `SameReads` rests on `SameProducer`: a set that holds a step's producer
`j` resolves the reference to `j`, since no other step between has the name. `Last`
is a `CHOOSE`; `MaxExists`, by well-foundedness of the naturals, makes it a maximum.

`TokenAuthProofs` proves for any number of processes, profiles, tokens, calls and
restarts, from `BoundsAssumption`, `UsesAssumption` and `SentinelAssumption` (`None`
and `Torn` are no token, no profile and no content of a cache file):

- `TypeCorrect`: `Spec => []TypeOK`;
- `PerformedOnce`: `Spec => []WritesOnce`;
- `RefusalEvidence`: `Spec => []EvidenceTrue`;
- `RefusedIsForgotten`: `Spec => []RefusedForgotten` for a process that is alone
  (`Alone`, the theorem's hypothesis).

The invariant `IInv` says of each call what holds at its step of the way: which
tokens are at hand (`Staged`), that what may not be re-sent has been performed by at
most one answer and by none where a re-send is to come (`Performed`), that a
source's notes on its token are true of the process (`SourcesTrue`), and that the
token of a re-send is a new one when a login gave it (`NewForResend`), from which
the evidence follows (`Evidence`). Nothing in it speaks of the cache file's content:
that is why it holds whatever other processes write there. `RefusedForgotten` says
that a process sends no token again that it was refused and invalidated, and that the
file hands none on once the call is over. The token of a re-send is not among these:
`WithAuthRouter` does not invalidate it when it is refused as well (`auth.go:368-375`),
so the next call tries it once more. The proof is about what the file hands to the
sources, so it needs more (`Forgets`: what is held or being written has no invalidated
token, `Writing`, except the entry that the process is about to drop, `DroppedOut`) and
the hypothesis: with two processes, one may write back the entries it read before the
other dropped its token.

`ChainRunProofs` proves for any set of chains, of any length, and whatever the
backend answers, from `ChainsAssumption` and `NamesAssumption` (a chain has the shape
the parser gives it):

- `PassedIsPassed`: `Spec => []PassedMeansPassed`;
- `AsPinnedIsSeen`: `Spec => []KeptRedSeen`;
- `NothingIsPoisoned`: `Spec => []NothingPoisoned` for chains in which no two steps
  export one name (`OneWriter`, the theorem's hypothesis).

The first two follow the record of every step (`RecordOK`: what each status says of
the expectations, answers and pins beside it) from the step that made it through the
loop to the end (`LoopOK`). The third needs what the loop believes to be right:
every step that did not pass is in `broken` while the run goes on (`BrokenKnown`),
and an export holds the field of the step that `exporter` names (`ExportsTrue`). The
second is where two writers of one name break the code, so `OneWriter` is the
weakest condition on chains under which it could be shown, and it is what lint asks
of them; `run_v_poison` shows that the theorem is false without it.

`ChainPinProofs` proves for any programs, fresh values, repeats, commands, outages
and kills, from `ProgramsAssumption` (a step reads earlier steps only, which
`chain.Validate` sees to), `NoneAssumption` and `BoundsAssumption`:

- `VerifiedWasRun`: `Spec => []VerifiedTrue`;
- `BlameIsShown`: `Spec => []BlameTrue`;
- `CutStaysPinned`: `Spec => []CutIsPinned`;
- `StepsAccounted`: `Spec => []NoStepVanishes`;
- `NewSlicesProven`: `Spec => []NoUnprovenRed`;
- `DoneIsGreen`: `Spec => PinnedIsGreen`, an action property;
- `IntermittentIsSeen`: `Spec => []IntermittentTrue`.

None of these is inductive, since a verdict is drawn, written to a file and acted on
by different steps. `IInv` has what each needs in between: `AtWork` (which command is
at which step), `RunsShow` (what the runs made so far show, for the verdict they will
be combined to), `Settled` and `OfThisChain` (the record a turn works on is of the
chain as it is), `AtCut` (at the cut, the slice pins its step and holds what it
needs), `NotedAreCut` (no command writes the slice that a line names again),
`Accounted` and `NewSlices`. `CombinedIs` and `RunVerdictIs` say what the operators
of `SliceVerdict` come to, `KeptHasAsked`, `KeptOfOne`, `GoneHasNamed` and `GoneGrows`
what the least closed sets do. The attempt found a property to be wrong: a step of
the group whose defect did not show in the run that speaks is held by the slice and
not pinned there, and a step that reads it goes with it; after a kill before the
line, that step is accounted for by what the slice holds and not by what it pins.
`NoStepVanishes` says so now, and `pin_all` has such a chain (`Along`).

`IntermittentTrue` relates two runs of one verification, so it has an invariant of its
own beside `IInv`, `Alike`. `Runs` keeps the results of every run as a run of the
slice (`RunOf`: each step has a result that the steps before it leave it); two of them
that reach the target agree on it when no defect comes and goes and their fresh values
are both new, by looking at the first step that they disagree on (`SameAnswer`).
`AsTheFirst` and `FirstSeen` say that when the first run's value was new, so are those
of the later runs: none of them creates with a value unless the first did
(`FirstCreates`), wherever an earlier verification was killed.

`GateProofs` proves for any suites of chains, of any length, any profiles and any
defect, from `ScenariosAssumption` (`Shape`: a step reads what earlier writes of its
chain wrote; a defect of one call is at a step of the first chain):

- `NothingIsHidden`: `Spec => []NothingBeforeIsHidden`, whatever restarts;
- `RestartIsNone`: `Spec => []RestartIsNoFinding`, under `Rare`;
- `RestartIsNotJudged`: `Spec => []RestartIsNoRegression`, under `Rare`;
- `GreenIsGreen`: `Spec => []GreenIsTrue`, whatever restarts;
- `DefectFound`: `Spec => []DefectIsFound`, for a backend that does not restart.

`Rare` (at most one restart until the last chain is done, one before the gate
included, and at most one while the gate holds tokens) is the hypothesis
of the two about a healthy backend: two restarts that fall on the same call of
two tries are all that a backend looks like that refuses or drops it every time, and
the code reports them.

Each finding of the gate compares a record with the runs before it, so an invariant
must speak of all records on file. `Typed` says what an entry of a record can be,
`Shape` of the scenario included. `Restarted` says that a restart is used up: with one
restart each profile is refused at most once, and one call is cut off, in all
runs of the gate together (`BeforeCheck`), so nothing is found twice at one step
(`SessionsQuiet`, `LossQuiet`, `FreshQuiet`, `DropQuiet`); in the check of a session the
second pair of tokens is fetched only after the last restart and stays good
(`InCheck`). `Undisturbed` is about a chain under one profile: while every step was
answered well, what was written is still there, or a refused token that was accepted
earlier is on record, or will be at the next call, since the restart that
lost the data ended the session with it. So the first value that is missing comes at or
after such a refusal, and `verify` judges nothing from there on. `Green` follows the step
with the defect: it never ends as in the safe spot, a run ends at it when
something is asserted of it, and a gate that saw this has failed or left the
chain unverified.

`DefectFound` says that one gate ends with exit code 1 when the backend has a defect that
two tries tell from a restart (`Repeatable`). What those are is part of the result:
a refused call that is sent again, or that was refused a token accepted before with no
later call by which the code takes the token for the reason; a dropped call that is
followed by one which needs nothing of it; a changed value that is compared or
asserted; and sessions that are good for one call in a chain that calls twice under
one profile, where logins state an expiry. `Opening` says that without a restart the gate
begins with the first try at the first chain and that no token is dead. `DefectSeen` follows
the tries of that chain: `Shows` fixes how each step ends before, at and after the
defect, so two tries end alike and the second is judged with the first on
file (`DefectTry`, `Sighted`); the code's searches for a repetition each have a
lemma (`FreshTwice`, `EarlyTwice`, `LossTwice`, `DroppedTwice`), and once the
first chain is over there is a finding or a failure on record that later chains
do not take back (`Lasting`). `ShortSeen` does the same for sessions that are
good for one call, where a call under a token that is held is refused: `Ruled` is how each
step then ends, and the gate has failed, has a finding, or has at least one early
refusal of a profile with a read (`Evident`), which is counted again in a later chain or leads to the
held tokens.

The proof found a property to be wrong: `GreenIsTrue` said of sessions that end after one
call what it says of the other defects, and no chain of `gate_all` was short enough to show
the difference. With `Pair`, one early refusal and a passed chain leave the verdict to the
held tokens, and `heldProbes` has no result when a login or a probe fails
(`gatesession.go`): after a restart at that moment the gate exits 0. The property now says
that a gate passes such a backend only if it restarted.

`RunHistoryProofs` proves for any chain (steps read earlier steps only), any backends,
targets, error texts, numbers of processes, runs, kills and ticks to a second, from the
assumptions named in `RunHistory` (bounds are naturals, `Second` and `Scan` are not 0,
`None` is no name, record or error text, `Torn` is no record):

- `LatestIsTheLast`: `Spec => []LatestIsLast`;
- `FlakyIsTrue`: `Spec => []FlakyTrue`;
- `RepeatedIsNamed`: `Spec => []RepeatedNamed`, where a backend that answers the same
  way every time has one text for its errors (with several, two of its runs differ);
- `DriftIsKept`: `Spec => []DriftStays`, where the runs of a chain are no more than
  `pinnedReference` searches (50 in the code): past that the last run that failed as
  pinned may lie too far back, the next one has no reference, and a change is accepted.

The invariant of the system, `IInv`, is small: names are the second of the start and no
two runs share one (`TypeOK`, `FilesTrue`, `AtWork`), a record that can be read was
started before it was saved and shows an execution of the chain, and there are no more
names than runs (`Counted`). The work is in what the code does with it, which holds of
any such files:

- `ListIs`: the order of the files is total, so a sorted list exists (the place of a file
  is how many come before it) and has every file;
- `NewestIs`: the search that stops early finds the last run. `SearchedSo` says what
  it has after each record: the last of those that fit, and, once it has stopped, only
  earlier seconds lie ahead; a later second is of a later start (`SecondGrows`);
- `ExecutionHas`, `OneExecution`: each step of a run was skipped or answered, and a
  backend with one answer to each step makes one run of a chain;
- `ReferenceIs`: while all runs are searched, the reference fits, and there is none only
  where none fits.

The loops are recursive functions, which the provers do not unfold and for which the
library's induction theorem cannot be instantiated. `SearchDefined` and `RunsDefined`
show by a least counterexample that such a function exists, so that the one chosen is
one; what holds along it is shown by a least counterexample as well.

`DriftStays` compares runs in pairs, and a run is judged on one of them only, found long
before the run is saved. `Compared` says what holds in between: a process that found a
reference holds a run that is fit and started before it looked, and one that found none
knows that no run as pinned had been saved by then (`Referred`, `Judged`); and every
run as pinned has a fit one that started no later (`HasSound`), since a run that hit its
time limit is as pinned only when it had a reference. A run that is saved later is no
earlier than anybody's look (`Persists`). So when a run is saved, any other one of its
target overlapped with it or had been saved before it looked, and then agrees with its
reference.

Only model-checked:

- `HeldIsPrinted` and `Ended`, which are liveness and out of the prover's reach.

## Plan

In this order:

1. **The rest of the gate**: what an intermittent call explains (`explainsAll`,
   `settleFlaky`, `foldFlaky`) and chains kept red in a gate, with `RunHistory`; reused
   fixtures; the arithmetic of `TokenRefusal.Early` as an operator.
2. **Verify and diff**: pairing of steps and list members
   (`diff/membership.go`, `unordered.go`, `idrename.go`) as operators against a
   reference definition, under `Verdicts` in place of its `Changed`.
3. **Slices, the rest**: `stateIrrelevantIn` and `assertsWritten` from records, the
   checkpoints and pinned values of pin, `-without -verify`.
4. **Pins**: the `got` values of pins (`keptred.go`), and slugs that fold two names to one
   directory.
5. **Transport**: `readStream` with its timer, `AnsweredLater`, allowed hosts.
6. **Contract**: the order of producers in `plan.go` and the effects in
   `effects.go`.

Not modelled, and why: `catalog`, `config`, `doctor`, `pathmask`, `distill`,
`hollow`, `namecase`, `yamlkey` and `agentkit` keep no state between two
operations and interact with nothing; their correctness is about text and
descriptors, which tests reach and a model would only repeat.
