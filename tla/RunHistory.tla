----------------------------- MODULE RunHistory -----------------------------
(***************************************************************************)
(* The run records of one chain as every later command reads them.         *)
(* Several processes run the chain; each looks for the last run that       *)
(* failed as pinned, executes, judges what the pinned step returns against *)
(* that run, saves its record, and then reads the records again to say     *)
(* whether a server error comes and goes.  Records are ordered by the      *)
(* second in their name, and in one second by what they say of their       *)
(* start.  Other processes start, save and are killed in between.          *)
(***************************************************************************)
EXTENDS Integers, FiniteSets, SequencesExt

CONSTANTS Procs,      \* shrt run processes
          Chain,      \* its steps: call, request, read or write, the steps read
          Modes,      \* what the backend does, the targets, whether runs go on past a
                      \* failure, and bounds: how many runs, kills and ticks
          Errors,     \* texts of server errors
          Values,     \* what a pinned step may return beside the pinned path
          RandSuffix, \* what newRunID appends to the second, in the order of the names
          Second,     \* ticks of the clock that fall in one second
          Scan,       \* pinnedReferenceScan
          None, Torn

ASSUME BoundsAssumption == {Second, Scan} \subseteq Nat \ {0} /\ RandSuffix \subseteq Nat

\* A step reads earlier steps only.
ASSUME ChainAssumption == Len(Chain) \in Nat /\ \A s \in 1 .. Len(Chain) : Chain[s].reads \subseteq 1 .. s - 1

ASSUME ModesAssumption == \A m \in Modes : m.kind \in {"kept", "fixed", "flaky"} /\ m.runs \in Nat /\ None \notin m.error

\* What a step came to: its error, and that of a first try that was sent again.
Texts == (UNION {m.error : m \in Modes}) \cup Errors \cup {None}
Outcomes == [status : {"passed", "failed", "skipped"}, err : Texts, first : Texts]
Ids == Nat \X RandSuffix
Records == [id : Ids, looked : Nat, started : Nat, target : UNION {m.targets : m \in Modes}, steps : Seq(Outcomes),
            keptRed : {"", "as_pinned", "not_as_pinned"}, value : Values \cup {None}, slow : BOOLEAN]
ASSUME NoneAssumption == None \notin Ids \cup Records /\ Torn \notin Records

VARIABLES
  mode,     \* the backend, chosen once
  files,    \* files[id]: a record or a torn file, the start that can be read in it
            \* (-1 for none), and the time it was written
  clock,
  pc, ref,  \* of each process: its next step, and the reference it found
  rec,      \* the record of its run
  runs, kills

local == <<pc, ref, rec>>
vars == <<mode, files, clock, local, runs, kills>>

SecondOf(t) == t \div Second
Kept == mode.kind = "kept"

Init ==
  /\ mode \in Modes
  /\ files = <<>> /\ clock = 0
  /\ pc = [p \in Procs |-> "idle"]
  /\ ref = [p \in Procs |-> None] /\ rec = [p \in Procs |-> None]
  /\ runs = 0 /\ kills = 0

(***************************************************************************)
(* Which record is the last                                                *)
(***************************************************************************)
Whole(id) == files[id].rec # Torn
Readable == {id \in DOMAIN files : Whole(id)}

RanBefore(a, b) == \/ a.started < b.started
                   \/ a.started = b.started /\ a.id[1] = b.id[1] /\ a.id[2] < b.id[2]

\* Files by name alone.
ListedBeforeSlip(i, j) == i[1] < j[1] \/ (i[1] = j[1] /\ i[2] < j[2])

\* Files by name, and in one second by the start that the file states.
ListedBefore(i, j) ==
  LET start(id) == files[id].stated IN
  \/ i[1] < j[1]
  \/ i[1] = j[1] /\ \/ start(i) < start(j)
                    \/ start(i) = start(j) /\ \/ files[i].saved < files[j].saved
                                              \/ files[i].saved = files[j].saved /\ i[2] < j[2]
ListRuns ==
  LET n == Cardinality(DOMAIN files)
  IN  CHOOSE ids \in [1 .. n -> DOMAIN files] : \A j, k \in 1 .. n : j < k => ListedBefore(ids[j], ids[k])
LatestRun == Last(ListRuns)

\* The search ends at the first record that does not fit.
ConsiderSlip(acc, id, r, fits) ==
  IF acc.done \/ id = r.id THEN acc
  ELSE IF id \notin fits THEN [acc EXCEPT !.done = TRUE]
  ELSE IF acc.best = None \/ RanBefore(files[acc.best].rec, files[id].rec) THEN [acc EXCEPT !.best = id] ELSE acc

\* The search passes the run itself, and ends at a record of an earlier second than
\* the best so far.
Consider(acc, id, r, fits) ==
  IF acc.done \/ id = r.id THEN acc
  ELSE IF acc.best # None /\ id[1] < acc.best[1] THEN [acc EXCEPT !.done = TRUE]
  ELSE IF id \in fits /\ (acc.best = None \/ RanBefore(files[acc.best].rec, files[id].rec))
  THEN [acc EXCEPT !.best = id] ELSE acc

\* latestRunBefore and previousRunAttempting: from the end of the list.
Newest(r, fits) ==
  LET ids == ListRuns
      look[k \in 0 .. Len(ids)] ==
        IF k = 0 THEN [best |-> None, done |-> FALSE] ELSE Consider(look[k - 1], ids[Len(ids) + 1 - k], r, fits)
  IN look[Len(ids)].best

Earlier(r) == {id \in Readable : id # r.id /\ RanBefore(files[id].rec, r)}
Attempted(r, s) == s \in DOMAIN r.steps /\ r.steps[s].status # "skipped"
Found(id) == IF id = None THEN None ELSE files[id].rec
LatestRunBefore(r) == Found(Newest(r, Earlier(r)))
PreviousRunAttempting(r, s) == Found(Newest(r, {id \in Earlier(r) : Attempted(files[id].rec, s)}))

(***************************************************************************)
(* A run                                                                   *)
(***************************************************************************)
Passed == [status |-> "passed", err |-> None, first |-> None]
Failed(e, f) == [status |-> "failed", err |-> e, first |-> f]
Skipped == [status |-> "skipped", err |-> None, first |-> None]

\* A read answered with a server error is sent once more and judged on that.
Answers(s) ==
  LET again(e, f) == IF Chain[s].read THEN Failed(e, f) ELSE Failed(e, None)
  IN CASE mode.kind = "fixed" -> IF s \in mode.at THEN {again(e, e) : e \in mode.error} ELSE {Passed}
       [] mode.kind = "flaky" ->
            {Passed} \cup {again(e, f) : e, f \in Errors}
              \cup (IF Chain[s].read THEN {[Passed EXCEPT !.first = e] : e \in Errors} ELSE {})
       [] OTHER -> {Passed}

\* What Run records of the first n steps: it ends at a failure, or goes on and
\* skips the steps that read a step without a good answer.
Executions[n \in 0 .. Len(Chain)] ==
  IF n = 0 THEN {<<>>}
  ELSE UNION {LET stops == Len(x) < n - 1 \/ (x # <<>> /\ Last(x).status = "failed" /\ ~mode.keepGoing)
                  held == \E r \in Chain[n].reads : r \in DOMAIN x /\ x[r].status # "passed"
              IN IF stops THEN {x} ELSE IF held THEN {Append(x, Skipped)} ELSE {Append(x, a) : a \in Answers(n)}
              : x \in Executions[n - 1]}

Keep(p, to) == pc' = [pc EXCEPT ![p] = to]

\* Any earlier run of a chain kept red is what the next one is compared with.
FitsSlip(r, id) == Whole(id) /\ files[id].rec.started < r.at /\ files[id].rec.target = r.target
Fits(r, id) ==
  /\ Whole(id) /\ files[id].rec.started < r.at
  /\ files[id].rec.keptRed = "as_pinned" /\ ~files[id].rec.slow /\ files[id].rec.target = r.target

\* pinnedReference: the first in the list, from its end, among so many of them.
PinnedReference(r) ==
  LET ids == ListRuns
      last == IF Len(ids) > Scan THEN Len(ids) - Scan + 1 ELSE 1
      fit == {k \in last .. Len(ids) : Fits(r, ids[k])}
  IN IF fit = {} THEN None ELSE ids[Max(fit)]

\* A chain that is kept red looks for its reference before it runs.
Look(p, t) ==
  /\ Kept /\ pc[p] = "idle"
  /\ ref' = [ref EXCEPT ![p] = Found(PinnedReference([at |-> clock, target |-> t]))]
  /\ rec' = [rec EXCEPT ![p] = [target |-> t, looked |-> clock]]
  /\ Keep(p, "start")
  /\ UNCHANGED <<mode, files, clock, runs, kills>>

\* newRunID: the second and a random suffix.
Start(p, t, n) ==
  /\ IF Kept THEN pc[p] = "start" /\ t = rec[p].target ELSE pc[p] = "idle"
  /\ runs < mode.runs /\ runs' = runs + 1
  /\ LET id == <<SecondOf(clock), n>> IN
       /\ id \notin DOMAIN files
       /\ \A q \in Procs : pc[q] = "run" => rec[q].id # id
       /\ rec' = [rec EXCEPT ![p] = [id |-> id, looked |-> IF Kept THEN rec[p].looked ELSE clock, started |-> clock,
                                     target |-> t, steps |-> <<>>, keptRed |-> "", value |-> None, slow |-> FALSE]]
  /\ Keep(p, "run")
  /\ UNCHANGED <<mode, files, clock, ref, kills>>

\* judgePinnedDrift, of a run that keptRedVerdict let pass.
Drift(r, was) == IF was # None /\ was.value # r.value THEN "not_as_pinned" ELSE "as_pinned"

Put(id, r, at) ==
  files' = [i \in DOMAIN files \cup {id} |-> IF i = id THEN [rec |-> r, stated |-> at, saved |-> clock] ELSE files[i]]

\* The chain is executed and its record judged; SaveRun creates the file and then
\* writes it: of the part that is there the start may be read or not.
Execute(p) ==
  /\ pc[p] = "run" /\ clock > rec[p].started
  /\ \E x \in Executions[Len(Chain)] : LET r == [rec[p] EXCEPT !.steps = x] IN
       IF Kept
       THEN \/ rec' = [rec EXCEPT ![p] = [r EXCEPT !.keptRed = "not_as_pinned"]]
            \/ \E v \in Values, slow \in {FALSE, ref[p] # None} : LET w == [r EXCEPT !.value = v, !.slow = slow]
               IN rec' = [rec EXCEPT ![p] = [w EXCEPT !.keptRed = Drift(w, ref[p])]]
       ELSE rec' = [rec EXCEPT ![p] = r]
  /\ \E at \in {-1, rec[p].started} : Put(rec[p].id, Torn, at)
  /\ ref' = [ref EXCEPT ![p] = None]
  /\ Keep(p, "fill")
  /\ UNCHANGED <<mode, clock, runs, kills>>

\* A run of a chain kept red is not asked for errors that come and go.
SaveFill(p) ==
  /\ pc[p] = "fill"
  /\ Put(rec[p].id, rec[p], rec[p].started)
  /\ IF Kept THEN Keep(p, "idle") /\ rec' = [rec EXCEPT ![p] = None] ELSE Keep(p, "judge") /\ rec' = rec
  /\ UNCHANGED <<mode, clock, ref, runs, kills>>

(***************************************************************************)
(* Does a server error come and go                                         *)
(***************************************************************************)
SameRequest(s, o) == Chain[s].call = Chain[o].call /\ Chain[s].req = Chain[o].req
AnsweredAsExpected(r, s) == s \in DOMAIN r.steps /\ r.steps[s].status = "passed"
ResentAnswered(r, s) == r.steps[s].first # None /\ r.steps[s].err = None
ErrorIn(r, s) == IF s \in DOMAIN r.steps THEN r.steps[s].err ELSE None

\* The same error at another step of the previous run is taken to be enough.
MovedSlip(r, last, s) ==
  /\ last # None
  /\ \E o \in DOMAIN last.steps \ {s} : ErrorIn(last, o) = r.steps[s].err
\* The previous run had this step answered, and the same error at another.
Moved(r, last, s) ==
  /\ last # None /\ AnsweredAsExpected(last, s)
  /\ \E o \in DOMAIN last.steps \ {s} : ErrorIn(last, o) = r.steps[s].err

Repeated(r, last, s) ==
  /\ last # None /\ s \in DOMAIN last.steps
  /\ IF ResentAnswered(r, s) THEN last.steps[s].first = r.steps[s].first
     ELSE last.steps[s].err = r.steps[s].err

Evidence(r, last, s) ==
  [at |-> s, resent |-> ResentAnswered(r, s),
   sameRun |-> \E o \in DOMAIN r.steps \ {s} : AnsweredAsExpected(r, o) /\ SameRequest(o, s),
   moved |-> ~ResentAnswered(r, s) /\ Moved(r, last, s), repeated |-> Repeated(r, last, s)]

\* detectIntermittent: a finding, or a note where only the previous run that
\* sent the step speaks against it.
DetectIntermittent(r) ==
  LET last == LatestRunBefore(r)
      erred == {s \in DOMAIN r.steps : ResentAnswered(r, s) \/ (r.steps[s].err # None /\ r.keptRed = "")}
      all == {Evidence(r, last, s) : s \in erred}
      steps == {f \in all : f.resent \/ f.sameRun \/ f.moved}
      weak == {f \in all \ steps : LET prev == PreviousRunAttempting(r, f.at) IN prev # None /\ AnsweredAsExpected(prev, f.at)}
  IN [steps |-> steps, weak |-> weak,
      kind |-> IF steps = {} THEN "none" ELSE IF \A f \in steps : f.repeated THEN "repeated" ELSE "intermittent"]

Judge(p) ==
  /\ pc[p] = "judge"
  /\ rec' = [rec EXCEPT ![p] = None]
  /\ Keep(p, "idle")
  /\ UNCHANGED <<mode, files, clock, ref, runs, kills>>

(***************************************************************************)
(* What happens meanwhile                                                  *)
(***************************************************************************)
Tick == clock < mode.ticks /\ clock' = clock + 1 /\ UNCHANGED <<mode, files, local, runs, kills>>

Kill(p) ==
  /\ pc[p] = "fill" /\ kills < mode.kills
  /\ kills' = kills + 1
  /\ rec' = [rec EXCEPT ![p] = None]
  /\ Keep(p, "idle")
  /\ UNCHANGED <<mode, files, clock, ref, runs>>

Next ==
  \/ \E p \in Procs : \/ \E t \in mode.targets : Look(p, t) \/ \E n \in RandSuffix : Start(p, t, n)
                      \/ Execute(p) \/ SaveFill(p) \/ Judge(p) \/ Kill(p)
  \/ Tick
Spec == Init /\ [][Next]_vars

-----------------------------------------------------------------------------
\* Whatever the order in which runs end, are saved and are torn: the record that
\* `latest` names, if it can be read, is of the run that started last, and the
\* search that stops early finds the last run before any given one.
LatestIsLast ==
  /\ DOMAIN files # {} => LET latest == LatestRun IN
       Whole(latest) => \A id \in Readable : files[id].rec.started <= files[latest].rec.started
  /\ \A id \in Readable : LET before == Earlier(files[id].rec)  last == LatestRunBefore(files[id].rec) IN
       IF before = {} THEN last = None
       ELSE \E l \in before : last = files[l].rec /\ \A o \in before \ {l} : RanBefore(files[o].rec, last)

AsPinned(t) == {id \in Readable : files[id].rec.keptRed = "as_pinned" /\ files[id].rec.target = t}
Apart(i, j) == files[i].saved < files[j].rec.looked \/ files[j].saved < files[i].rec.looked

\* What a pinned step returns beside its pinned path may not change unseen: all
\* runs that failed as pinned against one target returned the same, unless two of
\* them overlapped.  A change that was reported is reported again by the next
\* run; it does not become what later runs are compared with.
DriftStays ==
  \A t \in mode.targets :
    (\A i, j \in AsPinned(t) : i # j => Apart(i, j))
      => \A i, j \in AsPinned(t) : files[i].rec.value = files[j].rec.value

\* A backend that answers the same calls the same way in every run is not said to
\* answer a re-send, nor to fail now here and now there, nor to have answered
\* before what it fails now.
FlakyTrue ==
  \A p \in Procs : pc[p] = "judge" =>
    LET said == DetectIntermittent(rec[p]) IN
    (\E f \in said.steps : f.resent \/ f.moved) \/ said.weak # {} => mode.kind = "flaky"

\* Such a backend may answer one request at one step and fail it at another; that
\* is called intermittent only until one earlier run is on record, and from then
\* on a repeated failure, "not by chance: a defect" (findingMeaning).
RepeatedNamed ==
  \A p \in Procs : pc[p] = "judge" /\ mode.kind = "fixed" /\ Earlier(rec[p]) # {} =>
    DetectIntermittent(rec[p]).kind # "intermittent"
=============================================================================
