------------------------------ MODULE ChainRun ------------------------------
(***************************************************************************)
(* One run of a chain by package runner: Run's loop over the steps and     *)
(* runStep for each.  A step reads earlier steps by references (to a field *)
(* of a response, to a request, to an export), is sent or held back, is    *)
(* answered in any way the backend, the network or a gateway can answer,   *)
(* and is judged.  With -keep-going, with kept_red, and behind a refusal   *)
(* by the service the run goes on past a failure; when all steps are done  *)
(* the record is settled and given its status and its kept_red verdict.    *)
(***************************************************************************)
EXTENDS Integers, Sequences, FiniteSets

CONSTANTS Chains,   \* the chains run: see ChainShape
          Fields,   \* paths into a response that steps read or assert
          Names,    \* names of exports
          Calls,    \* rpcs
          MaxSteps, \* bound: steps of a chain
          None

\* A reference reads a field of the response of a step, its request, or an
\* export.  An expectation is a path with the references its operands hold.
Refs == [from : 1..MaxSteps \cup Names, field : Fields \cup {"request", "value"}]
Paths == Fields \cup {"code", "transport", "items"}

IsStep(s) ==
  /\ s.call \in Calls /\ s.read \in BOOLEAN /\ s.allow \in BOOLEAN /\ s.refs \subseteq Refs
  /\ DOMAIN s.expect \subseteq Fields \cup {"code", "transport"}
  /\ \A p \in DOMAIN s.expect : s.expect[p] \subseteq Refs
  /\ DOMAIN s.export \subseteq Names /\ \A x \in DOMAIN s.export : s.export[x] \in Fields

\* checkKeptRed
PinsDeclared(c) ==
  \A p \in c.pins : p[1] \in DOMAIN c.steps /\ p[2] \in DOMAIN c.steps[p[1]].expect

\* Load and preflight: references go to earlier steps, pins to expectations.
ChainShape(c) ==
  /\ c.goOn \in BOOLEAN /\ DOMAIN c.steps = 1..Len(c.steps) /\ Len(c.steps) \in 1..MaxSteps
  /\ \A k \in DOMAIN c.steps : IsStep(c.steps[k])
  /\ \A k \in DOMAIN c.steps : \A r \in c.steps[k].refs :
       IF r.from \in Names THEN \E j \in 1..(k - 1) : r.from \in DOMAIN c.steps[j].export
                           ELSE r.from < k
  /\ \A k \in DOMAIN c.steps : \A p \in DOMAIN c.steps[k].expect :
       \A r \in c.steps[k].expect[p] : r.from \in Names \/ r.from < k
  /\ PinsDeclared(c)

ASSUME ChainsAssumption == MaxSteps \in Nat /\ \A c \in Chains : ChainShape(c)
ASSUME NamesAssumption == Names \cap Int = {} /\ None \notin Paths
                          /\ Fields \cap {"code", "transport", "items", "request", "value"} = {}

VARIABLES
  chain,     \* the chain of this run
  recs,      \* the step records so far
  broken,    \* steps that did not pass: the loop's map of that name
  exporter,  \* exporter[x]: the last step that declares export x, and its path
  exports,   \* exports[x]: the step and field whose value x holds, None before one
  keepGoing, dead,  \* the loop's variables; dead is the unreachable step, or 0
  failed, failedSteps,
  held, printed,    \* steps held back from OnStep, and shown by it
  phase,     \* "run", "stopped" (break), "ended" (loop done), "done" (record returned)
  status, keptRed

vars == <<chain, recs, broken, exporter, exports, keepGoing, dead, failed, failedSteps,
          held, printed, phase, status, keptRed>>

Init ==
  /\ chain \in Chains
  /\ recs = <<>> /\ broken = {}
  /\ exporter = [x \in Names |-> [step |-> 0, field |-> "value"]]
  /\ exports = [x \in Names |-> None]
  /\ keepGoing = (chain.goOn \/ chain.pins # {}) /\ dead = 0
  /\ failed = <<>> /\ failedSteps = <<>> /\ held = <<>> /\ printed = <<>>
  /\ phase = "run" /\ status = "passed" /\ keptRed = "none"

i == Len(recs) + 1
step == chain.steps[i]

(***************************************************************************)
(* Step records                                                            *)
(***************************************************************************)
\* view is what the scope holds of the step: nothing, its request, its response.
Blank == [status |-> "passed", sent |-> FALSE, view |-> "none", request |-> FALSE,
          present |-> {}, transport |-> "none", drift |-> FALSE, inband |-> FALSE,
          results |-> <<>>, refused |-> <<>>, answered |-> FALSE,
          unreachable |-> FALSE, closed |-> FALSE, used |-> {}]

NotHeld(results) == {p \in DOMAIN results : results[p] # "held"}
AssertionFailed(sr) == NotHeld(sr.results) # {}

\* answered by something other than a gateway or a backend that is restarting
NotAnsweredByService(sr) == sr.status = "error" /\ sr.transport \in {"unavailable", "http_503"}
ServiceRefused(sr) == NotAnsweredByService(sr) /\ sr.transport = "unavailable"
Answered(sr) == sr.answered /\ ~NotAnsweredByService(sr)

\* allow_fail for whatever failed.
ToleratedSlip(s, sr) == s.allow /\ sr.status \in {"failed", "error"}

\* allow_fail: the loop goes on and the run may pass.
Tolerated(s, sr) == s.allow /\ sr.status = "failed" /\ ~AssertionFailed(sr) /\ ~sr.drift

(***************************************************************************)
(* References                                                              *)
(***************************************************************************)
Producer(r) == IF r.from \in Names THEN exporter[r.from].step ELSE r.from
PathOf(r)   == IF r.from \in Names THEN exporter[r.from].field ELSE r.field

\* Any field of a step that failed on an assertion.
SoundSlip(sr, f) == sr.status = "failed" /\ sr.transport = "none" /\ ~sr.drift /\ f \in Fields

\* readsSoundField: a field of an answer that failed, but not on this field.
Sound(sr, f) ==
  /\ sr.status = "failed" /\ sr.transport = "none" /\ ~sr.drift /\ ~sr.inband
  /\ AssertionFailed(sr)
  /\ f \in Fields /\ f \notin NotHeld(sr.results) /\ "items" \notin NotHeld(sr.results)

ReadsBroken(refs) ==
  \E r \in refs :
    LET j == Producer(r) IN
    /\ j \in broken
    /\ ~(r.from \notin Names /\ r.field = "request" /\ recs[j].request)
    /\ ~Sound(recs[j], PathOf(r))

\* What a reference resolves to: its value, a field the answer lacks, nothing.
Resolves(r) ==
  IF r.from \in Names THEN IF exports[r.from] # None THEN "value" ELSE "nothing"
  ELSE LET sr == recs[r.from] IN
       IF r.field = "request" THEN IF sr.view # "none" THEN "value" ELSE "nothing"
       ELSE IF sr.view # "response" THEN "nothing"
       ELSE IF r.field \in sr.present THEN "value" ELSE "missing"

Source(r) == IF r.from \in Names THEN exports[r.from] ELSE <<r.from, r.field>>
Resolved == \A r \in step.refs : Resolves(r) = "value"

(***************************************************************************)
(* Answers to a call that is sent                                          *)
(***************************************************************************)
Codes == {"unavailable", "http_503", "internal", "unauthenticated"}
NoAnswer == [kind |-> "lost", code |-> "none", closed |-> FALSE, auth |-> FALSE,
             holds |-> {}, present |-> {}, verdict |-> "ok", shape |-> "sound"]

\* No connection; none or a closed one after sending; refused before a body.
Errors == {[NoAnswer EXCEPT !.kind = "unreachable"], NoAnswer, [NoAnswer EXCEPT !.closed = TRUE]}
Refusals(s) ==
  {[NoAnswer EXCEPT !.kind = "refused", !.code = c, !.holds = h, !.auth = (c = "unauthenticated")] :
     c \in Codes, h \in SUBSET (DOMAIN s.expect \cap {"transport"})}

\* An answer: which expectations hold on it, which fields it carries, what its
\* envelope says ("item": an item of a list is refused), whether its body can
\* be read, and whether the envelope says the caller is not authenticated.
Bodies(s) ==
  {[NoAnswer EXCEPT !.kind = "answered", !.holds = h, !.present = f, !.verdict = v] :
     h \in SUBSET DOMAIN s.expect, f \in SUBSET Fields, v \in {"ok", "item"}}
  \cup
  {[NoAnswer EXCEPT !.kind = "answered", !.holds = h, !.present = f, !.verdict = "refused", !.auth = a] :
     h \in SUBSET DOMAIN s.expect, f \in {{}, Fields}, a \in BOOLEAN}
  \cup
  {[NoAnswer EXCEPT !.kind = "answered", !.present = Fields, !.shape = x] :
     x \in {"repeated", "drift", "undecodable"}}

Answers(s) == Errors \cup Refusals(s) \cup Bodies(s)

\* resendable: a read whose answer was a server error, unless it asserts that.
Resendable(s, a) ==
  /\ a.kind = "refused" /\ s.read /\ "transport" \notin DOMAIN s.expect
  /\ a.code \in {"unavailable", "internal"}

Sent == [Blank EXCEPT !.sent = TRUE, !.view = "request", !.request = TRUE,
                      !.used = {Source(r) : r \in step.refs}]

Unevaluated(s) == [p \in DOMAIN s.expect |-> "unevaluated"]

\* heldBack: an expectation that reads a broken step is not evaluated, nor does
\* one hold whose reference does not resolve.
Judged(s, a) ==
  [p \in DOMAIN s.expect |->
     IF keepGoing /\ ReadsBroken(s.expect[p]) THEN "unevaluated"
     ELSE IF p \in a.holds /\ (\A r \in s.expect[p] : Resolves(r) = "value") THEN "held"
     ELSE "failed"]

\* evaluateRefused: only assertions on the transport are evaluated.
JudgedRefused(s, a) ==
  [p \in DOMAIN s.expect |-> IF p = "transport" THEN Judged(s, a)[p] ELSE "unevaluated"]

\* unpinnedRefusal and item_envelope add a failed result of their own.
Pinned(s, a) == "code" \in DOMAIN s.expect
                \/ ("transport" \in DOMAIN s.expect /\ "transport" \notin a.holds)
Added(s, a) ==
  [p \in (IF a.verdict = "refused" /\ DOMAIN s.expect # {} /\ ~Pinned(s, a) THEN {"code"} ELSE {})
         \cup (IF a.verdict = "item" THEN {"items"} ELSE {}) |-> "failed"]
Joined(f, g) == [p \in DOMAIN f \cup DOMAIN g |-> IF p \in DOMAIN g THEN g[p] ELSE f[p]]

Missing(s, a) == \E x \in DOMAIN s.export : s.export[x] \notin a.present

AnswerRecord(s, a) ==
  LET sr == [Sent EXCEPT !.answered = TRUE, !.inband = (a.verdict = "refused")]
      results == Joined(Judged(s, a), Added(s, a))
  IN CASE a.shape = "undecodable" -> [sr EXCEPT !.status = "error", !.inband = FALSE]
       [] a.shape = "drift" ->
            [sr EXCEPT !.status = "failed", !.drift = TRUE, !.results = Unevaluated(s)]
       [] a.shape = "repeated" -> [sr EXCEPT !.status = "failed", !.results = Unevaluated(s)]
       [] a.shape = "sound" ->
            [sr EXCEPT !.view = "response", !.present = a.present, !.results = results,
                       !.status = IF NotHeld(results) # {} \/ Missing(s, a)
                                  THEN "failed" ELSE "passed"]

RefusalRecord(s, a) ==
  LET results == JudgedRefused(s, a)
      asserted == "transport" \in DOMAIN s.expect /\ NotHeld(results) = {}
      sr == [Sent EXCEPT !.answered = TRUE, !.transport = a.code]
  IN IF asserted
     THEN [sr EXCEPT !.results = results,
                     !.status = IF DOMAIN s.export = {} THEN "passed" ELSE "failed"]
     ELSE IF a.code \in {"unavailable", "http_503"}
     THEN [sr EXCEPT !.status = "error", !.results = Unevaluated(s), !.refused = results]
     ELSE [sr EXCEPT !.status = "failed", !.results = results]

\* The record of the answer that is judged; authRefusedIsNoVerdict comes last.
Record(s, a) ==
  LET sr == CASE a.kind = "unreachable" -> [Sent EXCEPT !.status = "error", !.unreachable = TRUE]
              [] a.kind = "lost" -> [Sent EXCEPT !.status = "error", !.closed = a.closed]
              [] a.kind = "refused" -> RefusalRecord(s, a)
              [] a.kind = "answered" -> AnswerRecord(s, a)
  IN IF a.auth /\ ~s.allow /\ sr.status = "failed" THEN [sr EXCEPT !.status = "error"] ELSE sr

(***************************************************************************)
(* The loop of Run                                                         *)
(***************************************************************************)
\* report: OnStep waits while a closed connection may still be explained by a
\* later step that is answered.
Report(sr) ==
  LET h == Append(held, i)
      rec(k) == IF k = i THEN sr ELSE recs[k]
  IN IF ~Answered(sr) /\ rec(h[1]).closed
     THEN held' = h /\ UNCHANGED printed
     ELSE held' = <<>> /\ printed' = printed \o h

\* Every failure, without the rest of the loop's bookkeeping.
Counted(sr) == /\ broken' = broken \cup {i}
               /\ failed' = Append(failed, i)
               /\ failedSteps' = Append(failedSteps, i)
               /\ keepGoing' = TRUE
               /\ dead' = IF sr.unreachable THEN i ELSE dead

\* The last step that declares an export counts as its writer, sent or not.
ExporterAfter(sr) ==
  [x \in Names |-> IF x \in DOMAIN step.export
                   THEN [step |-> i, field |-> step.export[x]] ELSE exporter[x]]

\* What the loop does with the record of a step it ran or held back.
Finish(sr) ==
  /\ recs' = Append(recs, sr)
  /\ Report(sr)
  /\ exporter' = ExporterAfter(sr)
  /\ IF sr.status = "passed" \/ Tolerated(step, sr)
     THEN /\ phase' = IF i = Len(chain.steps) THEN "ended" ELSE "run"
          /\ UNCHANGED <<broken, failed, failedSteps, keepGoing, dead, status>>
     ELSE IF ~keepGoing /\ ~ServiceRefused(sr)
     THEN /\ phase' = "stopped" /\ status' = sr.status
          /\ UNCHANGED <<broken, failed, failedSteps, keepGoing, dead>>
     ELSE /\ phase' = IF i = Len(chain.steps) THEN "ended" ELSE "run"
          /\ Counted(sr)
          /\ UNCHANGED status
  /\ UNCHANGED <<chain, keptRed>>

Ready == phase = "run" /\ dead = 0
Behind == keepGoing /\ ReadsBroken(step.refs)

\* The target is unreachable: the rest is not sent.
SkipUnreachable ==
  /\ phase = "run" /\ dead # 0
  /\ LET sr == [Blank EXCEPT !.status = "skipped", !.unreachable = TRUE] IN
     /\ recs' = Append(recs, sr)
     /\ Report(sr)
  /\ failedSteps' = Append(failedSteps, i)
  /\ phase' = IF i = Len(chain.steps) THEN "ended" ELSE "run"
  /\ UNCHANGED <<chain, broken, exporter, exports, keepGoing, dead, failed, status, keptRed>>

\* The step reads one that did not pass.
SkipBehind ==
  /\ Ready /\ Behind
  /\ Finish([Blank EXCEPT !.status = "skipped"])
  /\ UNCHANGED exports

\* failRef: a field the answer lacks fails the step, anything else is an error;
\* which of several references is met first is not defined.
FailRef ==
  /\ Ready /\ ~Behind /\ ~Resolved
  /\ \E r \in step.refs :
        /\ Resolves(r) # "value"
        /\ Finish([Blank EXCEPT !.status = IF Resolves(r) = "missing" THEN "failed" ELSE "error"])
  /\ UNCHANGED exports

\* The request built from the values read does not match the rpc.
Invalid ==
  /\ Ready /\ ~Behind /\ Resolved /\ step.refs # {}
  /\ Finish([Blank EXCEPT !.status = "failed", !.view = "request"])
  /\ UNCHANGED exports

\* Of a response that could be read, every exported field that is present.
Exported(a) ==
  exports' = IF a.kind = "answered" /\ a.shape = "sound"
             THEN [x \in Names |-> IF x \in DOMAIN step.export /\ step.export[x] \in a.present
                                  THEN <<i, step.export[x]>> ELSE exports[x]]
             ELSE exports

Call(a) ==
  /\ Ready /\ ~Behind /\ Resolved
  /\ ~Resendable(step, a)
  /\ Finish(Record(step, a))
  /\ Exported(a)

\* resendRead: the second answer is judged, the first when there is none.  The
\* second call's own notes of a refused token are not looked at.
CallTwice(a, b) ==
  /\ Ready /\ ~Behind /\ Resolved
  /\ Resendable(step, a)
  /\ LET judged == IF b \in Errors THEN a ELSE [b EXCEPT !.auth = FALSE] IN
     /\ Finish(Record(step, judged))
     /\ Exported(judged)

(***************************************************************************)
(* The end of Run                                                          *)
(***************************************************************************)
\* settleServiceRefusals: the service that refused answered the same rpc at
\* another step, and some step after this one.
Settled(rs) ==
  LET own(k) == /\ ServiceRefused(rs[k])
                /\ \E j \in DOMAIN rs \ {k} :
                      Answered(rs[j]) /\ chain.steps[j].call = chain.steps[k].call
                /\ \E j \in DOMAIN rs : j > k /\ Answered(rs[j])
  IN [k \in DOMAIN rs |-> IF own(k) THEN [rs[k] EXCEPT !.status = "failed", !.results = rs[k].refused]
                          ELSE rs[k]]

\* stepMismatch: the step did not fail as its pins say.
MismatchSlip(sr, pins) ==
  \/ sr.status = "error" \/ sr.drift \/ ~AssertionFailed(sr)
  \/ sr.transport # "none" /\ pins = {}
  \/ ~(pins \subseteq NotHeld(sr.results))

Mismatch(sr, pins) ==
  \/ sr.status = "error" \/ sr.drift \/ ~AssertionFailed(sr)
  \/ sr.transport # "none" /\ pins = {}
  \/ \E p \in pins \cap DOMAIN sr.results : sr.results[p] = "unevaluated"
  \/ NotHeld(sr.results) # pins

\* keptRedVerdict; the values a pin may name are left out.
KeptRedVerdict(rs, st) ==
  IF chain.pins = {} \/ st = "error" THEN "none"
  ELSE IF st = "passed" THEN "defect_gone"
  ELSE IF \A k \in DOMAIN chain.steps :
            LET pins == {p[2] : p \in {q \in chain.pins : q[1] = k}} IN
            IF k \notin DOMAIN rs THEN pins = {}
            ELSE \/ rs[k].status = "passed" /\ pins = {}
                 \/ pins = {} /\ Tolerated(chain.steps[k], rs[k])
                 \/ rs[k].status \in {"failed", "error"} /\ ~Mismatch(rs[k], pins)
       THEN "as_pinned" ELSE "not_as_pinned"

\* report(held, nil), left out.
FlushSlip == UNCHANGED <<held, printed>>

\* report(held, nil)
Flush == held' = <<>> /\ printed' = printed \o held

Return ==
  /\ phase \in {"stopped", "ended"} /\ phase' = "done"
  /\ Flush
  /\ LET rs == Settled(recs)
         st == IF failed = <<>> THEN status
               ELSE IF rs[failed[1]].status = "skipped" THEN "failed" ELSE rs[failed[1]].status
     IN /\ recs' = rs /\ status' = st
        /\ keptRed' = KeptRedVerdict(rs, st)
  /\ UNCHANGED <<chain, broken, exporter, exports, keepGoing, dead, failed, failedSteps>>

Next ==
  \/ SkipUnreachable \/ SkipBehind \/ FailRef \/ Invalid \/ Return
  \/ Ready /\ \E a \in Answers(step) : Call(a)
  \/ Ready /\ \E a \in Refusals(step), b \in Answers(step) : CallTwice(a, b)

Spec == Init /\ [][Next]_vars

\* One goroutine runs the loop, and every call and every wait has a timeout.
FairSpec == Spec /\ WF_vars(Next)

(***************************************************************************)
(* Properties                                                              *)
(***************************************************************************)

\* A value of this answer that its own step's expectations say is wrong: of the
\* field that failed, or of an answer that failed as a refusal.
Wrong(sr, f) ==
  /\ sr.status # "passed" /\ f # "request"
  /\ \/ f \in NotHeld(sr.results)
     \/ AssertionFailed(sr) /\ (sr.inband \/ "items" \in NotHeld(sr.results))

\* Past a failure, no request is built from a value the chain has already said
\* is wrong (readsBroken, runner.go:663): through no reference, and no export.
NothingPoisoned ==
  \A k \in DOMAIN recs : \A u \in recs[k].used : ~Wrong(recs[u[1]], u[2])

\* A run passes only when every step of its chain passed with every expectation
\* held, or was tolerated: allow_fail never waives an error, nor an expectation
\* that failed or was not evaluated on an answer (runner.go:1112).  Like an answer
\* without an assertion, a step that was not sent has none that failed.
PassedMeansPassed ==
  phase = "done" /\ status = "passed" =>
    /\ Len(recs) = Len(chain.steps)
    /\ \A k \in DOMAIN recs :
         /\ NotHeld(recs[k].results) = {}
         /\ recs[k].status = "passed" \/ (chain.steps[k].allow /\ recs[k].status = "failed")

\* In the end every step that has a record has been shown, once and in order,
\* also one held back in the hope of an explanation that never came.
HeldIsPrinted == <>[](printed = [k \in DOMAIN recs |-> k])

PinsOf(k) == {p[2] : p \in {q \in chain.pins : q[1] = k}}

\* as_pinned, which lets a red run exit 0, means: every pinned expectation was
\* evaluated on an answer and failed, no other was left unevaluated or failed, and
\* every step was answered, except steps with allow_fail and without pins that
\* failed: nothing may have been sent for one of these, when a field it reads was
\* missing, and then nothing it asserts was evaluated (keptred.go:60).
KeptRedSeen ==
  keptRed = "as_pinned" =>
    \A k \in DOMAIN chain.steps :
      /\ k \in DOMAIN recs
      /\ recs[k].answered \/ (chain.steps[k].allow /\ recs[k].status = "failed" /\ PinsOf(k) = {})
      /\ NotHeld(recs[k].results) = PinsOf(k)
      /\ \A p \in PinsOf(k) : recs[k].results[p] = "failed"
=============================================================================
