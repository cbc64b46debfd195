--------------------------- MODULE ChainRunProofs ---------------------------
(***************************************************************************)
(* For chains of any length, whatever is answered: a run that passes is    *)
(* one whose every step passed or was tolerated, `as_pinned` is said of    *)
(* nothing else than what is pinned, and, when no two steps export one     *)
(* name, no request is built from a value the chain has said is wrong.     *)
(***************************************************************************)
EXTENDS ChainRun, TLAPS

(***************************************************************************)
(* What a step record is                                                   *)
(***************************************************************************)
Verdicts == {"held", "failed", "unevaluated"}
Results == UNION {[D -> Verdicts] : D \in SUBSET Paths}
StepRecords ==
  [status : {"passed", "failed", "error", "skipped"}, sent : BOOLEAN,
   view : {"none", "request", "response"}, request : BOOLEAN, present : SUBSET Fields,
   transport : Codes \cup {"none"}, drift : BOOLEAN, inband : BOOLEAN,
   results : Results, refused : Results, answered : BOOLEAN,
   unreachable : BOOLEAN, closed : BOOLEAN, used : SUBSET (Nat \X (Fields \cup {"request"}))]

\* A step that passed was answered and held all that it asserts; an assertion
\* fails on an answer only, and a refusal by the transport shows no response.
RecordOK(sr) ==
  /\ sr \in StepRecords
  /\ sr.status = "passed" => sr.answered /\ NotHeld(sr.results) = {}
  /\ AssertionFailed(sr) => sr.answered
  /\ sr.transport # "none" => sr.answered /\ sr.view # "response"
  /\ sr.status = "skipped" => sr.used = {}

(***************************************************************************)
(* The inductive invariant                                                 *)
(***************************************************************************)
Fine(k) == recs[k].status = "passed" \/ Tolerated(chain.steps[k], recs[k])

\* The loop: how far it is, and what its variables say of the steps so far.
LoopOK ==
  /\ chain \in Chains
  /\ recs \in Seq(StepRecords) /\ \A k \in DOMAIN recs : RecordOK(recs[k])
  /\ Len(recs) <= Len(chain.steps)
  /\ phase \in {"run", "stopped", "ended", "done"}
  /\ phase = "run" => Len(recs) < Len(chain.steps)
  /\ phase = "ended" => Len(recs) = Len(chain.steps)
  /\ phase \in {"run", "ended"} => status = "passed" /\ (failed = <<>> => \A k \in DOMAIN recs : Fine(k))
  /\ phase = "stopped" => status # "passed"
  /\ failed \in Seq(Nat)
  /\ failed # <<>> /\ phase # "done" => failed[1] \in DOMAIN recs /\ recs[failed[1]].status # "passed"
  /\ dead # 0 => failed # <<>>
  /\ chain.pins # {} => keepGoing /\ phase # "stopped"
  /\ phase # "done" => keptRed = "none"

\* An export holds a field of an answer.
ExportsTyped == \A x \in Names : exports[x] # None => exports[x] \in Nat \X Fields

SeenInv == LoopOK /\ ExportsTyped /\ PassedMeansPassed /\ KeptRedSeen

\* No two steps of a chain export one name (lint warns of those that do).
OneWriter ==
  \A c \in Chains : \A j, k \in DOMAIN c.steps : \A x \in Names :
    x \in DOMAIN c.steps[j].export /\ x \in DOMAIN c.steps[k].export => j = k

\* Every step so far that did not pass is known to be broken.
BrokenKnown ==
  /\ broken \subseteq DOMAIN recs /\ (broken # {} => keepGoing)
  /\ phase = "run" /\ dead = 0 => \A k \in DOMAIN recs \ broken : Fine(k)

\* An export holds what the one step that exports it answered.
ExportsTrue ==
  \A x \in Names :
    /\ exporter[x].step # 0 =>
         /\ exporter[x].step \in DOMAIN recs
         /\ x \in DOMAIN chain.steps[exporter[x].step].export
    /\ exports[x] # None =>
         /\ exporter[x].step # 0 /\ exports[x] = <<exporter[x].step, exporter[x].field>>
         /\ exporter[x].field \in Fields
         /\ recs[exporter[x].step].view = "response"

\* What a step used is an earlier step's request, or is of its response.
UsedEarlier ==
  \A k \in DOMAIN recs : \A u \in recs[k].used :
    u[1] \in DOMAIN recs /\ (u[2] # "request" => recs[u[1]].view = "response")

PoisonInv == LoopOK /\ ExportsTyped /\ BrokenKnown /\ ExportsTrue /\ UsedEarlier /\ NothingPoisoned

(***************************************************************************)
(* Answers and the records made of them                                    *)
(***************************************************************************)
AnswerRecs ==
  [kind : {"unreachable", "lost", "refused", "answered"}, code : Codes \cup {"none"},
   closed : BOOLEAN, auth : BOOLEAN, holds : SUBSET Paths, present : SUBSET Fields,
   verdict : {"ok", "item", "refused"}, shape : {"sound", "repeated", "drift", "undecodable"}]

\* Every answer to a call has the parts an answer has.
LEMMA AnswersShape ==
  ASSUME NEW s, IsStep(s), NEW a \in Answers(s)
  PROVE  /\ a \in AnswerRecs
         /\ a.kind = "refused" => a.code \in Codes
<1>1. NoAnswer \in AnswerRecs BY DEF NoAnswer, AnswerRecs, Codes
<1>2. CASE a \in Errors BY <1>1, <1>2 DEF Errors, AnswerRecs, NoAnswer
<1>3. CASE a \in Refusals(s)
  <2> DEFINE R(c, h) == [NoAnswer EXCEPT !.kind = "refused", !.code = c, !.holds = h,
                                         !.auth = (c = "unauthenticated")]
  <2>1. ASSUME NEW c \in Codes, NEW h \in SUBSET Paths PROVE R(c, h) \in AnswerRecs /\ R(c, h).code = c
    BY <1>1 DEF AnswerRecs, NoAnswer
  <2>2. Refusals(s) = {R(c, h) : c \in Codes, h \in SUBSET (DOMAIN s.expect \cap {"transport"})}
    BY DEF Refusals
  <2>3. SUBSET (DOMAIN s.expect \cap {"transport"}) \subseteq SUBSET Paths BY DEF Paths
  <2> HIDE DEF R
  <2> QED BY <1>3, <2>1, <2>2, <2>3
<1>4. CASE a \in Bodies(s)
  <2> DEFINE B(h, f, v) == [NoAnswer EXCEPT !.kind = "answered", !.holds = h, !.present = f,
                                            !.verdict = v]
             R(h, f, b) == [NoAnswer EXCEPT !.kind = "answered", !.holds = h, !.present = f,
                                            !.verdict = "refused", !.auth = b]
             X(x) == [NoAnswer EXCEPT !.kind = "answered", !.present = Fields, !.shape = x]
             Good(c) == c \in AnswerRecs /\ c.kind = "answered"
  <2>1. ASSUME NEW h \in SUBSET Paths, NEW f \in SUBSET Fields, NEW v \in {"ok", "item"},
               NEW b \in BOOLEAN
        PROVE  Good(B(h, f, v)) /\ Good(R(h, f, b))
    BY <1>1 DEF AnswerRecs, NoAnswer
  <2>2. ASSUME NEW x \in {"repeated", "drift", "undecodable"} PROVE Good(X(x))
    BY <1>1 DEF AnswerRecs, NoAnswer
  <2>3. Bodies(s) =
          {B(h, f, v) : h \in SUBSET DOMAIN s.expect, f \in SUBSET Fields, v \in {"ok", "item"}}
          \cup {R(h, f, b) : h \in SUBSET DOMAIN s.expect, f \in {{}, Fields}, b \in BOOLEAN}
          \cup {X(x) : x \in {"repeated", "drift", "undecodable"}}
    BY DEF Bodies
  <2>4. SUBSET DOMAIN s.expect \subseteq SUBSET Paths BY DEF IsStep, Paths
  <2>5. {{}, Fields} \subseteq SUBSET Fields OBVIOUS
  <2> HIDE DEF B, R, X, Good
  <2>6. Good(a)
    <3>1. CASE \E h \in SUBSET DOMAIN s.expect, f \in SUBSET Fields, v \in {"ok", "item"} :
                 a = B(h, f, v)
      BY <2>1, <2>4, <2>5, <3>1
    <3>2. CASE \E h \in SUBSET DOMAIN s.expect, f \in {{}, Fields}, b \in BOOLEAN : a = R(h, f, b)
      BY <2>1, <2>4, <2>5, <3>2
    <3>3. CASE \E x \in {"repeated", "drift", "undecodable"} : a = X(x)
      BY <2>2, <3>3
    <3> DEFINE S == {B(h, f, v) : h \in SUBSET DOMAIN s.expect, f \in SUBSET Fields,
                                  v \in {"ok", "item"}}
               T == {R(h, f, b) : h \in SUBSET DOMAIN s.expect, f \in {{}, Fields}, b \in BOOLEAN}
               U == {X(x) : x \in {"repeated", "drift", "undecodable"}}
    <3>4. a \in S => \E h \in SUBSET DOMAIN s.expect, f \in SUBSET Fields, v \in {"ok", "item"} :
                       a = B(h, f, v)
      OBVIOUS
    <3>5. a \in T => \E h \in SUBSET DOMAIN s.expect, f \in {{}, Fields}, b \in BOOLEAN : a = R(h, f, b)
      OBVIOUS
    <3>6. a \in U => \E x \in {"repeated", "drift", "undecodable"} : a = X(x) OBVIOUS
    <3>7. Bodies(s) = S \cup T \cup U BY <2>3
    <3> HIDE DEF S, T, U
    <3>8. a \in S \/ a \in T \/ a \in U BY <1>4, <3>7
    <3> QED BY <3>1, <3>2, <3>3, <3>4, <3>5, <3>6, <3>8
  <2> QED BY <2>6 DEF Good
<1> QED BY <1>2, <1>3, <1>4 DEF Answers

\* What is judged is a verdict per path.
LEMMA JudgedShape ==
  ASSUME NEW s, IsStep(s), NEW a
  PROVE  /\ <<>> \in Results /\ NotHeld(<<>>) = {}
         /\ Unevaluated(s) \in Results /\ Judged(s, a) \in Results
         /\ JudgedRefused(s, a) \in Results /\ Added(s, a) \in Results
         /\ Joined(Judged(s, a), Added(s, a)) \in Results
<1>0. DOMAIN s.expect \in SUBSET Paths BY DEF IsStep, Paths
<1>r. ASSUME NEW D \in SUBSET Paths, NEW f \in [D -> Verdicts] PROVE f \in Results
  BY DEF Results
<1>1. <<>> \in Results /\ NotHeld(<<>>) = {}
  <2>1. <<>> = [p \in {} |-> "held"] OBVIOUS
  <2>2. [p \in {} |-> "held"] \in [{} -> Verdicts] OBVIOUS
  <2>3. DOMAIN <<>> = {} OBVIOUS
  <2> QED BY <1>r, <2>1, <2>2, <2>3 DEF NotHeld
<1>2. Unevaluated(s) \in [DOMAIN s.expect -> Verdicts] BY DEF Unevaluated, Verdicts
<1>3. Judged(s, a) \in [DOMAIN s.expect -> Verdicts] BY DEF Judged, Verdicts
<1>4. JudgedRefused(s, a) \in [DOMAIN s.expect -> Verdicts] BY <1>3 DEF JudgedRefused, Verdicts
<1> DEFINE D == (IF a.verdict = "refused" /\ DOMAIN s.expect # {} /\ ~Pinned(s, a) THEN {"code"} ELSE {})
                \cup (IF a.verdict = "item" THEN {"items"} ELSE {})
<1>5. D \in SUBSET Paths BY DEF Paths
<1>6. Added(s, a) \in [D -> Verdicts] BY DEF Added, Verdicts
<1> HIDE DEF D
<1>7. Joined(Judged(s, a), Added(s, a)) \in [DOMAIN s.expect \cup D -> Verdicts]
  BY <1>3, <1>6 DEF Joined
<1>8. DOMAIN s.expect \cup D \in SUBSET Paths BY <1>0, <1>5
<1> QED BY <1>0, <1>1, <1>2, <1>3, <1>4, <1>5, <1>6, <1>7, <1>8, <1>r

\* The record of a call whose request was built is a sound one.
LEMMA RecordShape ==
  ASSUME NEW s, IsStep(s), NEW a \in AnswerRecs, a.kind = "refused" => a.code \in Codes,
         Sent \in StepRecords
  PROVE  /\ RecordOK(Record(s, a))
         /\ Record(s, a).used = Sent.used
         /\ a.kind = "answered" /\ a.shape = "sound" => Record(s, a).view = "response"
         /\ Record(s, a).status # "skipped"
<1> DEFINE Good(sr) == /\ RecordOK(sr) /\ sr.used = Sent.used /\ sr.status # "skipped"
                       /\ a.kind = "answered" /\ a.shape = "sound" => sr.view = "response"
<1> SUFFICES Good(Record(s, a)) OBVIOUS
<1>s. /\ Sent.used = {Source(r) : r \in step.refs} /\ Sent.results = <<>> /\ Sent.view = "request"
      /\ Sent.transport = "none" /\ Sent.refused = <<>>
  BY DEF Sent, Blank
<1>1. CASE a.kind = "unreachable"
  <2> DEFINE sr == [Sent EXCEPT !.status = "error", !.unreachable = TRUE]
  <2>1. Good(sr)
    BY <1>1, <1>s, JudgedShape DEF RecordOK, StepRecords, AssertionFailed
  <2>2. Record(s, a) = sr BY <1>1 DEF Record
  <2> HIDE DEF sr
  <2> QED BY <2>1, <2>2
<1>2. CASE a.kind = "lost"
  <2> DEFINE sr == [Sent EXCEPT !.status = "error", !.closed = a.closed]
  <2>1. Good(sr)
    BY <1>2, <1>s, JudgedShape DEF RecordOK, StepRecords, AssertionFailed, AnswerRecs
  <2>2. Record(s, a) = sr BY <1>2 DEF Record
  <2> HIDE DEF sr
  <2> QED BY <2>1, <2>2
<1>f. ASSUME NEW sr, Good(sr),
             Record(s, a) = IF a.auth /\ ~s.allow /\ sr.status = "failed"
                            THEN [sr EXCEPT !.status = "error"] ELSE sr
      PROVE  Good(Record(s, a))
  BY <1>f DEF RecordOK, StepRecords, AssertionFailed
<1>3. CASE a.kind = "refused"
  <2> DEFINE results == JudgedRefused(s, a)
             base == [Sent EXCEPT !.answered = TRUE, !.transport = a.code]
  <2>1. results \in Results /\ Unevaluated(s) \in Results BY JudgedShape
  <2>2. base \in StepRecords /\ base.answered /\ base.view # "response" /\ base.used = Sent.used
        /\ base.results = <<>>
    BY <1>3, <1>s DEF StepRecords
  <2>3. \/ RefusalRecord(s, a) = [base EXCEPT !.results = results, !.status = "passed"]
           /\ NotHeld(results) = {}
        \/ RefusalRecord(s, a) = [base EXCEPT !.results = results, !.status = "failed"]
        \/ RefusalRecord(s, a) = [base EXCEPT !.status = "error", !.results = Unevaluated(s),
                                              !.refused = results]
        \/ RefusalRecord(s, a) = [base EXCEPT !.status = "failed", !.results = results]
    <3> HIDE DEF results, base
    <3> QED BY DEF RefusalRecord, results, base
  <2> HIDE DEF results, base
  <2>4. Good(RefusalRecord(s, a))
    <3>1. CASE /\ RefusalRecord(s, a) = [base EXCEPT !.results = results, !.status = "passed"]
               /\ NotHeld(results) = {}
      BY ZenonT(90), <1>3, <2>1, <2>2, <3>1 DEF RecordOK, StepRecords, AssertionFailed
    <3>2. CASE RefusalRecord(s, a) = [base EXCEPT !.results = results, !.status = "failed"]
      BY ZenonT(90), <1>3, <2>1, <2>2, <3>2 DEF RecordOK, StepRecords, AssertionFailed
    <3>3. CASE RefusalRecord(s, a) = [base EXCEPT !.status = "error", !.results = Unevaluated(s),
                                                  !.refused = results]
      <4> DEFINE sr == RefusalRecord(s, a)
      <4>1. /\ sr.status = "error" /\ sr.answered /\ sr.view # "response" /\ sr.used = Sent.used
            /\ sr.results = Unevaluated(s) /\ sr.refused = results
        BY <2>2, <3>3 DEF StepRecords
      <4>2. sr \in StepRecords
        BY ZenonT(90), <2>1, <2>2, <3>3 DEF StepRecords
      <4> QED BY <1>3, <4>1, <4>2 DEF RecordOK, AssertionFailed
    <3> QED BY <2>3, <3>1, <3>2, <3>3
  <2> HIDE DEF Good
  <2> QED BY <1>3, <1>f, <2>4 DEF Record
<1>4. CASE a.kind = "answered"
  <2> DEFINE base == [Sent EXCEPT !.answered = TRUE, !.inband = (a.verdict = "refused")]
             results == Joined(Judged(s, a), Added(s, a))
  <2>1. results \in Results /\ Unevaluated(s) \in Results /\ NotHeld(<<>>) = {} BY JudgedShape
  <2>2. base \in StepRecords /\ base.answered /\ base.used = Sent.used
        /\ base.results = <<>> /\ base.transport = "none"
    BY <1>s DEF StepRecords
  <2>3. /\ a.shape \in {"sound", "repeated", "drift", "undecodable"} /\ a.present \in SUBSET Fields
    BY DEF AnswerRecs
  <2>4. \/ a.shape # "sound" /\ AnswerRecord(s, a) = [base EXCEPT !.status = "error", !.inband = FALSE]
        \/ a.shape # "sound"
           /\ AnswerRecord(s, a) = [base EXCEPT !.status = "failed", !.drift = TRUE, !.results = Unevaluated(s)]
        \/ a.shape # "sound"
           /\ AnswerRecord(s, a) = [base EXCEPT !.status = "failed", !.results = Unevaluated(s)]
        \/ AnswerRecord(s, a) = [base EXCEPT !.view = "response", !.present = a.present,
                                             !.results = results, !.status = "failed"]
        \/ AnswerRecord(s, a) = [base EXCEPT !.view = "response", !.present = a.present,
                                             !.results = results, !.status = "passed"]
           /\ NotHeld(results) = {}
    BY <2>3 DEF AnswerRecord
  <2> HIDE DEF results, base
  <2>5. Good(AnswerRecord(s, a))
    <3>1. CASE AnswerRecord(s, a) = [base EXCEPT !.status = "error", !.inband = FALSE] /\ a.shape # "sound"
      BY ZenonT(90), <2>2, <2>1, <3>1 DEF RecordOK, StepRecords, AssertionFailed
    <3>2. CASE /\ AnswerRecord(s, a) = [base EXCEPT !.status = "failed", !.drift = TRUE,
                                                    !.results = Unevaluated(s)]
               /\ a.shape # "sound"
      BY ZenonT(90), <2>2, <2>1, <3>2 DEF RecordOK, StepRecords, AssertionFailed
    <3>3. CASE /\ AnswerRecord(s, a) = [base EXCEPT !.status = "failed", !.results = Unevaluated(s)]
               /\ a.shape # "sound"
      BY ZenonT(90), <2>2, <2>1, <3>3 DEF RecordOK, StepRecords, AssertionFailed
    <3> DEFINE shown == [base EXCEPT !.view = "response", !.present = a.present]
    <3>4. /\ shown \in StepRecords /\ shown.answered /\ shown.used = Sent.used
          /\ shown.transport = "none" /\ shown.view = "response"
      BY <2>2, <2>3 DEF StepRecords
    <3>5. /\ [base EXCEPT !.view = "response", !.present = a.present,
                          !.results = results, !.status = "failed"]
             = [shown EXCEPT !.results = results, !.status = "failed"]
          /\ [base EXCEPT !.view = "response", !.present = a.present,
                          !.results = results, !.status = "passed"]
             = [shown EXCEPT !.results = results, !.status = "passed"]
      OBVIOUS
    <3> HIDE DEF shown
    <3>6. CASE AnswerRecord(s, a) = [shown EXCEPT !.results = results, !.status = "failed"]
      BY ZenonT(90), <2>1, <3>4, <3>6 DEF RecordOK, StepRecords, AssertionFailed
    <3>7. CASE /\ AnswerRecord(s, a) = [shown EXCEPT !.results = results, !.status = "passed"]
               /\ NotHeld(results) = {}
      BY ZenonT(90), <2>1, <3>4, <3>7 DEF RecordOK, StepRecords, AssertionFailed
    <3> QED BY <2>4, <3>1, <3>2, <3>3, <3>5, <3>6, <3>7
  <2> HIDE DEF Good
  <2> QED BY <1>4, <1>f, <2>5 DEF Record
<1> QED BY <1>1, <1>2, <1>3, <1>4 DEF AnswerRecs

(***************************************************************************)
(* The loop                                                                *)
(***************************************************************************)
\* The steps of a chain are numbered, and the next one is a step.
LEMMA ChainFacts ==
  ASSUME LoopOK
  PROVE  /\ ChainShape(chain)
         /\ Len(chain.steps) \in Nat /\ DOMAIN chain.steps = 1 .. Len(chain.steps)
         /\ Len(recs) \in Nat /\ DOMAIN recs = 1 .. Len(recs)
         /\ phase = "run" => i \in DOMAIN chain.steps /\ IsStep(step)
<1>1. ChainShape(chain) BY ChainsAssumption DEF LoopOK
<1>2. Len(chain.steps) \in Nat /\ DOMAIN chain.steps = 1 .. Len(chain.steps)
  BY <1>1, ChainsAssumption DEF ChainShape
<1>3. Len(recs) \in Nat /\ DOMAIN recs = 1 .. Len(recs) BY DEF LoopOK
<1>4. phase = "run" => i \in DOMAIN chain.steps BY <1>2, <1>3 DEF LoopOK, i
<1> QED BY <1>1, <1>2, <1>3, <1>4 DEF ChainShape, step

\* Appending a record adds it and leaves the others.
LEMMA Appended ==
  ASSUME LoopOK, NEW sr \in StepRecords
  PROVE  /\ Append(recs, sr) \in Seq(StepRecords)
         /\ Len(Append(recs, sr)) = i /\ DOMAIN Append(recs, sr) = 1 .. i
         /\ Append(recs, sr)[i] = sr
         /\ \A k \in DOMAIN recs : Append(recs, sr)[k] = recs[k]
  BY DEF LoopOK, i

\* The loop appends a record: it goes on, is done, or stops at a failure.
LEMMA FinishLoop ==
  ASSUME LoopOK, Ready, NEW sr, RecordOK(sr), Finish(sr)
  PROVE  LoopOK'
<1>1. sr \in StepRecords /\ phase = "run" BY DEF RecordOK, Ready
<1>2. /\ recs' = Append(recs, sr) /\ UNCHANGED <<chain, keptRed>> BY DEF Finish
<1>3. /\ recs' \in Seq(StepRecords) /\ Len(recs') = i /\ DOMAIN recs' = 1 .. i /\ recs'[i] = sr
      /\ \A k \in DOMAIN recs : recs'[k] = recs[k]
      /\ DOMAIN recs = 1 .. Len(recs) /\ Len(recs) \in Nat /\ Len(chain.steps) \in Nat
  BY <1>1, <1>2, Appended, ChainFacts
<1>4. \A k \in DOMAIN recs' : k \in DOMAIN recs \/ k = i BY <1>3 DEF i
<1>5. \A k \in DOMAIN recs' : RecordOK(recs'[k]) BY <1>3, <1>4 DEF LoopOK
<1>6. /\ Len(recs') <= Len(chain.steps)
      /\ i # Len(chain.steps) => Len(recs') < Len(chain.steps)
  BY <1>1, <1>3 DEF LoopOK, i
<1>7. /\ chain \in Chains /\ keptRed = "none" /\ status = "passed" /\ failed \in Seq(Nat)
      /\ failed = <<>> => \A k \in DOMAIN recs : Fine(k)
      /\ failed # <<>> => failed[1] \in DOMAIN recs /\ recs[failed[1]].status # "passed"
      /\ chain.pins # {} => keepGoing
      /\ dead # 0 => failed # <<>>
  BY <1>1 DEF LoopOK
<1>8. \A k \in DOMAIN recs : Fine(k) => Fine(k)' BY <1>2, <1>3 DEF Fine, Tolerated
<1>9. failed[1] \in DOMAIN recs => failed[1] \in DOMAIN recs' /\ recs'[failed[1]] = recs[failed[1]]
  BY <1>3 DEF i
<1>10. CASE sr.status = "passed" \/ Tolerated(step, sr)
  <2>1. /\ phase' = IF i = Len(chain.steps) THEN "ended" ELSE "run"
        /\ UNCHANGED <<broken, failed, failedSteps, keepGoing, dead, status>>
    BY <1>10 DEF Finish
  <2>2. ASSUME NEW k \in Nat, k = i PROVE Fine(k)'
    <3>1. step = chain.steps'[k] /\ sr = recs'[k] BY <1>2, <1>3, <2>2 DEF step
    <3> QED BY <1>10, <3>1 DEF Fine, Tolerated, AssertionFailed
  <2>3. failed = <<>> => \A k \in DOMAIN recs' : Fine(k)' BY <1>3, <1>4, <1>7, <1>8, <2>2
  <2> QED BY <1>2, <1>3, <1>5, <1>6, <1>7, <1>9, <2>1, <2>3 DEF LoopOK
<1>11. CASE ~(sr.status = "passed" \/ Tolerated(step, sr)) /\ ~keepGoing /\ ~ServiceRefused(sr)
  <2>1. /\ phase' = "stopped" /\ status' = sr.status
        /\ UNCHANGED <<broken, failed, failedSteps, keepGoing, dead>>
    BY <1>11 DEF Finish
  <2> QED BY <1>2, <1>3, <1>5, <1>6, <1>7, <1>9, <1>11, <2>1 DEF LoopOK
<1>12. CASE ~(sr.status = "passed" \/ Tolerated(step, sr)) /\ ~(~keepGoing /\ ~ServiceRefused(sr))
  <2>1. /\ phase' = IF i = Len(chain.steps) THEN "ended" ELSE "run"
        /\ failed' = Append(failed, i) /\ keepGoing' = TRUE /\ UNCHANGED status
    BY <1>12 DEF Finish, Counted
  <2>2. i \in Nat BY <1>3 DEF i
  <2>3. /\ failed' \in Seq(Nat) /\ failed' # <<>>
        /\ failed'[1] = IF failed = <<>> THEN i ELSE failed[1]
    BY <1>7, <2>1, <2>2
  <2>4. failed'[1] \in DOMAIN recs' /\ recs'[failed'[1]].status # "passed"
    <3>1. sr.status # "passed" BY <1>12
    <3>2. i \in DOMAIN recs' BY <1>3, <2>2 DEF i
    <3>3. CASE failed = <<>>
      <4>1. failed'[1] = i BY <2>3, <3>3
      <4> QED BY <1>3, <3>1, <3>2, <4>1
    <3>4. CASE failed # <<>>
      <4>1. failed'[1] = failed[1] BY <2>3, <3>4
      <4> QED BY <1>7, <1>9, <3>4, <4>1
    <3> QED BY <3>3, <3>4
  <2> QED BY <1>2, <1>3, <1>5, <1>6, <1>7, <2>1, <2>3, <2>4 DEF LoopOK
<1> QED BY <1>10, <1>11, <1>12

\* A step that was not sent: of what the run holds, it used nothing.
LEMMA BlankRecord ==
  /\ Blank \in StepRecords /\ Blank.used = {} /\ Blank.view = "none"
  /\ \A st \in {"failed", "error", "skipped"} :
       /\ RecordOK([Blank EXCEPT !.status = st]) /\ [Blank EXCEPT !.status = st].used = {}
       /\ [Blank EXCEPT !.status = st].status = st
  /\ RecordOK([Blank EXCEPT !.status = "failed", !.view = "request"])
  /\ [Blank EXCEPT !.status = "failed", !.view = "request"].used = {}
  /\ RecordOK([Blank EXCEPT !.status = "skipped", !.unreachable = TRUE])
  /\ [Blank EXCEPT !.status = "skipped", !.unreachable = TRUE].used = {}
<1>1. <<>> \in Results /\ NotHeld(<<>>) = {}
  <2>1. <<>> = [p \in {} |-> "held"] OBVIOUS
  <2>2. [p \in {} |-> "held"] \in [{} -> Verdicts] OBVIOUS
  <2>3. DOMAIN <<>> = {} OBVIOUS
  <2> QED BY <2>1, <2>2, <2>3 DEF NotHeld, Results
<1>2. Blank \in StepRecords BY <1>1 DEF Blank, StepRecords
<1>3. ASSUME NEW st \in {"failed", "error", "skipped"} PROVE RecordOK([Blank EXCEPT !.status = st])
  BY <1>1, <1>2 DEF RecordOK, StepRecords, AssertionFailed, Blank
<1>4. RecordOK([Blank EXCEPT !.status = "failed", !.view = "request"])
  BY <1>1, <1>2 DEF RecordOK, StepRecords, AssertionFailed, Blank
<1>5. RecordOK([Blank EXCEPT !.status = "skipped", !.unreachable = TRUE])
  BY <1>1, <1>2 DEF RecordOK, StepRecords, AssertionFailed, Blank
<1> QED BY <1>2, <1>3, <1>4, <1>5 DEF Blank

\* A reference that resolves is to an earlier step's request or answer.
LEMMA SentShape ==
  ASSUME LoopOK, ExportsTyped, phase = "run", Resolved
  PROVE  /\ Sent \in StepRecords
         /\ Sent.used = {Source(r) : r \in step.refs}
         /\ \A r \in step.refs : r.from \notin Names =>
              /\ r.from \in DOMAIN recs /\ Source(r) = <<r.from, r.field>>
              /\ r.field # "request" => r.field \in Fields /\ recs[r.from].view = "response"
<1>1. ASSUME NEW r \in step.refs, r.from \notin Names
      PROVE  /\ r.from \in DOMAIN recs /\ r.from \in Nat /\ Source(r) = <<r.from, r.field>>
             /\ r.field # "request" => r.field \in Fields /\ recs[r.from].view = "response"
  <2>1. IsStep(step) /\ r.from < i /\ i \in DOMAIN chain.steps BY <1>1, ChainFacts DEF ChainShape, step
  <2>2. r.from \in 1 .. MaxSteps BY <1>1, <2>1 DEF IsStep, Refs
  <2>3. r.from \in DOMAIN recs BY <2>1, <2>2, ChainFacts, ChainsAssumption DEF i
  <2>4. recs[r.from] \in StepRecords BY <2>3 DEF LoopOK
  <2>5. Resolves(r) = "value" BY DEF Resolved
  <2>6. r.field # "request" => recs[r.from].view = "response" /\ r.field \in recs[r.from].present
    BY <1>1, <2>5 DEF Resolves
  <2> QED BY <1>1, <2>2, <2>3, <2>4, <2>6 DEF Source, StepRecords
<1>2. ASSUME NEW r \in step.refs, r.from \in Names PROVE Source(r) \in Nat \X Fields
  <2>1. exports[r.from] # None BY <1>2 DEF Resolved, Resolves
  <2> QED BY <1>2, <2>1 DEF ExportsTyped, Source
<1>3. {Source(r) : r \in step.refs} \in SUBSET (Nat \X (Fields \cup {"request"})) BY <1>1, <1>2
<1> DEFINE U == {Source(r) : r \in step.refs}
<1>4. Sent = [Blank EXCEPT !.sent = TRUE, !.view = "request", !.request = TRUE, !.used = U]
  BY DEF Sent
<1> HIDE DEF U
<1>5. Sent \in StepRecords /\ Sent.used = U BY <1>3, <1>4, BlankRecord DEF StepRecords, U
<1> QED BY <1>1, <1>5 DEF U

\* A call is recorded as one of its answers, or the first of two.
LEMMA CallRecord ==
  ASSUME LoopOK, ExportsTyped,
         \/ \E a \in Answers(step) : Call(a)
         \/ \E a \in Refusals(step), b \in Answers(step) : CallTwice(a, b)
  PROVE  /\ Ready /\ ~Behind /\ Resolved
         /\ \E a \in AnswerRecs :
              /\ Finish(Record(step, a)) /\ Exported(a)
              /\ RecordOK(Record(step, a))
              /\ Record(step, a).used = {Source(r) : r \in step.refs}
              /\ a.kind = "answered" /\ a.shape = "sound" => Record(step, a).view = "response"
              /\ Record(step, a).status # "skipped"
<1>1. Ready /\ ~Behind /\ Resolved BY DEF Call, CallTwice
<1>2. IsStep(step) BY <1>1, ChainFacts DEF Ready
<1>3. Sent \in StepRecords /\ Sent.used = {Source(r) : r \in step.refs} BY <1>1, SentShape DEF Ready
<1>4. ASSUME NEW a, a \in AnswerRecs, a.kind = "refused" => a.code \in Codes,
             Finish(Record(step, a)), Exported(a)
      PROVE  \E b \in AnswerRecs :
              /\ Finish(Record(step, b)) /\ Exported(b)
              /\ RecordOK(Record(step, b))
              /\ Record(step, b).used = {Source(r) : r \in step.refs}
              /\ b.kind = "answered" /\ b.shape = "sound" => Record(step, b).view = "response"
              /\ Record(step, b).status # "skipped"
  <2>1. /\ RecordOK(Record(step, a)) /\ Record(step, a).used = {Source(r) : r \in step.refs}
        /\ a.kind = "answered" /\ a.shape = "sound" => Record(step, a).view = "response"
        /\ Record(step, a).status # "skipped"
    BY <1>2, <1>3, <1>4, RecordShape
  <2> QED BY <1>4, <2>1
<1>5. CASE \E a \in Answers(step) : Call(a)
  <2>1. PICK a \in Answers(step) : Call(a) BY <1>5
  <2>2. a \in AnswerRecs /\ (a.kind = "refused" => a.code \in Codes) BY <1>2, AnswersShape
  <2>3. Finish(Record(step, a)) /\ Exported(a) BY <2>1 DEF Call
  <2> QED BY <1>1, <1>4, <2>2, <2>3
<1>6. CASE \E a \in Refusals(step), b \in Answers(step) : CallTwice(a, b)
  <2>1. PICK a \in Refusals(step), b \in Answers(step) : CallTwice(a, b) BY <1>6
  <2> DEFINE judged == IF b \in Errors THEN a ELSE [b EXCEPT !.auth = FALSE]
  <2>2. Finish(Record(step, judged)) /\ Exported(judged) BY <2>1 DEF CallTwice
  <2>3. /\ a \in AnswerRecs /\ (a.kind = "refused" => a.code \in Codes)
        /\ b \in AnswerRecs /\ (b.kind = "refused" => b.code \in Codes)
    BY <1>2, AnswersShape DEF Answers
  <2>4. judged \in AnswerRecs /\ (judged.kind = "refused" => judged.code \in Codes)
    <3>1. CASE b \in Errors BY <2>3, <3>1
    <3>2. CASE b \notin Errors
      <4>1. [b EXCEPT !.auth = FALSE] \in AnswerRecs /\ [b EXCEPT !.auth = FALSE].kind = b.kind
            /\ [b EXCEPT !.auth = FALSE].code = b.code
        BY <2>3 DEF AnswerRecs
      <4>2. judged = [b EXCEPT !.auth = FALSE] BY <3>2
      <4> HIDE DEF judged
      <4> QED BY <2>3, <4>1, <4>2
    <3> QED BY <3>1, <3>2
  <2> HIDE DEF judged
  <2> QED BY <1>1, <1>4, <2>2, <2>4
<1> QED BY <1>5, <1>6

\* What an export holds after a call is a field that the step exports.
LEMMA ExportedTyped ==
  ASSUME LoopOK, ExportsTyped, phase = "run", NEW a, Exported(a)
  PROVE  ExportsTyped'
<1>1. i \in Nat /\ IsStep(step) BY ChainFacts DEF i
<1>2. \A x \in Names : \/ exports'[x] = exports[x]
                       \/ x \in DOMAIN step.export /\ exports'[x] = <<i, step.export[x]>>
  BY DEF Exported
<1>3. \A x \in Names \cap DOMAIN step.export : <<i, step.export[x]>> \in Nat \X Fields
  BY <1>1 DEF IsStep
<1> QED BY <1>2, <1>3 DEF ExportsTyped

\* The record settled at the end differs from the loop's in refused steps only.
LEMMA SettledFacts ==
  ASSUME LoopOK
  PROVE  /\ Settled(recs) \in Seq(StepRecords) /\ DOMAIN Settled(recs) = DOMAIN recs
         /\ Len(Settled(recs)) = Len(recs)
         /\ \A k \in DOMAIN recs :
              \/ Settled(recs)[k] = recs[k]
              \/ /\ ServiceRefused(recs[k])
                 /\ Settled(recs)[k] = [recs[k] EXCEPT !.status = "failed", !.results = recs[k].refused]
         /\ \A k \in DOMAIN recs : RecordOK(Settled(recs)[k]) /\ Settled(recs)[k].used = recs[k].used
<1> DEFINE rs == Settled(recs)
<1>1. DOMAIN rs = DOMAIN recs /\ Len(recs) \in Nat /\ DOMAIN recs = 1 .. Len(recs)
  BY ChainFacts DEF Settled
<1>2. \A k \in DOMAIN recs :
        \/ rs[k] = recs[k]
        \/ /\ ServiceRefused(recs[k])
           /\ rs[k] = [recs[k] EXCEPT !.status = "failed", !.results = recs[k].refused]
  BY DEF Settled
<1>3. ASSUME NEW k \in DOMAIN recs PROVE RecordOK(rs[k]) /\ rs[k].used = recs[k].used
  <2>1. RecordOK(recs[k]) BY DEF LoopOK
  <2>2. CASE rs[k] = recs[k]
    <3> HIDE DEF rs
    <3> QED BY <2>1, <2>2
  <2>3. CASE /\ ServiceRefused(recs[k])
             /\ rs[k] = [recs[k] EXCEPT !.status = "failed", !.results = recs[k].refused]
    <3> HIDE DEF rs
    <3> QED BY <2>1, <2>3 DEF RecordOK, StepRecords, ServiceRefused, AssertionFailed
  <2> QED BY <1>2, <2>2, <2>3
<1>4. rs = [k \in 1 .. Len(recs) |-> rs[k]]
  <2>1. \A k \in DOMAIN recs : rs[k] = rs[k] OBVIOUS
  <2> QED BY <1>1 DEF Settled
<1>5. \A k \in 1 .. Len(recs) : rs[k] \in StepRecords BY <1>1, <1>3 DEF RecordOK
<1> HIDE DEF rs
<1>6. rs \in [1 .. Len(recs) -> StepRecords] BY <1>4, <1>5
<1>7. rs \in Seq(StepRecords) /\ Len(rs) = Len(recs) BY <1>1, <1>6
<1> QED BY <1>1, <1>2, <1>3, <1>7 DEF rs

\* The end of a run settles its record and leaves nothing else of the loop.
LEMMA ReturnLoop ==
  ASSUME LoopOK, Return
  PROVE  LoopOK'
<1>1. /\ recs' = Settled(recs) /\ phase' = "done" /\ UNCHANGED <<chain, failed, keepGoing, dead>>
      /\ phase \in {"stopped", "ended"}
  BY DEF Return
<1>2. /\ recs' \in Seq(StepRecords) /\ Len(recs') = Len(recs)
      /\ \A k \in DOMAIN recs' : RecordOK(recs'[k])
  BY <1>1, SettledFacts
<1> QED BY <1>1, <1>2 DEF LoopOK

\* Every step of the run keeps the loop's variables true.
LEMMA LoopStep ==
  ASSUME LoopOK, ExportsTyped, [Next]_vars
  PROVE  LoopOK' /\ ExportsTyped'
<1>1. CASE SkipUnreachable
  <2> DEFINE sr == [Blank EXCEPT !.status = "skipped", !.unreachable = TRUE]
  <2>1. RecordOK(sr) BY BlankRecord
  <2>2. /\ phase = "run" /\ dead # 0 /\ recs' = Append(recs, sr)
        /\ phase' = IF i = Len(chain.steps) THEN "ended" ELSE "run"
        /\ UNCHANGED <<chain, broken, exporter, exports, keepGoing, dead, failed, status, keptRed>>
    BY <1>1 DEF SkipUnreachable
  <2> HIDE DEF sr
  <2>3. /\ recs' \in Seq(StepRecords) /\ Len(recs') = i /\ DOMAIN recs' = 1 .. i /\ recs'[i] = sr
        /\ \A k \in DOMAIN recs : recs'[k] = recs[k]
        /\ DOMAIN recs = 1 .. Len(recs) /\ Len(recs) \in Nat /\ Len(chain.steps) \in Nat
    BY <2>1, <2>2, Appended, ChainFacts DEF RecordOK
  <2>4. \A k \in DOMAIN recs' : k \in DOMAIN recs \/ k = i BY <2>3 DEF i
  <2>5. \A k \in DOMAIN recs' : RecordOK(recs'[k]) BY <2>1, <2>3, <2>4 DEF LoopOK
  <2>6. /\ Len(recs') <= Len(chain.steps)
        /\ i # Len(chain.steps) => Len(recs') < Len(chain.steps)
    BY <2>2, <2>3 DEF LoopOK, i
  <2>7. failed # <<>> /\ failed[1] \in DOMAIN recs' /\ recs'[failed[1]].status # "passed"
    BY <2>2, <2>3 DEF LoopOK, i
  <2> QED BY <2>2, <2>3, <2>5, <2>6, <2>7 DEF LoopOK, ExportsTyped
<1>2. CASE SkipBehind \/ FailRef \/ Invalid
  <2>1. PICK sr : Finish(sr) /\ RecordOK(sr)
    <3>1. \A st \in {"failed", "error", "skipped"} : RecordOK([Blank EXCEPT !.status = st])
      BY BlankRecord
    <3>2. RecordOK([Blank EXCEPT !.status = "failed", !.view = "request"]) BY BlankRecord
    <3>3. CASE SkipBehind BY <3>1, <3>3 DEF SkipBehind
    <3>4. CASE FailRef
      <4>1. PICK st \in {"failed", "error"} : Finish([Blank EXCEPT !.status = st])
        BY <3>4 DEF FailRef
      <4> QED BY <3>1, <4>1
    <3>5. CASE Invalid BY <3>2, <3>5 DEF Invalid
    <3> QED BY <1>2, <3>3, <3>4, <3>5
  <2>2. Ready /\ UNCHANGED exports BY <1>2 DEF SkipBehind, FailRef, Invalid
  <2> QED BY <2>1, <2>2, FinishLoop DEF ExportsTyped
<1>3. CASE \/ Ready /\ \E a \in Answers(step) : Call(a)
           \/ Ready /\ \E a \in Refusals(step), b \in Answers(step) : CallTwice(a, b)
  <2>1. PICK a : Finish(Record(step, a)) /\ Exported(a) /\ RecordOK(Record(step, a))
    BY <1>3, CallRecord
  <2>2. Ready /\ phase = "run" BY <1>3 DEF Ready
  <2> QED BY <2>1, <2>2, FinishLoop, ExportedTyped
<1>4. CASE Return
  <2>1. UNCHANGED exports BY <1>4 DEF Return
  <2> QED BY <1>4, <2>1, ReturnLoop DEF ExportsTyped
<1>5. CASE UNCHANGED vars
  <2>1. UNCHANGED <<chain, recs, phase, status, failed, dead, keepGoing, keptRed, exports>>
    BY <1>5 DEF vars
  <2>2. \A k \in DOMAIN recs : Fine(k)' = Fine(k) BY <2>1 DEF Fine, Tolerated, AssertionFailed, NotHeld
  <2> QED BY <2>1, <2>2 DEF LoopOK, ExportsTyped
<1> QED BY <1>1, <1>2, <1>3, <1>4, <1>5 DEF Next

(***************************************************************************)
(* What a run that is over says                                            *)
(***************************************************************************)
\* A run begins with no records, no failure and nothing said.
LEMMA InitLoop == Init => LoopOK /\ ExportsTyped
<1> SUFFICES ASSUME Init PROVE LoopOK /\ ExportsTyped OBVIOUS
<1>1. /\ chain \in Chains /\ recs = <<>> /\ phase = "run" /\ status = "passed" /\ failed = <<>>
      /\ dead = 0 /\ keptRed = "none" /\ keepGoing = (chain.goOn \/ chain.pins # {})
      /\ \A x \in Names : exports[x] = None
  BY DEF Init
<1>2. Len(chain.steps) \in 1 .. MaxSteps /\ MaxSteps \in Nat BY <1>1, ChainsAssumption DEF ChainShape
<1>3. recs \in Seq(StepRecords) /\ DOMAIN recs = {} /\ Len(recs) = 0 /\ failed \in Seq(Nat) BY <1>1
<1>4. chain.pins # {} => keepGoing BY <1>1
<1> QED BY <1>1, <1>2, <1>3, <1>4 DEF LoopOK, ExportsTyped

\* A run that fails at any step does not pass in the end.
LEMMA ReturnPassed ==
  ASSUME LoopOK, Return
  PROVE  PassedMeansPassed'
<1> DEFINE rs == Settled(recs)
<1>1. /\ recs' = rs /\ phase' = "done" /\ UNCHANGED chain /\ phase \in {"stopped", "ended"}
      /\ status' = IF failed = <<>> THEN status
                   ELSE IF rs[failed[1]].status = "skipped" THEN "failed" ELSE rs[failed[1]].status
  BY DEF Return
<1>2. /\ DOMAIN rs = DOMAIN recs /\ Len(rs) = Len(recs)
      /\ \A k \in DOMAIN recs :
            \/ rs[k] = recs[k]
            \/ ServiceRefused(recs[k]) /\ rs[k] = [recs[k] EXCEPT !.status = "failed", !.results = recs[k].refused]
      /\ \A k \in DOMAIN recs : recs[k] \in StepRecords /\ RecordOK(recs[k])
  BY SettledFacts DEF LoopOK, RecordOK
<1> HIDE DEF rs
<1> SUFFICES ASSUME status' = "passed"
             PROVE  /\ Len(rs) = Len(chain.steps)
                    /\ \A k \in DOMAIN rs :
                         /\ NotHeld(rs[k].results) = {}
                         /\ rs[k].status = "passed" \/ (chain.steps[k].allow /\ rs[k].status = "failed")
  BY <1>1 DEF PassedMeansPassed
<1>3. failed = <<>>
  <2> SUFFICES ASSUME failed # <<>> PROVE FALSE OBVIOUS
  <2>1. failed[1] \in DOMAIN recs /\ recs[failed[1]].status # "passed" BY <1>1 DEF LoopOK
  <2>2. rs[failed[1]].status # "passed" BY <1>2, <2>1 DEF StepRecords
  <2> QED BY <1>1, <2>2
<1>4. phase = "ended" /\ \A k \in DOMAIN recs : Fine(k) BY <1>1, <1>3 DEF LoopOK
<1>5. Len(recs) = Len(chain.steps) BY <1>4 DEF LoopOK
<1>6. ASSUME NEW k \in DOMAIN recs
      PROVE  /\ rs[k] = recs[k] /\ NotHeld(recs[k].results) = {}
             /\ recs[k].status = "passed" \/ (chain.steps[k].allow /\ recs[k].status = "failed")
  <2>1. Fine(k) /\ RecordOK(recs[k]) BY <1>2, <1>4
  <2>2. CASE recs[k].status = "passed"
    BY <1>2, <2>1, <2>2 DEF RecordOK, ServiceRefused, NotAnsweredByService
  <2>3. CASE Tolerated(chain.steps[k], recs[k])
    BY <1>2, <2>3 DEF Tolerated, AssertionFailed, ServiceRefused, NotAnsweredByService
  <2> QED BY <2>1, <2>2, <2>3 DEF Fine
<1> QED BY <1>2, <1>5, <1>6

\* A run is as pinned only when each record says so of its step.
LEMMA ReturnAsPinned ==
  ASSUME LoopOK, Return
  PROVE  KeptRedSeen'
<1> DEFINE rs == Settled(recs)
<1>1. /\ recs' = rs /\ UNCHANGED chain /\ phase \in {"stopped", "ended"}
      /\ keptRed' = KeptRedVerdict(rs, status')
  BY DEF Return
<1>2. /\ DOMAIN rs = DOMAIN recs
      /\ \A k \in DOMAIN rs : RecordOK(rs[k]) /\ rs[k] \in StepRecords
  BY SettledFacts DEF RecordOK
<1> HIDE DEF rs
<1> SUFFICES ASSUME keptRed' = "as_pinned", NEW k \in DOMAIN chain.steps
             PROVE  /\ k \in DOMAIN rs
                    /\ \/ rs[k].answered
                       \/ chain.steps[k].allow /\ rs[k].status = "failed" /\ PinsOf(k) = {}
                    /\ NotHeld(rs[k].results) = PinsOf(k)
                    /\ \A p \in PinsOf(k) : rs[k].results[p] = "failed"
  BY <1>1 DEF KeptRedSeen, PinsOf
<1>3. chain.pins # {} BY <1>1 DEF KeptRedVerdict
<1>4. k \in DOMAIN rs
  <2>1. phase = "ended" BY <1>1, <1>3 DEF LoopOK
  <2>2. Len(recs) = Len(chain.steps) BY <2>1 DEF LoopOK
  <2> QED BY <1>2, <2>2, ChainFacts
<1>5. \/ rs[k].status = "passed" /\ PinsOf(k) = {}
      \/ PinsOf(k) = {} /\ Tolerated(chain.steps[k], rs[k])
      \/ rs[k].status \in {"failed", "error"} /\ ~Mismatch(rs[k], PinsOf(k))
  BY <1>1, <1>3, <1>4 DEF KeptRedVerdict, PinsOf
<1>6. CASE rs[k].status = "passed" /\ PinsOf(k) = {}
  BY <1>2, <1>4, <1>6 DEF RecordOK
<1>7. CASE PinsOf(k) = {} /\ Tolerated(chain.steps[k], rs[k])
  BY <1>4, <1>7 DEF Tolerated, AssertionFailed
<1>8. CASE rs[k].status \in {"failed", "error"} /\ ~Mismatch(rs[k], PinsOf(k))
  <2>1. /\ AssertionFailed(rs[k]) /\ NotHeld(rs[k].results) = PinsOf(k)
        /\ \A p \in PinsOf(k) \cap DOMAIN rs[k].results : rs[k].results[p] # "unevaluated"
    BY <1>8 DEF Mismatch
  <2>2. rs[k].answered BY <1>2, <1>4, <2>1 DEF RecordOK
  <2>3. rs[k].results \in Results BY <1>2, <1>4 DEF StepRecords
  <2>4. \A p \in DOMAIN rs[k].results : rs[k].results[p] \in Verdicts BY <2>3 DEF Results
  <2>5. \A p \in PinsOf(k) : p \in DOMAIN rs[k].results /\ rs[k].results[p] # "held"
    BY <2>1 DEF NotHeld
  <2> QED BY <1>4, <2>1, <2>2, <2>4, <2>5 DEF Verdicts
<1> QED BY <1>5, <1>6, <1>7, <1>8

\* The invariant of what is said at the end.
LEMMA SeenHolds == Spec => []SeenInv
<1>1. Init => SeenInv
  BY InitLoop DEF Init, SeenInv, PassedMeansPassed, KeptRedSeen
<1>2. ASSUME SeenInv, [Next]_vars PROVE SeenInv'
  <2>1. LoopOK' /\ ExportsTyped' BY <1>2, LoopStep DEF SeenInv
  <2>2. CASE Return BY <1>2, <2>1, <2>2, ReturnPassed, ReturnAsPinned DEF SeenInv
  <2>3. CASE UNCHANGED vars
    BY <1>2, <2>1, <2>3 DEF SeenInv, vars, PassedMeansPassed, KeptRedSeen, PinsOf, NotHeld
  <2>4. CASE SkipUnreachable \/ SkipBehind \/ FailRef \/ Invalid
             \/ (Ready /\ \E a \in Answers(step) : Call(a))
             \/ (Ready /\ \E a \in Refusals(step), b \in Answers(step) : CallTwice(a, b))
    <3>1. phase = "run"
      BY <2>4 DEF SkipUnreachable, SkipBehind, FailRef, Invalid, Ready
    <3>2. phase' # "done"
      <4>1. ASSUME NEW sr, Finish(sr) PROVE phase' # "done" BY <4>1 DEF Finish
      <4> QED BY <2>4, <4>1 DEF SkipUnreachable, SkipBehind, FailRef, Invalid, Call, CallTwice
    <3>3. keptRed' = "none" BY <2>1, <3>2 DEF LoopOK
    <3> QED BY <2>1, <3>2, <3>3 DEF SeenInv, PassedMeansPassed, KeptRedSeen
  <2> QED BY <1>2, <2>2, <2>3, <2>4 DEF Next
<1> QED BY <1>1, <1>2, PTL DEF Spec

\* A run passes only when every step of its chain passed with every expectation
\* held, or was tolerated (allow_fail): for every chain and whatever is
\* answered, skipped, re-sent or settled at the end.
THEOREM PassedIsPassed == Spec => []PassedMeansPassed
<1>1. SeenInv => PassedMeansPassed BY DEF SeenInv
<1> QED BY SeenHolds, <1>1, PTL

\* as_pinned is said only of a run in which every pinned expectation was
\* evaluated on an answer and failed, nothing else did, and every step was answered
\* but for unpinned allow_fail steps that failed (keptRedVerdict).
THEOREM AsPinnedIsSeen == Spec => []KeptRedSeen
<1>1. SeenInv => KeptRedSeen BY DEF SeenInv
<1> QED BY SeenHolds, <1>1, PTL

(***************************************************************************)
(* What a request is built from                                            *)
(***************************************************************************)
\* A value of a step that is not known to be broken, or that the judgement of
\* the broken step left sound, is not one its step says is wrong.
LEMMA NotWrong ==
  ASSUME LoopOK, BrokenKnown, Ready, ~Behind, NEW r \in step.refs,
         Producer(r) \in DOMAIN recs, NEW f, f # "request", PathOf(r) = f,
         r.from \in Names \/ r.field = f
  PROVE  ~Wrong(recs[Producer(r)], f)
<1> DEFINE j == Producer(r)
<1>1. CASE j \in broken
  <2>1. keepGoing BY <1>1 DEF BrokenKnown
  <2>2. ~ReadsBroken(step.refs) BY <2>1 DEF Behind
  <2>3. Sound(recs[j], f) BY <1>1, <2>2 DEF ReadsBroken
  <2> QED BY <2>3 DEF Sound, Wrong
<1>2. CASE j \notin broken
  <2>1. Fine(j) BY <1>2 DEF BrokenKnown, Ready
  <2>2. RecordOK(recs[j]) BY DEF LoopOK
  <2> QED BY <2>1, <2>2 DEF Fine, RecordOK, Tolerated, AssertionFailed, Wrong
<1> QED BY <1>1, <1>2

\* So no reference of a step that is sent resolves to a wrong value.
LEMMA SourcesSound ==
  ASSUME LoopOK, ExportsTyped, BrokenKnown, ExportsTrue, Ready, ~Behind, Resolved,
         NEW r \in step.refs, NEW u, u = Source(r)
  PROVE  /\ u[1] \in DOMAIN recs /\ (u[2] # "request" => recs[u[1]].view = "response")
         /\ ~Wrong(recs[u[1]], u[2])
<1>1. CASE r.from \notin Names
  <2>1. /\ r.from \in DOMAIN recs /\ u = <<r.from, r.field>>
        /\ r.field # "request" => recs[r.from].view = "response"
    BY <1>1, SentShape DEF Ready
  <2>2. r.field # "request" => ~Wrong(recs[r.from], r.field)
    BY <1>1, <2>1, NotWrong DEF Producer, PathOf
  <2>3. r.field = "request" => ~Wrong(recs[r.from], r.field) BY DEF Wrong
  <2> QED BY <2>1, <2>2, <2>3
<1>2. CASE r.from \in Names
  <2> DEFINE x == r.from  j == exporter[x].step  f == exporter[x].field
  <2>1. exports[x] # None BY <1>2 DEF Resolved, Resolves
  <2>2. u = <<j, f>> /\ j \in DOMAIN recs /\ f \in Fields /\ recs[j].view = "response"
    BY <1>2, <2>1 DEF ExportsTrue, Source
  <2>3. f # "request" BY <2>2, NamesAssumption
  <2>4. Producer(r) = j /\ PathOf(r) = f BY <1>2 DEF Producer, PathOf
  <2> HIDE DEF j, f
  <2>5. ~Wrong(recs[j], f) BY <1>2, <2>2, <2>3, <2>4, NotWrong
  <2> QED BY <2>2, <2>5
<1> QED BY <1>1, <1>2

\* The loop keeps its books, its exports and its sources true.
LEMMA FinishSound ==
  ASSUME OneWriter, PoisonInv, Ready, NEW sr, RecordOK(sr), Finish(sr),
         \A x \in Names : \/ exports'[x] = exports[x]
                          \/ x \in DOMAIN step.export /\ exports'[x] = <<i, step.export[x]>>
                             /\ sr.view = "response",
         \A u \in sr.used : /\ u[1] \in DOMAIN recs /\ (u[2] # "request" => recs[u[1]].view = "response")
                            /\ ~Wrong(recs[u[1]], u[2])
  PROVE  BrokenKnown' /\ ExportsTrue' /\ UsedEarlier' /\ NothingPoisoned'
<1>1. /\ recs' = Append(recs, sr) /\ exporter' = ExporterAfter(sr) /\ UNCHANGED chain
      /\ phase = "run" /\ dead = 0
  BY DEF Finish, Ready
<1>2. LoopOK /\ BrokenKnown /\ ExportsTrue /\ UsedEarlier /\ NothingPoisoned BY DEF PoisonInv
<1>3. /\ recs' \in Seq(StepRecords) /\ Len(recs') = i /\ DOMAIN recs' = 1 .. i /\ recs'[i] = sr
      /\ \A k \in DOMAIN recs : recs'[k] = recs[k]
      /\ DOMAIN recs = 1 .. Len(recs) /\ Len(recs) \in Nat
      /\ i \in DOMAIN chain.steps /\ IsStep(step) /\ chain \in Chains
      /\ DOMAIN chain.steps = 1 .. Len(chain.steps) /\ Len(chain.steps) \in Nat
  BY ZenonT(90), <1>1, <1>2, Appended, ChainFacts DEF RecordOK, LoopOK
<1>4. DOMAIN recs \subseteq DOMAIN recs' /\ i \notin DOMAIN recs /\ i \in DOMAIN recs' /\ i # 0
  BY <1>3 DEF i
<1>5. \A k \in DOMAIN recs' : k \in DOMAIN recs \/ k = i BY <1>3 DEF i
<1>6. BrokenKnown'
  <2>1. \A k \in DOMAIN recs : Fine(k) => Fine(k)' BY <1>1, <1>3 DEF Fine, Tolerated
  <2>2. CASE sr.status = "passed" \/ Tolerated(step, sr)
    <3>1. UNCHANGED <<broken, keepGoing, dead>> BY <2>2 DEF Finish
    <3>2. ASSUME NEW k, k = i PROVE Fine(k)'
      <4>1. step = chain.steps'[k] /\ sr = recs'[k] BY <1>1, <1>3, <3>2 DEF step
      <4> QED BY <2>2, <4>1 DEF Fine, Tolerated, AssertionFailed
    <3>3. broken \subseteq DOMAIN recs' /\ (broken # {} => keepGoing) BY <1>2, <1>4 DEF BrokenKnown
    <3>4. \A k \in DOMAIN recs' \ broken : Fine(k)' BY <1>1, <1>2, <1>5, <2>1, <3>2 DEF BrokenKnown
    <3> QED BY <3>1, <3>3, <3>4 DEF BrokenKnown
  <2>3. CASE ~(sr.status = "passed" \/ Tolerated(step, sr)) /\ ~keepGoing /\ ~ServiceRefused(sr)
    <3>1. phase' = "stopped" /\ UNCHANGED <<broken, keepGoing>> BY <2>3 DEF Finish
    <3> QED BY <1>2, <1>4, <3>1 DEF BrokenKnown
  <2>4. CASE ~(sr.status = "passed" \/ Tolerated(step, sr)) /\ ~(~keepGoing /\ ~ServiceRefused(sr))
    <3>1. broken' = broken \cup {i} /\ keepGoing' = TRUE BY <2>4 DEF Finish, Counted
    <3>2. broken' \subseteq DOMAIN recs' BY <1>2, <1>4, <3>1 DEF BrokenKnown
    <3>3. \A k \in DOMAIN recs' \ broken' : Fine(k)' BY <1>1, <1>2, <1>5, <2>1, <3>1 DEF BrokenKnown
    <3> QED BY <3>1, <3>2, <3>3 DEF BrokenKnown
  <2> QED BY <2>2, <2>3, <2>4
<1>7. ASSUME NEW x \in Names
      PROVE  /\ exporter'[x].step # 0 =>
                  /\ exporter'[x].step \in DOMAIN recs'
                  /\ x \in DOMAIN chain.steps[exporter'[x].step].export
             /\ exports'[x] # None =>
                  /\ exporter'[x].step # 0 /\ exports'[x] = <<exporter'[x].step, exporter'[x].field>>
                  /\ exporter'[x].field \in Fields
                  /\ recs'[exporter'[x].step].view = "response"
  <2>1. CASE x \in DOMAIN step.export
    <3>1. exporter'[x] = [step |-> i, field |-> step.export[x]] BY <1>1, <2>1 DEF ExporterAfter
    <3>2. exporter'[x].step = i /\ exporter'[x].field = step.export[x] /\ step.export[x] \in Fields
      BY <1>3, <2>1, <3>1 DEF IsStep
    <3>3. exporter[x].step = 0
      <4> SUFFICES ASSUME exporter[x].step # 0 PROVE FALSE OBVIOUS
      <4>1. exporter[x].step \in DOMAIN recs /\ x \in DOMAIN chain.steps[exporter[x].step].export
        BY <1>2 DEF ExportsTrue
      <4>2. exporter[x].step \in DOMAIN chain.steps BY <1>3, <4>1 DEF i
      <4>3. exporter[x].step = i BY <1>3, <2>1, <4>1, <4>2 DEF OneWriter, step
      <4> QED BY <1>4, <4>1, <4>3
    <3>4. exports[x] = None BY <1>2, <3>3 DEF ExportsTrue
    <3> QED BY <1>3, <1>4, <2>1, <3>2, <3>4 DEF step
  <2>2. CASE x \notin DOMAIN step.export
    <3>1. exporter'[x] = exporter[x] /\ exports'[x] = exports[x] BY <1>1, <2>2 DEF ExporterAfter
    <3> QED BY <1>2, <1>3, <1>4, <3>1 DEF ExportsTrue
  <2> QED BY <2>1, <2>2
<1>8. ExportsTrue' BY <1>1, <1>7 DEF ExportsTrue
<1>9. ASSUME NEW k \in DOMAIN recs', NEW u \in recs'[k].used
      PROVE  /\ u[1] \in DOMAIN recs /\ (u[2] # "request" => recs[u[1]].view = "response")
             /\ ~Wrong(recs[u[1]], u[2])
  <2>1. CASE k = i BY <1>3, <1>9, <2>1
  <2>2. CASE k \in DOMAIN recs BY <1>2, <1>3, <1>9, <2>2 DEF UsedEarlier, NothingPoisoned
  <2> QED BY <1>5, <2>1, <2>2
<1>10. UsedEarlier' /\ NothingPoisoned'
  BY <1>3, <1>4, <1>9 DEF UsedEarlier, NothingPoisoned, Wrong, AssertionFailed, NotHeld
<1> QED BY <1>6, <1>8, <1>10

\* Every step of the run does.
LEMMA PoisonStep ==
  ASSUME OneWriter, PoisonInv, [Next]_vars
  PROVE  PoisonInv'
<1>1. LoopOK' /\ ExportsTyped' BY LoopStep DEF PoisonInv
<1>2. LoopOK /\ ExportsTyped /\ BrokenKnown /\ ExportsTrue /\ UsedEarlier /\ NothingPoisoned
  BY DEF PoisonInv
<1> SUFFICES BrokenKnown' /\ ExportsTrue' /\ UsedEarlier' /\ NothingPoisoned'
  BY <1>1 DEF PoisonInv
<1>3. CASE SkipUnreachable
  <2> DEFINE sr == [Blank EXCEPT !.status = "skipped", !.unreachable = TRUE]
  <2>1. RecordOK(sr) /\ sr.used = {} BY BlankRecord
  <2>2. /\ dead # 0 /\ recs' = Append(recs, sr)
        /\ UNCHANGED <<chain, broken, exporter, exports, keepGoing, dead>>
    BY <1>3 DEF SkipUnreachable
  <2> HIDE DEF sr
  <2>3. /\ DOMAIN recs' = 1 .. i /\ recs'[i] = sr /\ DOMAIN recs = 1 .. Len(recs) /\ Len(recs) \in Nat
        /\ \A k \in DOMAIN recs : recs'[k] = recs[k]
    BY <1>2, <2>1, <2>2, Appended, ChainFacts DEF RecordOK
  <2>4. /\ DOMAIN recs \subseteq DOMAIN recs'
        /\ \A k \in DOMAIN recs' : k \in DOMAIN recs \/ k = i
    BY <2>3 DEF i
  <2>5. BrokenKnown' BY <1>2, <2>2, <2>4 DEF BrokenKnown
  <2>6. ExportsTrue'
    <3>1. \A x \in Names : exporter'[x] = exporter[x] /\ exports'[x] = exports[x] BY <2>2
    <3> QED BY <1>2, <2>2, <2>3, <2>4, <3>1 DEF ExportsTrue
  <2>7. \A k \in DOMAIN recs' : \A u \in recs'[k].used : k \in DOMAIN recs /\ u \in recs[k].used
    BY <2>1, <2>3, <2>4
  <2>8. UsedEarlier' /\ NothingPoisoned'
    BY <1>2, <2>3, <2>4, <2>7 DEF UsedEarlier, NothingPoisoned, Wrong, AssertionFailed, NotHeld
  <2> QED BY <2>5, <2>6, <2>8
<1>4. CASE SkipBehind \/ FailRef \/ Invalid
  <2>1. PICK sr : Finish(sr) /\ RecordOK(sr) /\ sr.used = {}
    <3>1. \A st \in {"failed", "error", "skipped"} :
             RecordOK([Blank EXCEPT !.status = st]) /\ [Blank EXCEPT !.status = st].used = {}
      BY BlankRecord
    <3>2. /\ RecordOK([Blank EXCEPT !.status = "failed", !.view = "request"])
          /\ [Blank EXCEPT !.status = "failed", !.view = "request"].used = {}
      BY BlankRecord
    <3>3. CASE SkipBehind BY <3>1, <3>3 DEF SkipBehind
    <3>4. CASE FailRef
      <4>1. PICK st \in {"failed", "error"} : Finish([Blank EXCEPT !.status = st])
        BY <3>4 DEF FailRef
      <4> QED BY <3>1, <4>1
    <3>5. CASE Invalid BY <3>2, <3>5 DEF Invalid
    <3> QED BY <1>4, <3>3, <3>4, <3>5
  <2>2. Ready /\ UNCHANGED exports BY <1>4 DEF SkipBehind, FailRef, Invalid
  <2> QED BY <2>1, <2>2, FinishSound
<1>5. CASE \/ Ready /\ \E a \in Answers(step) : Call(a)
           \/ Ready /\ \E a \in Refusals(step), b \in Answers(step) : CallTwice(a, b)
  <2>1. Ready /\ ~Behind /\ Resolved BY <1>2, <1>5, CallRecord
  <2>2. PICK a \in AnswerRecs :
          /\ Finish(Record(step, a)) /\ Exported(a)
          /\ RecordOK(Record(step, a))
          /\ Record(step, a).used = {Source(r) : r \in step.refs}
          /\ a.kind = "answered" /\ a.shape = "sound" => Record(step, a).view = "response"
    BY <1>2, <1>5, CallRecord
  <2> DEFINE sr == Record(step, a)
  <2>3. \A x \in Names : \/ exports'[x] = exports[x]
                         \/ x \in DOMAIN step.export /\ exports'[x] = <<i, step.export[x]>>
                            /\ sr.view = "response"
    BY <2>2 DEF Exported
  <2>4. \A u \in sr.used : /\ u[1] \in DOMAIN recs /\ (u[2] # "request" => recs[u[1]].view = "response")
                           /\ ~Wrong(recs[u[1]], u[2])
    BY <1>2, <2>1, <2>2, SourcesSound
  <2>5. Finish(sr) /\ RecordOK(sr) BY <2>2
  <2> HIDE DEF sr
  <2> QED BY <2>1, <2>3, <2>4, <2>5, FinishSound
<1>6. CASE Return
  <2>1. /\ recs' = Settled(recs) /\ phase' = "done"
        /\ UNCHANGED <<chain, broken, exporter, exports, keepGoing>>
    BY <1>6 DEF Return
  <2>2. /\ DOMAIN recs' = DOMAIN recs
        /\ \A k \in DOMAIN recs :
              /\ recs'[k].used = recs[k].used
              /\ recs'[k] = recs[k] \/ ServiceRefused(recs[k])
    BY <1>2, <2>1, SettledFacts
  <2>3. \A k \in DOMAIN recs : recs[k].view = "response" => recs'[k] = recs[k]
    BY <1>2, <2>2 DEF LoopOK, RecordOK, ServiceRefused
  <2>4. BrokenKnown' BY <1>2, <2>1, <2>2 DEF BrokenKnown
  <2>5. ExportsTrue'
    <3>1. \A x \in Names : exporter'[x] = exporter[x] /\ exports'[x] = exports[x] BY <2>1
    <3> QED BY <1>2, <2>1, <2>2, <2>3, <3>1 DEF ExportsTrue
  <2>6. UsedEarlier' BY <1>2, <2>2, <2>3 DEF UsedEarlier
  <2>7. NothingPoisoned'
    <3>1. ASSUME NEW k \in DOMAIN recs, NEW u \in recs[k].used PROVE ~Wrong(recs'[u[1]], u[2])
      <4>1. CASE u[2] = "request" BY <4>1 DEF Wrong
      <4>2. CASE u[2] # "request"
        <5>1. recs'[u[1]] = recs[u[1]] BY <1>2, <2>3, <4>2 DEF UsedEarlier
        <5> QED BY <1>2, <5>1 DEF NothingPoisoned
      <4> QED BY <4>1, <4>2
    <3> QED BY <2>2, <3>1 DEF NothingPoisoned, Wrong, AssertionFailed, NotHeld
  <2> QED BY <2>4, <2>5, <2>6, <2>7
<1>7. CASE UNCHANGED vars
  <2>1. UNCHANGED <<chain, recs, phase, dead, broken, keepGoing, exporter, exports>>
    BY <1>7 DEF vars
  <2>2. \A k \in DOMAIN recs : Fine(k)' = Fine(k) BY <2>1 DEF Fine, Tolerated, AssertionFailed, NotHeld
  <2>3. BrokenKnown' BY <1>2, <2>1, <2>2 DEF BrokenKnown
  <2>4. ExportsTrue' /\ UsedEarlier' BY <1>2, <2>1 DEF ExportsTrue, UsedEarlier
  <2>5. NothingPoisoned' BY <1>2, <2>1 DEF NothingPoisoned, Wrong, AssertionFailed, NotHeld
  <2> QED BY <2>3, <2>4, <2>5
<1> QED BY <1>3, <1>4, <1>5, <1>6, <1>7 DEF Next

\* No request is built from a value the chain has already said is wrong, in any
\* chain that lint does not warn of: one in which no two steps export one name.
\* In one that it warns of this fails, in two ways that run_v_poison shows.
THEOREM NothingIsPoisoned ==
  ASSUME OneWriter
  PROVE  Spec => []NothingPoisoned
<1>1. Init => PoisonInv
  <2> SUFFICES ASSUME Init PROVE PoisonInv OBVIOUS
  <2>1. LoopOK /\ ExportsTyped BY InitLoop
  <2>2. /\ DOMAIN recs = {} /\ broken = {} BY DEF Init
  <2>3. \A x \in Names : exporter[x].step = 0 /\ exports[x] = None BY DEF Init
  <2> QED BY <2>1, <2>2, <2>3 DEF PoisonInv, BrokenKnown, ExportsTrue, UsedEarlier, NothingPoisoned
<1>2. PoisonInv /\ [Next]_vars => PoisonInv' BY PoisonStep
<1>3. PoisonInv => NothingPoisoned BY DEF PoisonInv
<1> QED BY <1>1, <1>2, <1>3, PTL DEF Spec
=============================================================================
