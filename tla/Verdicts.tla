------------------------------ MODULE Verdicts ------------------------------
(***************************************************************************)
(* What package main concludes from the record of a run and the runs       *)
(* before it: whether a refused token was a restart of the backend or the  *)
(* rpc, whether sessions end early, whether a request is dropped every     *)
(* time, and from these and the comparison with the safe spot the exit     *)
(* code of shrt verify and shrt run.                                       *)
(*                                                                         *)
(* A chain c is a sequence of steps [profile, call, read, reads, asserts]: *)
(* reads are the earlier steps that wrote the data it asks for.  A record  *)
(* is a sequence of StepRecords, and hist the records of the chain's       *)
(* earlier runs, the latest last.                                          *)
(***************************************************************************)
EXTENDS Integers, Sequences, FiniteSetsExt, SequencesExt

\* How the target answered: as in the safe spot, with another value, refused
\* for data that is not there, refused at authentication, cut off, not at all,
\* or was never asked.
Answers == {"ok", "wrong", "gone", "unauth", "lost", "unsent", "none"}
Refusals == [early : BOOLEAN, first : BOOLEAN, cached : BOOLEAN]
StepRecords == [status : {"passed", "failed", "error", "skipped"}, answer : Answers,
                retry : {"no", "resent", "not_resent"},
                fresh : {"none", "accepted", "minted", "relogin"}, refused : SUBSET Refusals]

Answered(st) == st.answer \in {"ok", "wrong", "gone", "unauth"}
AnsweredCleanly(st) == st.answer \in {"ok", "wrong"}
UnansweredCall(st) == st.answer \in {"lost", "unsent"}
RefusedFreshToken(st) == st.status = "error" /\ st.fresh \in {"minted", "relogin"}
ResentAccepted(st) == st.retry = "resent" /\ st.answer \in {"ok", "wrong", "gone"}
RefusalKind(st) == IF AnsweredCleanly(st) THEN "ok" ELSE st.answer

\* A refusal is early when its token was far from the expiry the login stated;
\* a minted token refused on its first use does not count.
RefusedEarly(st) == \E r \in st.refused : r.early /\ (r.first => r.cached)
RefusedInRun(st) == \E r \in st.refused : r.early /\ ~r.first

\* Step j was told that data created before step i is not there.
Gone(c, rec, i, j) ==
  rec[j].answer = "gone" /\ \E r \in c[j].reads : r < i /\ AnsweredCleanly(rec[r])

-----------------------------------------------------------------------------
(* Restarts: midrunrestart.go *)

AcceptedBefore(c, rec, i) ==
  \E j \in 1..(i - 1) : c[j].profile = c[i].profile /\ rec[j].retry = "no" /\ Answered(rec[j])

\* The step at which the run lost its session, 0 when none: a fresh token
\* refused or an early refusal is somebody else's case.
LossAt(c, rec) ==
  LET S == {i \in DOMAIN rec : rec[i].retry # "no"
                                 /\ (RefusedFreshToken(rec[i]) \/ AcceptedBefore(c, rec, i))}
      i == Min(S)
  IN IF S = {} THEN 0 ELSE IF RefusedFreshToken(rec[i]) \/ RefusedEarly(rec[i]) THEN 0 ELSE i

RestartEvidence(c, rec, i) ==
  \/ \E j \in 1..(i - 1) : UnansweredCall(rec[j])
  \/ \E j \in DOMAIN rec : ResentAccepted(rec[j])
  \/ \E j \in (i + 1)..Len(rec) :
       /\ rec[j].retry = "no"
       /\ \/ c[j].call = c[i].call /\ c[j].profile = c[i].profile /\ AnsweredCleanly(rec[j])
          \/ Gone(c, rec, i, j)

\* The latest of the runs, as a record; empty when there is none.
Latest(hist, runs) == IF runs = {} THEN <<>> ELSE hist[Max(runs)]
PreviousRunSending(hist, k) ==
  Latest(hist, {n \in DOMAIN hist : k \in DOMAIN hist[n] /\ Answered(hist[n][k])})

\* A restart does not land on the same call in two runs, the latest that sent
\* it, with nothing in either that shows a restart.
LossFinding(c, rec, hist) ==
  LET i == LossAt(c, rec)
      prev == PreviousRunSending(hist, i)
  IN /\ i # 0 /\ ~RestartEvidence(c, rec, i)
     /\ LossAt(c, prev) = i /\ RefusalKind(prev[i]) = RefusalKind(rec[i])
     /\ ~RestartEvidence(c, prev, i)

\* The first step refused with a token just issued, when the latest run that
\* sent it was refused the same way, both re-sent; otherwise 0.
FreshAt(rec, hist) ==
  LET S == {i \in DOMAIN rec : RefusedFreshToken(rec[i])}
      i == Min(S)
      prev == PreviousRunSending(hist, i)
  IN IF S = {} THEN 0
     ELSE IF /\ prev # <<>> /\ rec[i].retry = "resent"
             /\ RefusedFreshToken(prev[i]) /\ prev[i].retry = "resent"
             /\ RefusalKind(prev[i]) = RefusalKind(rec[i]) THEN i ELSE 0

-----------------------------------------------------------------------------
(* Sessions that end before their stated expiry: tokenlifetime.go *)

Early(rec) == {i \in DOMAIN rec : RefusedEarly(rec[i])}

\* What speaks for a restart in a run with an early refusal at i.  Two more signs
\* are asked for, of the run itself and of the one before: the build changed, or
\* something in front of the service answered; neither is a state of Gate.
SessionRestartEvidence(c, rec, i) ==
  \/ \E j \in 1..(i - 1) : UnansweredCall(rec[j])
  \/ \E j \in (i + 1)..Len(rec) : Gone(c, rec, i, j)

\* at: the step judged, 0 for none; finding: refused early again under the
\* profile in this run, or in the run before, without a restart in either.
TokenLifetime(c, rec, hist) ==
  LET all == Early(rec)
      first == Min(all)
      restart == SessionRestartEvidence(c, rec, first)
      again == \E j \in all \ {first} : c[j].profile = c[first].profile
      held == {i \in all : RefusedInRun(rec[i])}
      mine == Min(held)
      before == /\ held # {} /\ hist # <<>>
                /\ \E p \in Early(Last(hist)) :
                     /\ RefusedInRun(Last(hist)[p]) /\ c[p].profile = c[mine].profile
                     /\ ~SessionRestartEvidence(c, Last(hist), p)
  IN IF all = {} THEN [at |-> 0, finding |-> FALSE]
     ELSE IF restart \/ again THEN [at |-> first, finding |-> ~restart]
     ELSE [at |-> IF before THEN mine ELSE first, finding |-> before]

-----------------------------------------------------------------------------
(* The comparison with the safe spot, in which every step passed: diff.go *)

FirstRed(rec) == Min({i \in DOMAIN rec : rec[i].status \in {"failed", "error"}})
\* A step that differs: one that was not reached is no change that counts here.
Changed(rec, i) ==
  \/ rec[i].answer \in {"wrong", "gone", "unauth", "lost"}
  \/ rec[i].answer = "unsent" /\ i = FirstRed(rec)
CleanReportSlip(c, rec) == Len(rec) = Len(c) /\ \A i \in DOMAIN rec : rec[i].status = "passed"
CleanReport(c, rec) == Len(rec) = Len(c) /\ \A i \in DOMAIN rec : rec[i].answer = "ok"
DriftedBeforeSlip(rec, at) == \E i \in 1..at : Changed(rec, i)
\* Whether anything changed at a step before the one that is not judged.
DriftedBefore(rec, at) == \E i \in 1..(at - 1) : Changed(rec, i)

-----------------------------------------------------------------------------
(* Requests that get no answer: droppedrepeat.go, unansweredOnly *)

UnansweredOnlySlip(rec) ==
  LET S == {i \in DOMAIN rec : rec[i].status = "error"} IN IF S = {} THEN 0 ELSE Min(S)

\* The first step without an answer about the rpc, when nothing before it
\* changed; otherwise 0.
UnansweredOnly(rec) ==
  LET S == {i \in DOMAIN rec : rec[i].status = "error"}
  IN IF S = {} \/ DriftedBefore(rec, Min(S)) THEN 0 ELSE Min(S)

AnsweredAfter(rec, i) == \E j \in (i + 1)..Len(rec) : Answered(rec[j])
Attempted(st) == Answered(st) \/ st.answer = "lost"
PreviousRunAttempting(hist, k) ==
  Latest(hist, {n \in DOMAIN hist : k \in DOMAIN hist[n] /\ Attempted(hist[n][k])})

DroppedAt(rec, hist) ==
  LET i == UnansweredOnly(rec)
      prev == PreviousRunAttempting(hist, i)
  IN IF i = 0 \/ prev = <<>> THEN 0
     ELSE IF /\ rec[i].answer = "lost" /\ AnsweredAfter(rec, i)
             /\ prev[i].answer = "lost" /\ AnsweredAfter(prev, i) THEN i ELSE 0

-----------------------------------------------------------------------------
(* The exit codes *)

\* verify: examine, notJudged and verdict.  runToo: a finding that verify does
\* not report, because of drift before it, is left to run.
Verify(c, rec, hist) ==
  LET clean == CleanReport(c, rec)
      l == TokenLifetime(c, rec, hist)
      late == l.at # 0 /\ DriftedBefore(rec, l.at)
      life == IF late THEN [at |-> 0, finding |-> FALSE] ELSE l
      loss == LossAt(c, rec)
      lossFinding == LossFinding(c, rec, hist)
      f == IF loss = 0 THEN FreshAt(rec, hist) ELSE 0
      lateFresh == f # 0 /\ DriftedBefore(rec, f)
      fresh == f # 0 /\ ~lateFresh
      unanswered == UnansweredOnly(rec) # 0
      dropped == unanswered /\ loss = 0 /\ ~fresh /\ DroppedAt(rec, hist) # 0
      notJudged ==
        \/ life.at # 0 /\ ~clean /\ rec[life.at].status # "passed"
        \/ ~lossFinding /\ loss # 0 /\ ~clean /\ ~DriftedBefore(rec, loss)
        \/ ~lossFinding /\ unanswered
      cause == IF life.finding THEN "sessions"
               ELSE IF lossFinding /\ ~DriftedBefore(rec, loss) THEN "loss"
               ELSE IF fresh THEN "fresh" ELSE IF dropped THEN "dropped" ELSE "none"
  IN [code |-> IF cause # "none" THEN 1 ELSE IF notJudged THEN 3 ELSE IF clean THEN 0 ELSE 1,
      cause |-> cause, runToo |-> (late /\ l.finding) \/ lateFresh]

\* run: the status is that of the step that stopped it.
Run(c, rec, hist) ==
  LET status == Last(rec).status
      cause == IF TokenLifetime(c, rec, hist).finding THEN "sessions"
               ELSE IF LossFinding(c, rec, hist) THEN "loss"
               ELSE IF LossAt(c, rec) = 0 /\ FreshAt(rec, hist) # 0 THEN "fresh" ELSE "none"
  IN [code |-> IF cause # "none" THEN 1 ELSE IF status = "passed" THEN 0
               ELSE IF status = "error" THEN 3 ELSE 1,
      cause |-> cause, runToo |-> FALSE]

Verdict(what, c, rec, hist) == IF what = "verify" THEN Verify(c, rec, hist) ELSE Run(c, rec, hist)
=============================================================================
