---------------------------- MODULE SliceVerdict ----------------------------
(***************************************************************************)
(* What a run of a slice says about the step it was cut for: the runs a    *)
(* chain can have, the verdict of one run against the source run, the      *)
(* dropped writes that may have mattered, and how several runs of the same *)
(* slice are combined (shrt chain slice -verify).                          *)
(*                                                                         *)
(* A program p is a chain with what the backend does about it.  The chain: *)
(* steps 1..p.n, p.write, what each reads of earlier steps for its request *)
(* (p.request), in an expectation (p.expect) or of a field that is sound   *)
(* even when the step read failed (p.sound), the records it acts on and    *)
(* mentions (p.acts, p.mentions), the steps that read a field which a      *)
(* write sets (p.readBy) or list a record that it makes (p.listedBy), the  *)
(* writes that tell no record they act on (p.unknown), how a step fails    *)
(* when it does (p.shape), and the writes that create with a fresh value   *)
(* (p.fresh).  A defect, and what a step lacks, shows in expectations of   *)
(* the step's own, never in one that reads another step.  The backend: the *)
(* writes that must have happened for a step to show its defect (p.cause,  *)
(* None for a sound step), those it needs without reading them (p.needs),  *)
(* and the steps whose defect comes and goes (p.flaky).                    *)
(***************************************************************************)
EXTENDS Integers, FiniteSets, Sequences

CONSTANT None

First(S) == CHOOSE s \in S : \A t \in S : s <= t

Refs(p, s) == p.request[s] \cup p.expect[s] \cup p.sound[s]

\* What a slice for the steps S keeps: them and what they read, transitively: the
\* steps that no set closed under that is without; module Slice has the rules in full.
Kept(p, S) ==
  LET before == {t \in (1 .. p.n) \ S : \E s \in S : t < s}
      closed(R) == \A s \in R : Refs(p, s) \subseteq R
  IN  S \cup {t \in before : \A R \in SUBSET (before \ {t}) : ~closed(S \cup R)}

\* Without: the named steps of a chain and those that read one left out.
Gone(p, chain, named) ==
  LET first == chain \cap named
      after == {s \in chain \ first : \E t \in first : t < s}
      closed(G) == \A s \in after \ G : Refs(p, s) \cap (first \cup G) = {}
  IN  first \cup {s \in after : \A G \in SUBSET (after \ {s}) : ~closed(G)}

\* The earlier writes that a slice leaves out, but for those that the source run
\* src did not send or got no answer to.
Dropped(p, chain, src, kept, target) ==
  {w \in (chain \cap p.write) \ kept : w < target /\ ~(w \in DOMAIN src /\ src[w] \in {"skipped", "error"})}

(***************************************************************************)
(* Runs                                                                    *)
(***************************************************************************)
\* Of a step in a run: it failed as the defect does, in another way, or only
\* in expectations that were held back; "error" is no answer.
Failing == {"failed", "lacking", "held"}
Broken == Failing \cup {"error"}
Reached(res, s) == s \in DOMAIN res /\ res[s] \in Failing \cup {"passed"}

\* What step s can come to in a run that has res so far: r.going, the run goes
\* past failures (-keep-going, kept_red); r.relaxed, steps without their
\* expectations; r.stale, the fresh value has been used before.  The backend
\* may be down where r.down says so.
StepResults(p, r, res, s) ==
  LET did == {w \in DOMAIN res : res[w] \notin {"skipped", "error"}}
      behind(reads) == r.going /\ \E q \in reads : res[q] # "passed"
      lacks == ~(p.needs[s] \subseteq did) \/ (s \in p.fresh /\ r.stale)
      defect == p.cause[s] # None /\ p.cause[s] \subseteq did
      judged == (IF defect THEN {"failed"} ELSE {})
                \cup IF ~defect \/ s \in p.flaky THEN {IF behind(p.expect[s]) THEN "held" ELSE "passed"} ELSE {}
  IN  IF (\E q \in DOMAIN res : res[q] = "error") \/ behind(p.request[s]) THEN {"skipped"}
      ELSE (IF r.down THEN {"error"} ELSE {})
           \cup IF s \in r.relaxed THEN {"passed"} ELSE IF lacks THEN {"lacking"} ELSE judged

\* The steps of K that a run with the results res is still to take.
ToRun(K, r, res) ==
  IF ~r.going /\ \E s \in DOMAIN res : res[s] # "passed" THEN {} ELSE K \ DOMAIN res

Passed(res, K) == DOMAIN res = K /\ \A s \in K : res[s] = "passed"

\* The steps whose failure holds back an expectation of s.
Behind(p, res, s) == {q \in p.expect[s] \cap DOMAIN res : res[q] # "passed"}

\* expectationFailures: an expectation was evaluated and did not hold.
Failures(res) == {s \in DOMAIN res : res[s] \in {"failed", "lacking"}}

\* relaxableIn: and none was held back.
Relaxable(p, res) == {s \in Failures(res) : Behind(p, res, s) = {}}

(***************************************************************************)
(* Dropped writes that may have mattered                                   *)
(***************************************************************************)
\* createsListedChild: a kept step lists what the write makes.
Listed(p, kept, w) == p.listedBy[w] \cap kept # {}

\* Those that a kept step lists the record of, tell no record, or act on one that a
\* kept step mentions, or a related write does: the least set closed under that.
Related(p, kept, dropped) ==
  LET used(R) == UNION {p.mentions[s] : s \in kept \cup R}
      touches(d, R) == Listed(p, kept, d) \/ d \in p.unknown \/ p.acts[d] \cap used(R) # {}
      closed(R) == \A d \in dropped : touches(d, R) => d \in R
  IN  {d \in dropped : \A R \in SUBSET dropped : closed(R) => d \in R}

\* fieldReadsOf: a later reader of w's record reads a field that w sets, or none is
\* there that tells.
MayBeRead(p, kept, w, readers) ==
  LET touching == {r \in readers : r > w /\ p.acts[w] \cap p.mentions[r] # {}}
  IN  Listed(p, kept, w) \/ w \in p.unknown \/ touching = {} \/ touching \cap p.readBy[w] # {}

\* What is left of the related writes when those that are not read go, one after the
\* other and around again; a write stays when all that would tell are gone, so the
\* order counts.
WithoutUnread(p, kept, related) ==
  LET unread(R) == {w \in R : ~MayBeRead(p, kept, w, kept \cup (R \ {w}))}
      left[R \in SUBSET related, at \in 0 .. p.n] ==
        LET ahead == {w \in unread(R) : w > at}
            w == First(IF ahead # {} THEN ahead ELSE unread(R))
        IN  IF unread(R) = {} THEN R ELSE left[R \ {w}, w]
  IN  left[related, 0]

\* classifyFieldReads.
FieldRead(p, kept, related) == related \cap WithoutUnread(p, kept, related)

(***************************************************************************)
(* One run                                                                 *)
(***************************************************************************)
\* Kept steps that passed in the source run and not in the slice, as keptStepsBroken.
BrokenKept(src, now, target) ==
  {s \in DOMAIN now \ {target} : now[s] \in Broken /\ s \in DOMAIN src /\ src[s] = "passed"}

\* stoppedWhereSourcePassed: the first step that failed had passed in the source
\* run, or had failed there in expectations only.
StoppedAnew(p, src, now) ==
  \E s \in DOMAIN now :
    /\ now[s] \in Broken /\ \A q \in DOMAIN now : q < s => now[q] \notin Broken
    /\ s \in DOMAIN src /\ (src[s] = "passed" \/ s \in Relaxable(p, src))

\* verdictOf: what a run says of a step, with the expectations it held back.
Answer(p, res, s) ==
  IF s \in DOMAIN res THEN [result |-> res[s], behind |-> Behind(p, res, s)] ELSE [result |-> "skipped", behind |-> {}]

\* Every expectation that the source run held back was evaluated here, and the rest
\* came to the same: there is no verdict of the source run to compare with.
UpstreamOnly(was, is) ==
  was.behind # {} /\ is.behind = {} /\ (IF was.result = "held" THEN "passed" ELSE was.result) = is.result
Differs(was, is) == was # is /\ ~UpstreamOnly(was, is)

\* suggestKeep: the dropped writes to keep next time, None when keeping them
\* stops the slice before the target.
NextKeep(p, src, named, keep, names) ==
  LET failed == {w \in DOMAIN src : src[w] \in Broken} \ Relaxable(p, src)
      usable == names \ failed
      asked == keep \ failed
      stops == {s \in Kept(p, asked \cup usable \cup named) \ {First(named)} :
                  s \in failed \/ (s \in DOMAIN src /\ src[s] = "skipped")}
  IN  IF usable = {} \/ stops # {} THEN None ELSE asked \cup usable

\* A slice run that is broken is called so before it is called different.
OutcomeSlip(was, is, broke, related) ==
  IF is.result \notin Failing \cup {"passed"}   THEN "did_not_run"
  ELSE IF UpstreamOnly(was, is)          THEN "inconclusive"
  ELSE IF Differs(was, is)               THEN "not_reproduced"
  ELSE IF broke # {} \/ related # {}     THEN "inconclusive"
  ELSE "reproduced"

Outcome(was, is, broke, related) ==
  IF is.result \notin Failing \cup {"passed"}        THEN "did_not_run"
  ELSE IF UpstreamOnly(was, is) \/ broke # {} THEN "inconclusive"
  ELSE IF Differs(was, is)                    THEN "not_reproduced"
  ELSE IF related # {}                        THEN "inconclusive"
  ELSE "reproduced"

\* runSliceVerify, of the slice of chain that keeps the steps kept for target, of
\* named and of keep: src is the source run, now the run of the slice, fresh that
\* it created with a value not used before.
RunVerdict(p, chain, src, kept, target, named, keep, now, fresh) ==
  LET was == Answer(p, src, target)
      is == Answer(p, now, target)
      broke == BrokenKept(src, now, target)
      dropped == Dropped(p, chain, src, kept, target)
      entity == Related(p, kept, dropped)
      related == FieldRead(p, kept, entity)
      out == Outcome(was, is, broke, related)
      names == IF out = "did_not_run"
               THEN IF target \notin DOMAIN now /\ fresh /\ StoppedAnew(p, src, now) THEN entity ELSE {}
               ELSE IF UpstreamOnly(was, is) THEN {}
               ELSE IF broke # {} THEN IF entity # {} THEN entity ELSE dropped
               ELSE IF out # "not_reproduced" THEN related
               ELSE IF ~fresh THEN {}
               ELSE IF related # {} THEN related ELSE dropped
  IN  [outcome |-> out, broke |-> broke # {}, fresh |-> fresh, res |-> now, next |-> NextKeep(p, src, named, keep, names)]

(***************************************************************************)
(* Several runs of one slice                                               *)
(***************************************************************************)
Rank == [not_reproduced |-> 3, inconclusive |-> 2, did_not_run |-> 1, reproduced |-> 0]

\* A run that did not reach the target, or broke a kept step, is not counted,
\* unless there is no other.
CountedSlip(vs) == DOMAIN vs

Counted(vs) ==
  LET sound == {i \in DOMAIN vs : ~vs[i].broke /\ vs[i].outcome # "did_not_run"}
  IN  IF sound = {} THEN DOMAIN vs ELSE sound

\* combineSliceVerdicts: the first of the worst runs speaks, the last when every
\* one reproduced; what it asks to keep stays when others reproduced.
Combined(vs) ==
  LET counted == Counted(vs)
      good == {i \in counted : vs[i].outcome = "reproduced"}
      bad == counted \ good
      worst == {i \in bad : \A j \in bad : Rank[vs[j].outcome] <= Rank[vs[i].outcome]}
      rep == IF bad = {} THEN CHOOSE i \in counted : \A j \in counted : j <= i
             ELSE CHOOSE i \in worst : \A j \in worst : i <= j
  IN  IF good # {} /\ vs[rep].outcome = "not_reproduced"
      THEN [vs[rep] EXCEPT !.outcome = "intermittent"] ELSE vs[rep]
=============================================================================
