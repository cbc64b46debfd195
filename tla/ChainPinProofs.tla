--------------------------- MODULE ChainPinProofs ---------------------------
(***************************************************************************)
(* For every chain, backend, fresh value and number of repeats, and        *)
(* whatever is killed: what a slice file says was seen in a run, a failure *)
(* is called intermittent only when the backend is the reason, what pin    *)
(* takes out of a chain is in a slice that pins it, and pin ends well only *)
(* on a green chain.  Each of these rests on which command is at work and  *)
(* what it has done so far, so the inductive invariant has a part for the  *)
(* runs of a slice, for a pin at work and for its cut.                     *)
(***************************************************************************)
EXTENDS ChainPin, SequenceTheorems, WellFoundedInduction, TLAPS

(***************************************************************************)
(* The inductive invariant                                                 *)
(***************************************************************************)
Results == {"passed", "failed", "lacking", "held", "error", "skipped"}
Res(K) == UNION {[D -> Results] : D \in SUBSET K}
Records == {r \in [chain : SUBSET Steps, res : Res(Steps), own : BOOLEAN] : DOMAIN r.res \subseteq r.chain}
Outcomes == {"reproduced", "not_reproduced", "inconclusive", "did_not_run"}
Verdicts(outcomes) ==
  [outcome : outcomes, broke : BOOLEAN, fresh : BOOLEAN, res : Res(Steps), next : {None} \cup SUBSET Steps]
SliceFiles ==
  [steps : SUBSET Steps, relaxed : SUBSET Steps, pins : SUBSET Steps, says : Words]

TypeOK ==
  /\ p \in Programs
  /\ chain \subseteq Steps /\ group \subseteq Steps /\ keep \subseteq Steps /\ had \subseteq Steps
  /\ notes \subseteq [slice : Steps, held : SUBSET Steps, lost : SUBSET Steps]
  /\ files \in [Steps -> {None} \cup SliceFiles]
  /\ newest \in {None} \cup Records /\ rec \in {None} \cup Records
  /\ now \in Res(Steps) /\ (pc = "run" => DOMAIN now \subseteq chain) /\ (pc = "repeat" => DOMAIN now \subseteq kept)
  /\ verdicts \in Seq(Verdicts(Outcomes))
  /\ verdict \in {None} \cup Verdicts(Outcomes \cup {"intermittent"})
  /\ created \in BOOLEAN /\ kills \in Nat

\* Which command is where.
AtWork ==
  /\ pc \in {"idle", "run", "slice", "repeat", "record", "round", "look", "after", "cut", "note"}
  /\ cmd.kind \in {"none", "run", "slice", "pin"}
  /\ pc = "run" => cmd.kind \in {"run", "pin"}
  /\ pc \in {"slice", "repeat", "record"} => cmd.kind \in {"slice", "pin"}
  /\ pc \in {"round", "look", "after", "cut", "note"} => cmd.kind = "pin"
  /\ cmd.kind = "pin" => cmd.verify = TRUE
  /\ pc \in {"slice", "repeat", "record"} => group # {} /\ group \subseteq chain /\ rec \in Records
  /\ pc \in {"repeat", "record"} => verdict = None
  /\ pc = "record" => verdicts # <<>>
  /\ pc \in {"after", "cut", "note"} => verdict \in Verdicts(Outcomes \cup {"intermittent"})

\* What a run of the slice that counts shows of the step, as it was shown and as
\* the verdict holds it.
AnsweredAs(res) == Answer(p, res, target) = Answer(p, rec.res, target)
RunShows(v) ==
  /\ v.outcome = "reproduced" =>
       <<target, kept, Relaxed>> \in shown /\ target \in DOMAIN v.res /\ AnsweredAs(v.res)
  /\ v.outcome = "not_reproduced" =>
       Reached(v.res, target) /\ ~v.broke /\ ~AnsweredAs(v.res)
RunsShow == pc \in {"repeat", "record"} => \A i \in DOMAIN verdicts : RunShows(verdicts[i])

\* Once pin goes on from a slice, its verdict blames nothing.
Settled ==
  pc \in {"cut", "note", "round", "look"} \/ (pc = "run" /\ red) => verdict = None \/ verdict.outcome = "reproduced"

\* A pin works on a record of the chain as it is: what it keeps red failed there.
OfThisChain ==
  /\ pc = "look" => rec \in Records /\ rec = newest /\ rec.own /\ rec.chain = chain
  /\ red /\ pc \in {"slice", "repeat", "record", "after", "cut"} =>
       rec \in Records /\ rec.chain = chain /\ group # {} /\ group \subseteq Failures(rec.res)
  /\ pc = "note" =>
       /\ rec \in Records /\ group # {} /\ group \subseteq Failures(rec.res)
       /\ chain = rec.chain \ Gone(p, rec.chain, group)

\* What keeps a cut step red.
Pinning(t) ==
  files[t] # None /\ files[t].says = "VERIFIED" /\ t \in files[t].pins
AtCut ==
  /\ pc \in {"after", "cut", "note"} /\ verdict.outcome = "reproduced" =>
       Pinning(target) /\ files[target].steps = kept
  /\ pc \in {"cut", "note"} => verdict.outcome = "reproduced"

\* A step a line names is not in the chain, so that no command writes its slice.
NotedAreCut == \A n \in notes : n.slice \notin chain

\* NoStepVanishes, with what is on its way into a line told apart.
Vanished(s) ==
  \E t \in Steps \ chain :
    files[t] # None /\ files[t].says = "VERIFIED" /\ s \in files[t].steps \cup Gone(p, Steps, files[t].steps \ chain)
Accounted ==
  \A s \in Steps \ chain :
    \/ \E n \in notes : s \in n.held \cup n.lost
    \/ pc = "note" /\ s \in Gone(p, rec.chain, group)
    \/ kills > 0 /\ Vanished(s)

\* The slices that a pin has written so far: proven and of a step it cut, or of
\* the step it works on.
NewSlice(t) ==
  \/ files[t].says = "VERIFIED" /\ t \notin chain
  \/ pc \in {"repeat", "record"} /\ t = target /\ created
  \/ pc \in {"after", "cut"} /\ t = target /\ verdict.outcome = "reproduced" /\ files[t].says = "VERIFIED"
NewSlices ==
  red /\ pc # "idle" =>
    /\ \A t \in Steps \ had : files[t] # None => NewSlice(t)
    /\ pc \in {"repeat", "record"} => created \/ target \in had

IInv ==
  /\ TypeOK /\ AtWork
  /\ RunsShow /\ VerifiedTrue /\ BlameTrue /\ Settled
  /\ OfThisChain /\ AtCut /\ NotedAreCut /\ CutIsPinned /\ Accounted
  /\ NewSlices /\ NoUnprovenRed

(***************************************************************************)
(* Least and greatest elements                                             *)
(***************************************************************************)
\* A set of naturals has a least element, so First (of a group, of the steps still
\* to run) is one of them.
LEMMA MinExists ==
  ASSUME NEW S, S \subseteq Nat, S # {}
  PROVE  \E m \in S : \A k \in S : m <= k
<1>1. PICK m \in S : \A k \in S : ~ (<<k, m>> \in OpToRel(<, Nat))
  BY NatLessThanWellFounded, WFMin
<1>2. \A k \in S : ~ (k < m) BY <1>1 DEF OpToRel
<1> QED BY <1>2

LEMMA FirstIsLeast ==
  ASSUME NEW S, S \subseteq Nat, S # {}
  PROVE  First(S) \in S /\ \A k \in S : First(S) <= k
  BY MinExists DEF First

\* A bounded set of naturals has a greatest element.
LEMMA MaxExists ==
  ASSUME NEW S, NEW n \in Nat, S \subseteq 0 .. n, S # {}
  PROVE  \E m \in S : \A k \in S : k <= m
<1> DEFINE T == {n - k : k \in S}
<1>1. T \subseteq Nat /\ T # {}
  <2>1. \A k \in S : n - k \in Nat OBVIOUS
  <2> QED BY <2>1
<1>2. PICK j \in T : \A k \in T : j <= k
  <2> HIDE DEF T
  <2> QED BY <1>1, MinExists
<1>3. PICK m \in S : j = n - m BY <1>2
<1>4. \A k \in S : n - m <= n - k BY <1>2, <1>3
<1>5. \A k \in S : k \in Int OBVIOUS
<1> QED BY <1>4, <1>5

(***************************************************************************)
(* What is kept, and what is gone                                          *)
(***************************************************************************)
\* A slice keeps what it is asked for, and steps of the chain only.
LEMMA KeptHasAsked ==
  ASSUME NEW q, NEW S, S \subseteq 1 .. q.n
  PROVE  S \subseteq Kept(q, S) /\ Kept(q, S) \subseteq 1 .. q.n
  BY DEF Kept

\* A slice for several steps keeps what a slice for one of them keeps.
LEMMA KeptOfOne ==
  ASSUME NEW q \in Programs, NEW S, S \subseteq 1 .. q.n, NEW t \in S
  PROVE  Kept(q, {t}) \subseteq Kept(q, S)
<1> DEFINE closed(R) == \A s \in R : Refs(q, s) \subseteq R
           before(Q) == {u \in (1 .. q.n) \ Q : \E s \in Q : u < s}
           keeps(Q) == Q \cup {u \in before(Q) : \A R \in SUBSET (before(Q) \ {u}) : ~closed(Q \cup R)}
<1>1. \A Q : Kept(q, Q) = keeps(Q) BY DEF Kept
<1>2. SUFFICES ASSUME NEW s \in keeps({t}), s \notin S PROVE s \in keeps(S)
  <2>1. S \subseteq keeps(S) OBVIOUS
  <2> HIDE DEF keeps
  <2> QED BY <1>1, <2>1
<1>3. s \in before({t}) /\ \A R \in SUBSET before({t}) : closed({t} \cup R) => s \in R
  <2>1. s \in before({t}) /\ \A R \in SUBSET (before({t}) \ {s}) : ~closed({t} \cup R) BY <1>2
  <2>2. ASSUME NEW R \in SUBSET before({t}), s \notin R PROVE R \in SUBSET (before({t}) \ {s}) BY <2>2
  <2> HIDE DEF before, closed
  <2> QED BY <2>1, <2>2
<1>4. s \in before(S) BY <1>2, <1>3
<1>5. ASSUME NEW R \in SUBSET before(S), closed(S \cup R) PROVE s \in R
  <2> DEFINE Q == (S \cup R) \cap before({t})
  <2>1. ASSUME NEW u \in {t} \cup Q PROVE Refs(q, u) \subseteq {t} \cup Q
    <3>1. u \in S \cup R /\ u \in 1 .. q.n /\ u <= t /\ t \in 1 .. q.n OBVIOUS
    <3>2. Refs(q, u) \subseteq S \cup R BY <1>5, <3>1
    <3>3. Refs(q, u) \subseteq 1 .. u - 1 BY <3>1, ProgramsAssumption
    <3>4. q.n \in Nat BY ProgramsAssumption
    <3>5. ASSUME NEW w \in Refs(q, u) PROVE w \in before({t})
      <4>1. w \in 1 .. u - 1 BY <3>3
      <4>2. w \in 1 .. q.n /\ w < t BY <3>1, <3>4, <4>1
      <4> QED BY <4>2
    <3> QED BY <3>2, <3>5
  <2>2. closed({t} \cup Q) BY <2>1
  <2>3. Q \in SUBSET before({t}) OBVIOUS
  <2>4. s \in Q BY <1>3, <2>2, <2>3
  <2> QED BY <1>2, <2>4
<1> QED BY <1>4, <1>5

\* What is cut from a chain are steps of it, the named ones among them.
LEMMA GoneHasNamed ==
  ASSUME NEW q, NEW K, NEW N
  PROVE  Gone(q, K, N) \subseteq K /\ K \cap N \subseteq Gone(q, K, N)
  BY DEF Gone

\* With more steps, and more of them named, no less is gone.
LEMMA GoneGrows ==
  ASSUME NEW q, NEW K, NEW L, NEW M, NEW N, K \subseteq L, K \cap N \subseteq M
  PROVE  Gone(q, K, N) \subseteq Gone(q, L, M)
<1> DEFINE first(C, A) == C \cap A
           after(C, A) == {s \in C \ first(C, A) : \E t \in first(C, A) : t < s}
           closed(C, A, G) == \A s \in after(C, A) \ G : Refs(q, s) \cap (first(C, A) \cup G) = {}
           gone(C, A) == first(C, A) \cup {s \in after(C, A) : \A G \in SUBSET (after(C, A) \ {s}) : ~closed(C, A, G)}
<1>1. \A C, A : Gone(q, C, A) = gone(C, A) BY DEF Gone
<1>2. SUFFICES ASSUME NEW s \in gone(K, N), s \notin first(L, M) PROVE s \in gone(L, M) BY <1>1
<1>3. first(K, N) \subseteq first(L, M) OBVIOUS
<1>4. s \in after(K, N) /\ \A G \in SUBSET after(K, N) : closed(K, N, G) => s \in G
  <2>1. s \in after(K, N) /\ \A G \in SUBSET (after(K, N) \ {s}) : ~closed(K, N, G) BY <1>2, <1>3
  <2>2. ASSUME NEW G \in SUBSET after(K, N), s \notin G PROVE G \in SUBSET (after(K, N) \ {s}) BY <2>2
  <2> HIDE DEF after, closed
  <2> QED BY <2>1, <2>2
<1>5. s \in after(L, M) BY <1>2, <1>3, <1>4
<1>6. ASSUME NEW H \in SUBSET after(L, M), closed(L, M, H) PROVE s \in H
  <2> DEFINE G == (first(L, M) \cup H) \cap after(K, N)
  <2>1. ASSUME NEW u \in after(K, N) \ G PROVE Refs(q, u) \cap (first(K, N) \cup G) = {}
    <3>1. u \in after(L, M) \ H BY <1>3, <2>1
    <3>2. Refs(q, u) \cap (first(L, M) \cup H) = {} BY <1>6, <3>1
    <3> QED BY <1>3, <3>2
  <2>2. closed(K, N, G) BY <2>1
  <2>3. G \in SUBSET after(K, N) OBVIOUS
  <2>4. s \in G BY <1>4, <2>2, <2>3
  <2> QED BY <1>2, <2>4
<1> QED BY <1>5, <1>6

(***************************************************************************)
(* Runs and verdicts                                                       *)
(***************************************************************************)
\* A run of a step ends in one of six ways.
LEMMA StepResultsAre ==
  ASSUME NEW q, NEW r, NEW res, NEW s
  PROVE  StepResults(q, r, res, s) \subseteq Results
  BY Zenon DEF StepResults, Results

\* A run that takes one more step of K is a run of steps of K.
LEMMA OneMore ==
  ASSUME NEW K, NEW res \in Res(K), NEW s \in K, NEW x \in Results
  PROVE  [q \in DOMAIN res \cup {s} |-> IF q = s THEN x ELSE res[q]] \in Res(K)
<1>1. PICK D \in SUBSET K : res \in [D -> Results] BY DEF Res
<1> DEFINE f == [q \in DOMAIN res \cup {s} |-> IF q = s THEN x ELSE res[q]]
<1>2. f \in [D \cup {s} -> Results] BY <1>1
<1>3. D \cup {s} \in SUBSET K BY <1>1
<1> HIDE DEF f
<1>4. f \in Res(K) BY <1>2, <1>3 DEF Res
<1> QED BY <1>4 DEF f

\* What is recorded of several runs is what one of them says, made milder when
\* others say the opposite.
LEMMA CombinedIs ==
  ASSUME NEW vs \in Seq(Verdicts(Outcomes)), vs # <<>>
  PROVE  \E i \in DOMAIN vs :
           \/ Combined(vs) = vs[i]
           \/ /\ vs[i].outcome = "not_reproduced" /\ Combined(vs) = [vs[i] EXCEPT !.outcome = "intermittent"]
              /\ \E g \in DOMAIN vs : vs[g].outcome = "reproduced"
<1> DEFINE counted == Counted(vs)
           good == {i \in counted : vs[i].outcome = "reproduced"}
           bad == counted \ good
           worst == {i \in bad : \A j \in bad : Rank[vs[j].outcome] <= Rank[vs[i].outcome]}
           last == CHOOSE i \in counted : \A j \in counted : j <= i
           first == CHOOSE i \in worst : \A j \in worst : i <= j
           rep == IF bad = {} THEN last ELSE first
<1>1. Len(vs) \in Nat /\ DOMAIN vs = 1 .. Len(vs) /\ DOMAIN vs # {} OBVIOUS
<1>2. counted \subseteq DOMAIN vs /\ counted # {} BY <1>1 DEF Counted
<1>3. \A i \in DOMAIN vs : Rank[vs[i].outcome] \in 0 .. 3
  <2>1. \A i \in DOMAIN vs : vs[i] \in Verdicts(Outcomes) BY <1>1
  <2>2. \A v \in Verdicts(Outcomes) : v.outcome \in Outcomes BY DEF Verdicts
  <2> QED BY <2>1, <2>2 DEF Outcomes, Rank
<1> HIDE DEF counted
<1>4. last \in counted
  <2>1. counted \subseteq 0 .. Len(vs) BY <1>1, <1>2
  <2>2. \E i \in counted : \A j \in counted : j <= i BY <1>1, <1>2, <2>1, MaxExists
  <2> QED BY <2>2
<1>5. ASSUME bad # {} PROVE first \in counted
  <2> DEFINE ranks == {Rank[vs[i].outcome] : i \in bad}
  <2>1. ranks \subseteq 0 .. 3 /\ ranks # {} BY <1>2, <1>3, <1>5
  <2>2. PICK m \in ranks : \A k \in ranks : k <= m
    <3> HIDE DEF ranks
    <3> QED BY <2>1, MaxExists
  <2>3. PICK i \in bad : Rank[vs[i].outcome] = m BY <2>2
  <2>4. \A j \in bad : Rank[vs[j].outcome] <= Rank[vs[i].outcome] BY <2>2, <2>3
  <2>5. i \in worst BY <2>4
  <2>6. worst \subseteq Nat BY <1>1, <1>2
  <2> HIDE DEF worst
  <2>7. \E k \in worst : \A j \in worst : k <= j BY <2>5, <2>6, MinExists
  <2>8. first \in worst BY <2>7
  <2> QED BY <2>8 DEF worst
<1>6. rep \in DOMAIN vs BY <1>2, <1>4, <1>5
<1>7. Combined(vs) = IF good # {} /\ vs[rep].outcome = "not_reproduced"
                     THEN [vs[rep] EXCEPT !.outcome = "intermittent"] ELSE vs[rep]
  BY DEF Combined, counted
<1>8. good # {} => \E g \in DOMAIN vs : vs[g].outcome = "reproduced" BY <1>2
<1> HIDE DEF rep, good
<1> QED BY <1>6, <1>7, <1>8

(***************************************************************************)
(* Facts of a state, and what steps have in common                         *)
(***************************************************************************)
\* A run that has not begun is one of any steps.
LEMMA EmptyRun ==
  ASSUME NEW K
  PROVE  <<>> \in Res(K) /\ DOMAIN <<>> = {}
<1>1. <<>> \in [{} -> Results] /\ DOMAIN <<>> = {} OBVIOUS
<1> QED BY <1>1 DEF Res

\* What the slice in hand is made of.
LEMMA InHand ==
  ASSUME TypeOK
  PROVE  /\ p.n \in Nat /\ Steps \subseteq Nat
         /\ group # {} => target \in group
         /\ group \cup keep \subseteq kept /\ kept \subseteq Steps
         /\ Relaxed \subseteq Steps /\ StepPins \subseteq Steps
<1>1. p.n \in Nat /\ Steps \subseteq Nat BY ProgramsAssumption DEF TypeOK, Steps
<1>2. group # {} => target \in group BY <1>1, FirstIsLeast DEF TypeOK, target
<1>3. group \cup keep \subseteq kept /\ kept \subseteq Steps
  BY KeptHasAsked DEF TypeOK, Steps, kept
<1> QED BY <1>1, <1>2, <1>3 DEF Relaxed, StepPins

\* The sets of a program stay while the program does.
LEMMA SameProgram ==
  ASSUME p' = p
  PROVE  /\ Steps' = Steps /\ Records' = Records /\ SliceFiles' = SliceFiles
         /\ Res(Steps)' = Res(Steps)
         /\ Verdicts(Outcomes)' = Verdicts(Outcomes)
         /\ Verdicts(Outcomes \cup {"intermittent"})' = Verdicts(Outcomes \cup {"intermittent"})
<1>1. Steps' = Steps BY DEF Steps
<1>2. Res(Steps)' = Res(Steps) BY <1>1 DEF Res
<1> QED BY <1>1, <1>2 DEF Records, SliceFiles, Verdicts

\* The slice in hand stays while what it is made of does.
LEMMA SameSlice ==
  ASSUME UNCHANGED <<p, group, keep, rec, cmd>>
  PROVE  /\ target' = target /\ kept' = kept /\ Relaxed' = Relaxed /\ red' = red
<1>1. target' = target BY DEF target
<1>2. kept' = kept BY DEF kept
<1>3. red' = red BY DEF red
<1>4. Relaxed' = Relaxed BY <1>1, <1>2, <1>3 DEF Relaxed
<1> QED BY <1>1, <1>2, <1>3, <1>4

\* What holds of the files goes on to hold while they and the chain stay.
LEMMA DiskStays ==
  ASSUME IInv, UNCHANGED <<p, chain, notes, files>>, shown \subseteq shown', kills' \in {kills, kills + 1},
         pc # "note"
  PROVE  VerifiedTrue' /\ NotedAreCut' /\ CutIsPinned' /\ Accounted'
<1>1. Steps' = Steps BY DEF Steps
<1>2. VerifiedTrue' BY <1>1 DEF IInv, VerifiedTrue
<1>3. NotedAreCut' BY DEF IInv, NotedAreCut
<1>4. CutIsPinned' BY DEF IInv, CutIsPinned
<1>5. \A s : Vanished(s)' <=> Vanished(s) BY <1>1 DEF Vanished
<1>6. kills > 0 => kills' > 0 BY DEF IInv, TypeOK
<1>7. Accounted' BY <1>1, <1>5, <1>6 DEF IInv, Accounted
<1> QED BY <1>2, <1>3, <1>4, <1>7

\* What a verdict blames stays true while the verdict and what it is about do.
LEMMA BlameStays ==
  ASSUME IInv, UNCHANGED <<p, group, rec, verdict, verdicts>>
  PROVE  BlameTrue'
<1>1. target' = target BY DEF target
<1> QED BY <1>1 DEF IInv, BlameTrue

\* Between the cut and the line about it, the slice has the steps that were named
\* and keeps the first of them red.
LEMMA TargetIsCut ==
  ASSUME IInv, pc = "note"
  PROVE  /\ rec.chain \subseteq Steps /\ group \subseteq kept \ chain /\ target \in group
         /\ Pinning(target) /\ files[target].steps = kept
<1>1. /\ rec \in Records /\ group # {} /\ group \subseteq Failures(rec.res)
      /\ chain = rec.chain \ Gone(p, rec.chain, group)
  BY DEF IInv, OfThisChain
<1>2. rec.chain \subseteq Steps /\ DOMAIN rec.res \subseteq rec.chain BY <1>1 DEF Records
<1>3. group \subseteq rec.chain BY <1>1, <1>2 DEF Failures
<1>4. Pinning(target) /\ files[target].steps = kept BY DEF IInv, AtCut
<1>5. group \subseteq kept /\ target \in group BY <1>1, InHand DEF IInv
<1>6. group \subseteq Gone(p, rec.chain, group) BY <1>3, GoneHasNamed
<1> QED BY <1>1, <1>2, <1>4, <1>5, <1>6

\* What was cut is in the slice or reads a cut step that is.
LEMMA CutIsInSlice ==
  ASSUME IInv, pc = "note", NEW s \in Gone(p, rec.chain, group)
  PROVE  Vanished(s)
<1>1. Gone(p, rec.chain, group) \subseteq Gone(p, Steps, kept \ chain) BY TargetIsCut, GoneGrows
<1>2. target \in Steps \ chain BY TargetIsCut, InHand DEF IInv
<1> QED BY <1>1, <1>2, TargetIsCut DEF Vanished, Pinning

\* What one run of a slice says of the target: that it is reproduced is said when
\* it came to what the source run came to, and that it is not when it came to
\* something else, and either only when nothing that passed there broke.
LEMMA RunVerdictIs ==
  ASSUME TypeOK, NEW fresh \in BOOLEAN, NEW v,
         v = RunVerdict(p, chain, rec.res, kept, target, group, keep, now, fresh)
  PROVE  /\ v \in Verdicts(Outcomes) /\ v.res = now /\ v.fresh = fresh
         /\ v.outcome # "did_not_run" => Reached(now, target)
         /\ v.outcome = "reproduced" => ~v.broke /\ target \in DOMAIN now /\ AnsweredAs(now)
         /\ v.outcome = "not_reproduced" => ~v.broke /\ Reached(now, target) /\ ~AnsweredAs(now)
<1> DEFINE was == Answer(p, rec.res, target)
           is == Answer(p, now, target)
           broke == BrokenKept(rec.res, now, target)
           dropped == Dropped(p, chain, rec.res, kept, target)
           entity == Related(p, kept, dropped)
           related == FieldRead(p, kept, entity)
           out == Outcome(was, is, broke, related)
           names == IF out = "did_not_run"
                    THEN IF target \notin DOMAIN now /\ fresh /\ StoppedAnew(p, rec.res, now) THEN entity ELSE {}
                    ELSE IF UpstreamOnly(was, is) THEN {}
                    ELSE IF broke # {} THEN IF entity # {} THEN entity ELSE dropped
                    ELSE IF out # "not_reproduced" THEN related
                    ELSE IF ~fresh THEN {}
                    ELSE IF related # {} THEN related ELSE dropped
           next == NextKeep(p, rec.res, group, keep, names)
<1>1. v = [outcome |-> out, broke |-> broke # {}, fresh |-> fresh, res |-> now, next |-> next]
  BY DEF RunVerdict
<1>2. out \in Outcomes BY DEF Outcome, Outcomes
<1>10. is.result \in Failing \cup {"passed"} => target \in DOMAIN now /\ is.result = now[target] /\ Reached(now, target)
  BY DEF Answer, Failing, Reached
<1> HIDE DEF was, is, broke, related
<1>3. out = "reproduced" => broke = {} /\ is.result \in Failing \cup {"passed"} /\ was = is BY DEF Outcome, Differs
<1>4. out = "not_reproduced" => broke = {} /\ is.result \in Failing \cup {"passed"} /\ was # is BY DEF Outcome, Differs
<1>9. out # "did_not_run" => is.result \in Failing \cup {"passed"} BY DEF Outcome
<1>11. AnsweredAs(now) <=> was = is BY DEF AnsweredAs, was, is
<1>5. next \in {None} \cup SUBSET Steps
  <2>1. dropped \subseteq Steps BY DEF Dropped, TypeOK
  <2>2. entity \subseteq dropped BY DEF Related
  <2>3. related \subseteq entity BY DEF FieldRead, related
  <2> HIDE DEF dropped, entity, out
  <2>4. names \subseteq Steps BY <2>1, <2>2, <2>3
  <2> HIDE DEF names
  <2> QED BY <2>4 DEF NextKeep, TypeOK
<1> HIDE DEF out, broke, next
<1>6. now \in Res(Steps) BY DEF TypeOK
<1>7. v \in Verdicts(Outcomes) BY <1>1, <1>2, <1>5, <1>6 DEF Verdicts
<1>8. v.outcome = out /\ v.broke = (broke # {}) /\ v.res = now /\ v.fresh = fresh BY <1>1
<1> QED BY <1>3, <1>4, <1>7, <1>8, <1>9, <1>10, <1>11

(***************************************************************************)
(* The invariant, action by action                                         *)
(***************************************************************************)
\* It holds at the start.
LEMMA AtStart ==
  ASSUME Init
  PROVE  IInv
<1>1. /\ p \in Programs /\ chain = Steps /\ notes = {} /\ files = [t \in Steps |-> None]
      /\ newest = None /\ cmd.kind = "none" /\ pc = "idle" /\ rec = None /\ group = {} /\ keep = {} /\ now = <<>>
      /\ created = FALSE /\ verdicts = <<>> /\ verdict = None /\ had = {} /\ kills = 0
  BY DEF Init, NoCommand
<1>2. TypeOK
  <2>1. verdicts \in Seq(Verdicts(Outcomes)) BY <1>1
  <2>2. now \in Res(Steps) BY <1>1, EmptyRun
  <2>3. files \in [Steps -> {None} \cup SliceFiles] BY <1>1
  <2> QED BY <1>1, <2>1, <2>2, <2>3 DEF TypeOK
<1>3. AtWork /\ RunsShow /\ Settled /\ OfThisChain /\ AtCut /\ NewSlices
  BY <1>1 DEF AtWork, RunsShow, Settled, OfThisChain, AtCut, NewSlices, red
<1>4. VerifiedTrue /\ BlameTrue /\ NotedAreCut /\ CutIsPinned /\ Accounted /\ NoUnprovenRed
  BY <1>1 DEF VerifiedTrue, BlameTrue, NotedAreCut, CutIsPinned, Accounted, NoUnprovenRed
<1> QED BY <1>2, <1>3, <1>4 DEF IInv

\* A run of the chain works on nothing that a slice or a pin has.
LEMMA RunChainKeeps ==
  ASSUME IInv, RunChain
  PROVE  IInv'
<1>1. /\ pc = "idle" /\ pc' = "run" /\ cmd'.kind = "run" /\ now' = <<>>
      /\ UNCHANGED <<p, chain, notes, files, newest, rec, group, keep, created, verdicts, verdict, had, shown, kills>>
  BY DEF RunChain, May, NoCommand, disk, world
<1>2. TypeOK' BY <1>1, EmptyRun, SameProgram DEF IInv, TypeOK
<1>3. AtWork' /\ RunsShow' /\ Settled' /\ OfThisChain' /\ AtCut' /\ NewSlices' /\ NoUnprovenRed'
  BY <1>1 DEF AtWork, RunsShow, Settled, OfThisChain, AtCut, NewSlices, NoUnprovenRed, red
<1>4. VerifiedTrue' /\ NotedAreCut' /\ CutIsPinned' /\ Accounted' BY <1>1, DiskStays DEF IInv, TypeOK
<1>5. BlameTrue' BY <1>1, BlameStays
<1> QED BY <1>2, <1>3, <1>4, <1>5 DEF IInv

\* A slice is asked for of a step of the chain.
LEMMA StartSliceKeeps ==
  ASSUME IInv, StartSlice
  PROVE  IInv'
<1>1. PICK t \in chain : \E k \in {{}, p.write} : group' = {t} /\ keep' = {w \in chain \cap k : w < t}
  BY DEF StartSlice
<1>2. /\ pc = "idle" /\ pc' = "slice" /\ cmd'.kind = "slice" /\ newest # None /\ rec' = newest
      /\ had' = {s \in Steps : files[s] # None} /\ verdicts' = <<>> /\ verdict' = None
      /\ UNCHANGED <<p, chain, notes, files, newest, now, created, shown, kills>>
  BY DEF StartSlice, May, disk, world
<1>3. TypeOK'
  <2>1. group' \subseteq Steps /\ keep' \subseteq Steps BY <1>1 DEF IInv, TypeOK
  <2>2. rec' \in Records /\ verdicts' \in Seq(Verdicts(Outcomes)) BY <1>2 DEF IInv, TypeOK
  <2> QED BY <1>2, <2>1, <2>2, SameProgram DEF IInv, TypeOK
<1>4. AtWork' BY <1>1, <1>2, SameProgram DEF IInv, TypeOK, AtWork
<1>5. RunsShow' /\ Settled' /\ OfThisChain' /\ AtCut' /\ NewSlices' /\ NoUnprovenRed' /\ BlameTrue'
  BY <1>2 DEF RunsShow, Settled, OfThisChain, AtCut, NewSlices, NoUnprovenRed, BlameTrue, red
<1>6. VerifiedTrue' /\ NotedAreCut' /\ CutIsPinned' /\ Accounted' BY <1>2, DiskStays DEF IInv, TypeOK
<1> QED BY <1>3, <1>4, <1>5, <1>6 DEF IInv

\* A pin counts as old every slice that is there.
LEMMA StartPinKeeps ==
  ASSUME IInv, StartPin
  PROVE  IInv'
<1>1. /\ pc = "idle" /\ pc' = "round" /\ cmd'.kind = "pin" /\ cmd'.verify = TRUE
      /\ had' = {s \in Steps : files[s] # None} /\ verdicts' = <<>> /\ verdict' = None
      /\ UNCHANGED <<p, chain, notes, files, newest, rec, group, keep, now, created, shown, kills>>
  BY DEF StartPin, May, NoCommand, disk, world
<1>2. TypeOK'
  <2>1. verdicts' \in Seq(Verdicts(Outcomes)) BY <1>1
  <2> QED BY <1>1, <2>1, SameProgram DEF IInv, TypeOK
<1>3. AtWork' BY <1>1, SameProgram DEF IInv, AtWork
<1>4. RunsShow' /\ Settled' /\ OfThisChain' /\ AtCut' /\ NoUnprovenRed' /\ BlameTrue'
  BY <1>1 DEF RunsShow, Settled, OfThisChain, AtCut, NoUnprovenRed, BlameTrue, red
<1>5. NewSlices' BY <1>1, SameProgram DEF NewSlices
<1>6. VerifiedTrue' /\ NotedAreCut' /\ CutIsPinned' /\ Accounted' BY <1>1, DiskStays DEF IInv, TypeOK
<1> QED BY <1>2, <1>3, <1>4, <1>5, <1>6 DEF IInv

\* A checkout brings every step back and takes the lines away.
LEMMA CheckoutKeeps ==
  ASSUME IInv, Checkout
  PROVE  IInv'
<1>1. /\ pc = "idle" /\ pc' = "idle" /\ chain' = Steps /\ notes' = {} 
      /\ UNCHANGED <<p, files, newest, cmd, exit, rec, group, keep, now, created, verdicts, verdict, had, shown, kills>>
  BY DEF Checkout, world, memory, counts
<1>2. TypeOK' BY <1>1, SameProgram DEF IInv, TypeOK
<1>3. AtWork' BY <1>1, SameProgram DEF IInv, AtWork
<1>4. RunsShow' /\ Settled' /\ OfThisChain' /\ AtCut' /\ NewSlices'
  BY <1>1 DEF IInv, RunsShow, Settled, OfThisChain, AtCut, NewSlices, red
<1>5. VerifiedTrue' /\ NoUnprovenRed' BY <1>1, SameProgram DEF IInv, VerifiedTrue, NoUnprovenRed
<1>6. NotedAreCut' /\ CutIsPinned' /\ Accounted' BY <1>1, SameProgram DEF NotedAreCut, CutIsPinned, Accounted
<1>7. BlameTrue' BY <1>1, BlameStays
<1> QED BY <1>2, <1>3, <1>4, <1>5, <1>6, <1>7 DEF IInv

\* A kill between the cut and the line about it leaves the slice, which has the
\* steps that were cut or one that they read.
LEMMA KillKeeps ==
  ASSUME IInv, Kill
  PROVE  IInv'
<1>1. /\ pc # "idle" /\ pc' = "idle" /\ exit' = "killed" /\ kills' = kills + 1
      /\ UNCHANGED <<p, chain, notes, files, newest, cmd, rec, group, keep, now, created, verdicts, verdict, had, shown>>
  BY DEF Kill, disk, memory
<1>2. TypeOK' BY <1>1, SameProgram DEF IInv, TypeOK
<1>3. AtWork' BY <1>1, SameProgram DEF IInv, AtWork
<1>4. RunsShow' /\ Settled' /\ OfThisChain' /\ AtCut' /\ NewSlices' /\ NoUnprovenRed'
  BY <1>1 DEF IInv, RunsShow, Settled, OfThisChain, AtCut, NewSlices, NoUnprovenRed, red
<1>5. VerifiedTrue' BY <1>1, SameProgram DEF IInv, VerifiedTrue
<1>6. NotedAreCut' /\ CutIsPinned' BY <1>1 DEF IInv, NotedAreCut, CutIsPinned
<1>7. BlameTrue' BY <1>1, BlameStays
<1>8. Accounted'
  <2>1. CASE pc # "note" BY <1>1, <2>1, DiskStays
  <2>2. CASE pc = "note"
    <3>1. \A s : Vanished(s)' <=> Vanished(s) BY <1>1, SameProgram DEF Vanished
    <3>2. \A s \in Gone(p, rec.chain, group) : Vanished(s) BY <2>2, CutIsInSlice
    <3>3. kills' > 0 BY <1>1 DEF IInv, TypeOK
    <3> QED BY <1>1, <3>1, <3>2, <3>3, SameProgram DEF IInv, Accounted
  <2> QED BY <2>1, <2>2
<1> QED BY <1>2, <1>3, <1>4, <1>5, <1>6, <1>7, <1>8 DEF IInv

\* A run is of the steps of the chain, or of the slice.
LEMMA RunStepKeeps ==
  ASSUME IInv, RunStep
  PROVE  IInv'
<1>1. /\ pc \in {"run", "repeat"} /\ toRun # {}
      /\ UNCHANGED <<p, chain, notes, files, newest, cmd, pc, exit, rec, group, keep, created, verdicts, verdict, had, shown, kills>>
  BY DEF RunStep, disk, counts
<1>2. PICK x \in StepResults(p, manner, now, First(toRun)) :
        now' = [q \in DOMAIN now \cup {First(toRun)} |-> IF q = First(toRun) THEN x ELSE now[q]]
  BY DEF RunStep
<1>3. x \in Results BY <1>2, StepResultsAre
<1>4. toRun \subseteq running BY DEF toRun, ToRun
<1>5. running \subseteq Steps BY InHand DEF IInv, TypeOK, running
<1>6. First(toRun) \in toRun
  <2>1. toRun \subseteq Nat BY <1>4, <1>5, InHand DEF IInv
  <2> QED BY <1>1, <2>1, FirstIsLeast
<1>7. now' \in Res(Steps)
  <2>1. First(toRun) \in Steps /\ now \in Res(Steps) BY <1>4, <1>5, <1>6 DEF IInv, TypeOK
  <2> QED BY <1>2, <1>3, <2>1, OneMore
<1>8. pc = "run" => DOMAIN now' \subseteq chain
  <2>1. DOMAIN now' = DOMAIN now \cup {First(toRun)} BY <1>2
  <2> QED BY <1>4, <1>6, <2>1 DEF IInv, TypeOK, running
<1>20. pc = "repeat" => DOMAIN now' \subseteq kept'
  <2>1. DOMAIN now' = DOMAIN now \cup {First(toRun)} /\ kept' = kept BY <1>1, <1>2, SameSlice
  <2> QED BY <1>4, <1>6, <2>1 DEF IInv, TypeOK, running
<1>9. TypeOK' BY <1>1, <1>7, <1>8, <1>20, SameProgram DEF IInv, TypeOK
<1>10. AtWork' BY <1>1, SameProgram DEF IInv, AtWork
<1>11. target' = target /\ kept' = kept /\ Relaxed' = Relaxed /\ red' = red BY <1>1, SameSlice
<1>12. RunsShow' BY <1>1, <1>11 DEF IInv, RunsShow, RunShows, AnsweredAs
<1>13. Settled' BY <1>1, <1>11 DEF IInv, Settled
<1>14. OfThisChain' BY <1>1, <1>11, SameProgram DEF IInv, OfThisChain
<1>15. AtCut' BY <1>1 DEF AtCut
<1>16. NewSlices'
  <2>1. \A t : NewSlice(t)' <=> NewSlice(t) BY <1>1, <1>11 DEF NewSlice
  <2> QED BY <1>1, <1>11, <2>1, SameProgram DEF IInv, NewSlices
<1>17. NoUnprovenRed' BY <1>1 DEF NoUnprovenRed
<1>18. VerifiedTrue' /\ NotedAreCut' /\ CutIsPinned' /\ Accounted' BY <1>1, DiskStays DEF IInv, TypeOK
<1>19. BlameTrue' BY <1>1, BlameStays
<1> QED BY <1>9, <1>10, <1>12, <1>13, <1>14, <1>15, <1>16, <1>17, <1>18, <1>19 DEF IInv

\* The record that a run leaves is of the chain as it is.
LEMMA RunEndsKeeps ==
  ASSUME IInv, RunEnds
  PROVE  IInv'
<1>1. /\ pc = "run" /\ newest' = [chain |-> chain, res |-> now, own |-> TRUE]
      /\ pc' = (IF red THEN "look" ELSE "idle") /\ rec' = (IF red THEN newest' ELSE rec)
      /\ UNCHANGED <<p, chain, notes, files, cmd, group, keep, now, created, verdicts, verdict, had, shown, kills>>
  BY DEF RunEnds, Goto, Ends, disk, counts
<1>2. newest' \in Records BY <1>1 DEF IInv, TypeOK, Records
<1>3. TypeOK' BY <1>1, <1>2, SameProgram DEF IInv, TypeOK
<1>4. red' = red BY <1>1 DEF red
<1>5. AtWork' BY <1>1, SameProgram DEF IInv, AtWork, red
<1>6. RunsShow' /\ AtCut' BY <1>1 DEF RunsShow, AtCut
<1>7. Settled' BY <1>1, <1>4 DEF IInv, Settled
<1>8. OfThisChain' BY <1>1, <1>2, <1>4, SameProgram DEF OfThisChain
<1>9. NewSlices'
  <2>1. \A t : NewSlice(t) /\ pc = "run" => NewSlice(t)' BY <1>1 DEF NewSlice
  <2> QED BY <1>1, <1>4, <2>1, SameProgram DEF IInv, NewSlices
<1>10. NoUnprovenRed' BY <1>1, <1>4 DEF NoUnprovenRed, red
<1>11. VerifiedTrue' /\ NotedAreCut' /\ CutIsPinned' /\ Accounted' BY <1>1, DiskStays DEF IInv, TypeOK
<1>12. BlameTrue'
  <2>1. CASE red BY <1>1, <2>1 DEF IInv, Settled, BlameTrue
  <2>2. CASE ~red BY <1>1, <2>2, BlameStays
  <2> QED BY <2>1, <2>2
<1> QED BY <1>3, <1>5, <1>6, <1>7, <1>8, <1>9, <1>10, <1>11, <1>12 DEF IInv

\* Every round of a pin begins on the newest record; it is taken as it is only
\* when it is of this chain.
LEMMA RoundKeeps ==
  ASSUME IInv, Round
  PROVE  IInv'
<1>1. /\ pc = "round" /\ now' = <<>>
      /\ pc' = (IF ~More THEN "idle" ELSE IF Stale THEN "run" ELSE "look")
      /\ rec' = (IF ~More THEN rec ELSE newest)
      /\ UNCHANGED <<p, chain, notes, files, newest, cmd, group, keep, created, verdicts, verdict, had, shown, kills>>
  BY DEF Round, Goto, Ends, disk, world, counts
<1>2. red /\ red' BY <1>1 DEF IInv, AtWork, red
<1>3. TypeOK' BY <1>1, EmptyRun, SameProgram DEF IInv, TypeOK
<1>4. AtWork' BY <1>1, SameProgram DEF IInv, AtWork
<1>5. RunsShow' /\ AtCut' BY <1>1 DEF RunsShow, AtCut
<1>6. Settled' BY <1>1 DEF IInv, Settled
<1>7. OfThisChain'
  <2>1. pc' = "look" => newest \in Records /\ newest.own /\ newest.chain = chain BY <1>1 DEF IInv, TypeOK, Stale
  <2> QED BY <1>1, <2>1, SameProgram DEF OfThisChain
<1>8. NewSlices' /\ NoUnprovenRed'
  <2>1. \A t \in Steps \ had : files[t] # None => files[t].says = "VERIFIED" /\ t \notin chain
    BY <1>1, <1>2 DEF IInv, NewSlices, NewSlice
  <2> QED BY <1>1, <2>1, SameProgram DEF NewSlices, NewSlice, NoUnprovenRed
<1>9. VerifiedTrue' /\ NotedAreCut' /\ CutIsPinned' /\ Accounted' BY <1>1, DiskStays DEF IInv, TypeOK
<1>10. BlameTrue' BY <1>1 DEF IInv, Settled, BlameTrue
<1> QED BY <1>3, <1>4, <1>5, <1>6, <1>7, <1>8, <1>9, <1>10 DEF IInv

\* pin works on steps that fail in the record at hand.
LEMMA GroupFails ==
  ASSUME IInv, pc = "look", failing # {}
  PROVE  Group # {} /\ Group \subseteq failing
<1>1. failing \subseteq Nat BY InHand DEF IInv, OfThisChain, Records, failing, Failures
<1>2. First(failing) \in failing BY <1>1, FirstIsLeast
<1> QED BY <1>2 DEF Group

\* pin has looked at the record.
LEMMA LookKeeps ==
  ASSUME IInv, Look
  PROVE  IInv'
<1>1. /\ pc = "look"
      /\ UNCHANGED <<p, chain, notes, files, newest, cmd, rec, now, created, verdicts, verdict, had, shown, kills>>
  BY DEF Look, Goto, Ends, disk, world, counts
<1>2. \/ pc' = "idle" /\ UNCHANGED <<group, keep>>
      \/ pc' = "slice" /\ failing # {} /\ group' = Group /\ keep' = {}
  BY DEF Look, Goto, Ends
<1>3. red /\ red' BY <1>1 DEF IInv, AtWork, red
<1>4. rec \in Records /\ rec.chain = chain BY <1>1 DEF IInv, OfThisChain
<1>5. pc' = "slice" => group' # {} /\ group' \subseteq Failures(rec.res)
  BY <1>1, <1>2, GroupFails DEF failing
<1>6. Failures(rec.res) \subseteq chain /\ chain \subseteq Steps
  BY <1>4 DEF Records, Failures, IInv, TypeOK
<1>7. TypeOK' BY <1>1, <1>2, <1>5, <1>6, SameProgram DEF IInv, TypeOK
<1>8. AtWork' BY <1>1, <1>2, <1>4, <1>5, <1>6, SameProgram DEF IInv, AtWork
<1>9. RunsShow' /\ AtCut' /\ Settled' BY <1>1, <1>2, <1>3 DEF RunsShow, AtCut, Settled
<1>10. OfThisChain' BY <1>1, <1>2, <1>4, <1>5, SameProgram DEF OfThisChain
<1>11. NewSlices' /\ NoUnprovenRed'
  <2>1. \A t \in Steps \ had : files[t] # None => files[t].says = "VERIFIED" /\ t \notin chain
    BY <1>1, <1>3 DEF IInv, NewSlices, NewSlice
  <2> QED BY <1>1, <1>2, <2>1, SameProgram DEF NewSlices, NewSlice, NoUnprovenRed
<1>12. VerifiedTrue' /\ NotedAreCut' /\ CutIsPinned' /\ Accounted' BY <1>1, DiskStays DEF IInv, TypeOK
<1>13. BlameTrue' BY <1>1 DEF IInv, Settled, BlameTrue
<1> QED BY <1>7, <1>8, <1>9, <1>10, <1>11, <1>12, <1>13 DEF IInv

\* Writing the slice of a step of the chain touches no slice of a cut step.
LEMMA WriteKeeps ==
  ASSUME IInv, pc # "note", target \in chain, NEW f \in {None} \cup SliceFiles,
         files' = [files EXCEPT ![target] = f], UNCHANGED <<p, chain, notes, shown, kills>>,
         f # None /\ f.says = "VERIFIED" => <<target, f.steps, f.relaxed>> \in shown
  PROVE  /\ files' \in [Steps -> {None} \cup SliceFiles]
         /\ VerifiedTrue' /\ NotedAreCut' /\ CutIsPinned' /\ Accounted'
<1>1. files \in [Steps -> {None} \cup SliceFiles] /\ target \in Steps /\ Steps' = Steps
  BY SameProgram DEF IInv, TypeOK
<1>2. files' \in [Steps -> {None} \cup SliceFiles] BY <1>1
<1>3. \A t \in Steps : files'[t] = IF t = target THEN f ELSE files[t] BY <1>1
<1>4. VerifiedTrue' BY <1>1, <1>3 DEF IInv, VerifiedTrue
<1>5. NotedAreCut' BY DEF IInv, NotedAreCut
<1>6. \A n \in notes : n.slice \in Steps /\ n.slice # target BY DEF IInv, TypeOK, NotedAreCut
<1>7. CutIsPinned' BY <1>3, <1>6 DEF IInv, CutIsPinned
<1>8. \A s : Vanished(s) => Vanished(s)' BY <1>1, <1>3 DEF Vanished
<1>9. Accounted' BY <1>1, <1>8 DEF IInv, Accounted
<1> QED BY <1>2, <1>4, <1>5, <1>7, <1>9

\* A slice is written as a hypothesis, or goes on to say what the same slice said.
LEMMA SliceKeeps ==
  ASSUME IInv, Slice
  PROVE  IInv'
<1> DEFINE f == File(StepPins, MayOverwrite.says)
           writes == ~Refused /\ ~whole
<1>1. /\ pc = "slice" /\ now' = <<>> /\ verdicts' = <<>> /\ verdict' = None
      /\ created' = (~whole /\ files[target] = None)
      /\ pc' = (IF ~Refused /\ cmd.verify THEN "repeat" ELSE "idle")
      /\ files' = (IF writes THEN [files EXCEPT ![target] = f] ELSE files)
      /\ UNCHANGED <<p, chain, notes, newest, cmd, rec, group, keep, had, shown, kills>>
  BY DEF Slice, Goto, Ends, disk, world, counts, Write
<1>2. group # {} /\ group \subseteq chain /\ chain \subseteq Steps /\ rec \in Records
      /\ cmd.kind \in {"slice", "pin"} /\ (red => cmd.verify)
  BY <1>1 DEF IInv, AtWork, TypeOK, red
<1>3. target \in chain /\ target \in Steps /\ kept \subseteq Steps /\ Relaxed \subseteq Steps /\ StepPins \subseteq Steps
  BY <1>2, InHand DEF IInv
<1>4. writes => MayOverwrite.ok BY DEF Refused
<1>5. /\ MayOverwrite.says \in {"HYPOTHESIS", "VERIFIED"}
      /\ MayOverwrite.ok /\ MayOverwrite.says = "VERIFIED" =>
           files[target] # None /\ files[target].says = "VERIFIED" /\ files[target].steps = kept /\ files[target].relaxed = Relaxed
  BY DEF MayOverwrite
<1>6. f \in SliceFiles BY <1>3, <1>5 DEF File, SliceFiles, Words
<1>7. writes /\ f.says = "VERIFIED" => <<target, f.steps, f.relaxed>> \in shown
  BY <1>3, <1>4, <1>5 DEF File, IInv, VerifiedTrue
<1> HIDE DEF f
<1>8. files' \in [Steps -> {None} \cup SliceFiles] /\ VerifiedTrue' /\ NotedAreCut' /\ CutIsPinned' /\ Accounted'
  <2>1. CASE writes BY <1>1, <1>3, <1>6, <1>7, <2>1, WriteKeeps
  <2>2. CASE ~writes BY <1>1, <2>2, DiskStays DEF IInv, TypeOK
  <2> QED BY <2>1, <2>2
<1> HIDE DEF writes
<1>9. target' = target /\ red' = red BY <1>1, SameSlice
<1>10. TypeOK'
  <2>1. verdicts' \in Seq(Verdicts(Outcomes)) BY <1>1
  <2> QED BY <1>1, <1>8, <2>1, EmptyRun, SameProgram DEF IInv, TypeOK
<1>11. AtWork' BY <1>1, <1>2, SameProgram DEF IInv, AtWork
<1>12. RunsShow' /\ Settled' /\ AtCut' /\ BlameTrue' BY <1>1 DEF RunsShow, Settled, AtCut, BlameTrue
<1>13. OfThisChain' BY <1>1, <1>9, SameProgram DEF IInv, OfThisChain
<1>14. red => \A t \in Steps \ had : files[t] # None => files[t].says = "VERIFIED" /\ t \notin chain
  BY <1>1 DEF IInv, NewSlices, NewSlice
<1>15. red => ~whole BY DEF whole
<1>16. NewSlices'
  <2>1. red => created' \/ target \in had BY <1>1, <1>3, <1>14, <1>15
  <2>2. \A t \in Steps : t # target => files'[t] = files[t] BY <1>1, <1>3 DEF IInv, TypeOK
  <2> QED BY <1>1, <1>9, <1>14, <2>1, <2>2, SameProgram DEF NewSlices, NewSlice
<1>17. NoUnprovenRed'
  <2>1. pc' = "idle" /\ red => files' = files BY <1>1, <1>2 DEF writes
  <2> QED BY <1>1, <1>9, <1>14, <2>1, SameProgram DEF NoUnprovenRed, red
<1> QED BY <1>8, <1>10, <1>11, <1>12, <1>13, <1>16, <1>17 DEF IInv

\* Each run of the slice is shown for what it was.
LEMMA RepeatKeeps ==
  ASSUME IInv, Repeat
  PROVE  IInv'
<1> DEFINE fresh == ~manner.stale
           v == RunVerdict(p, chain, rec.res, kept, target, group, keep, now, fresh)
<1>1. /\ pc = "repeat" /\ pc' \in {"repeat", "record"} /\ now' = <<>> /\ verdicts' = Append(verdicts, v)
      /\ shown' = (IF AnsweredAs(now) /\ ~v.broke
                   THEN shown \cup {<<target, kept, Relaxed>>} ELSE shown)
      /\ UNCHANGED <<p, chain, notes, files, cmd, rec, group, keep, created, verdict, had, kills>>
      /\ newest' = Saved
  BY DEF Repeat, Goto, disk, counts, AnsweredAs
<1>2. /\ v \in Verdicts(Outcomes) /\ v.res = now
      /\ v.outcome = "reproduced" => ~v.broke /\ target \in DOMAIN now /\ AnsweredAs(now)
      /\ v.outcome = "not_reproduced" => ~v.broke /\ Reached(now, target) /\ ~AnsweredAs(now)
  <2>1. fresh \in BOOLEAN BY Zenon
  <2> HIDE DEF fresh
  <2> QED BY <2>1, RunVerdictIs DEF IInv
<1> HIDE DEF v
<1>5. verdicts \in Seq(Verdicts(Outcomes)) BY DEF IInv, TypeOK
<1>6. verdicts' \in Seq(Verdicts(Outcomes)) /\ verdicts' # <<>> BY <1>1, <1>2, <1>5
<1>16. newest' \in {None} \cup Records
  <2>1. whole => DOMAIN now \subseteq chain BY <1>1 DEF IInv, TypeOK, whole
  <2> QED BY <1>1, <2>1 DEF IInv, TypeOK, Saved, Records
<1>7. TypeOK' BY <1>1, <1>6, <1>16, EmptyRun, SameProgram DEF IInv, TypeOK
<1>8. target' = target /\ kept' = kept /\ Relaxed' = Relaxed /\ red' = red BY <1>1, SameSlice
<1>9. AtWork' BY <1>1, <1>6, SameProgram DEF IInv, AtWork
<1>10. RunsShow'
  <2>1. ASSUME NEW i \in DOMAIN verdicts' PROVE RunShows(verdicts[i])'
    <3>1. CASE i \in DOMAIN verdicts
      <4>1. verdicts'[i] = verdicts[i] BY <1>1, <1>2, <1>5, <3>1
      <4>2. RunShows(verdicts[i]) BY <1>1, <3>1 DEF IInv, RunsShow
      <4> QED BY <1>1, <1>8, <4>1, <4>2 DEF RunShows, AnsweredAs
    <3>2. CASE i \notin DOMAIN verdicts
      <4>1. verdicts'[i] = v BY <1>1, <1>2, <1>5, <3>2, <2>1
      <4> QED BY <1>1, <1>2, <1>8, <4>1 DEF RunShows, AnsweredAs
    <3> QED BY <3>1, <3>2
  <2> QED BY <2>1 DEF RunsShow
<1>11. Settled' /\ AtCut' /\ BlameTrue'
  <2>1. verdict' = None BY <1>1 DEF IInv, AtWork
  <2> QED BY <1>1, <2>1 DEF Settled, AtCut, BlameTrue
<1>12. OfThisChain' BY <1>1, <1>8, SameProgram DEF IInv, OfThisChain
<1>13. NewSlices' BY <1>1, <1>8, SameProgram DEF IInv, NewSlices, NewSlice
<1>14. NoUnprovenRed' BY <1>1 DEF NoUnprovenRed
<1>15. VerifiedTrue' /\ NotedAreCut' /\ CutIsPinned' /\ Accounted' BY <1>1, DiskStays DEF IInv, TypeOK
<1> QED BY <1>7, <1>9, <1>10, <1>11, <1>12, <1>13, <1>14, <1>15 DEF IInv

\* What the recorded verdict says, some run of the slice showed.
LEMMA RecordedIsShown ==
  ASSUME IInv, pc = "record", NEW v, v = Combined(verdicts)
  PROVE  /\ v \in Verdicts(Outcomes \cup {"intermittent"})
         /\ v.outcome = "reproduced" =>
              <<target, kept, Relaxed>> \in shown /\ target \in DOMAIN v.res /\ AnsweredAs(v.res)
         /\ v.outcome \in {"not_reproduced", "intermittent"} =>
              \E i \in DOMAIN verdicts : Reached(verdicts[i].res, target) /\ ~verdicts[i].broke
                                         /\ ~AnsweredAs(verdicts[i].res)
<1>1. verdicts \in Seq(Verdicts(Outcomes)) /\ verdicts # <<>> BY DEF IInv, TypeOK, AtWork
<1>2. PICK i \in DOMAIN verdicts :
        \/ v = verdicts[i]
        \/ verdicts[i].outcome = "not_reproduced" /\ v = [verdicts[i] EXCEPT !.outcome = "intermittent"]
  BY <1>1, CombinedIs
<1>3. verdicts[i] \in Verdicts(Outcomes) BY <1>1, <1>2
<1>4. RunShows(verdicts[i]) BY <1>2 DEF IInv, RunsShow
<1>5. CASE v = verdicts[i]
  <2>1. v.outcome # "intermittent" BY <1>3, <1>5 DEF Verdicts, Outcomes
  <2> QED BY <1>2, <1>3, <1>4, <1>5, <2>1 DEF RunShows, Verdicts
<1>6. CASE verdicts[i].outcome = "not_reproduced" /\ v = [verdicts[i] EXCEPT !.outcome = "intermittent"]
  <2>1. v.outcome = "intermittent" /\ v \in Verdicts(Outcomes \cup {"intermittent"}) BY <1>3, <1>6 DEF Verdicts
  <2> QED BY <1>2, <1>4, <1>6, <2>1 DEF RunShows
<1> QED BY <1>2, <1>5, <1>6

\* A slice file that is there is not taken for one that is not.
LEMMA FileIsSome ==
  ASSUME TypeOK, NEW g \in SliceFiles
  PROVE  g # None
<1> DEFINE Any == [steps : SUBSET Nat, relaxed : SUBSET Nat, pins : SUBSET Nat, says : Words]
<1>1. Steps \subseteq Nat BY InHand
<1>2. g = [steps |-> g.steps, relaxed |-> g.relaxed, pins |-> g.pins, says |-> g.says] BY DEF SliceFiles
<1>3. g.steps \in SUBSET Nat /\ g.relaxed \in SUBSET Nat /\ g.pins \in SUBSET Nat BY <1>1 DEF SliceFiles
<1>4. g.says \in Words BY DEF SliceFiles
<1>5. [steps |-> g.steps, relaxed |-> g.relaxed, pins |-> g.pins, says |-> g.says] \in Any
  BY <1>3, <1>4, Zenon
<1>6. g \in Any
  <2> HIDE DEF Any
  <2> QED BY <1>2, <1>5, Zenon
<1> QED BY <1>6, NoneAssumption

\* A slice is called verified when it reproduces and only then.
LEMMA SaysWhat ==
  \A o \in {"reproduced", "not_reproduced", "inconclusive", "intermittent"} :
    /\ Says[o] \in {"VERIFIED", "NOT REPRODUCED", "INCONCLUSIVE", "INTERMITTENT"}
    /\ Says[o] = "VERIFIED" <=> o = "reproduced"
<1>1. /\ Says["reproduced"] = "VERIFIED" /\ Says["not_reproduced"] = "NOT REPRODUCED"
      /\ Says["inconclusive"] = "INCONCLUSIVE" /\ Says["intermittent"] = "INTERMITTENT"
  BY DEF Says
<1> QED BY <1>1

\* The verdict goes into the slice that it is about, and a slice that pin wrote
\* and that does not reproduce goes away.
LEMMA RecordKeeps ==
  ASSUME IInv, Record
  PROVE  IInv'
<1> DEFINE v == Combined(verdicts)
           f == Recorded(v)
<1>1. /\ pc = "record" /\ verdict' = v /\ files' = [files EXCEPT ![target] = f]
      /\ pc' = (IF red THEN "after" ELSE "idle")
      /\ UNCHANGED <<p, chain, notes, newest, cmd, rec, group, keep, now, created, verdicts, had, shown, kills>>
  BY DEF Record, Write, Goto, Ends, world, counts
<1>2. /\ v \in Verdicts(Outcomes \cup {"intermittent"})
      /\ v.outcome = "reproduced" =>
           <<target, kept, Relaxed>> \in shown /\ target \in DOMAIN v.res /\ AnsweredAs(v.res)
      /\ v.outcome \in {"not_reproduced", "intermittent"} =>
           \E i \in DOMAIN verdicts : Reached(verdicts[i].res, target) /\ ~verdicts[i].broke
                                      /\ ~AnsweredAs(verdicts[i].res)
  BY <1>1, RecordedIsShown
<1>3. v.outcome \in Outcomes \cup {"intermittent"} BY <1>2 DEF Verdicts
<1> HIDE DEF v
<1>4. group # {} /\ group \subseteq chain /\ chain \subseteq Steps /\ rec \in Records
      /\ cmd.kind \in {"slice", "pin"} /\ target \in group
  BY <1>1, InHand DEF IInv, AtWork, TypeOK
<1>5. kept \subseteq Steps /\ Relaxed \subseteq Steps /\ StepPins \subseteq Steps /\ target \in kept
  BY <1>4, InHand DEF IInv
<1>6. files[target] \in {None} \cup SliceFiles BY <1>4 DEF IInv, TypeOK
<1>7. \/ f = None
      \/ f = files[target] /\ (red => v.outcome # "reproduced")
      \/ \E pins \in SUBSET kept : f = File(pins, Says[v.outcome]) /\ v.outcome # "did_not_run"
  BY <1>5 DEF Recorded, whole, StepPins
<1>8. \A pins \in SUBSET kept : v.outcome # "did_not_run" => File(pins, Says[v.outcome]) \in SliceFiles
  <2>1. \A o \in {"reproduced", "not_reproduced", "inconclusive", "intermittent"} :
          Says[o] \in {"VERIFIED", "NOT REPRODUCED", "INCONCLUSIVE", "INTERMITTENT"} BY SaysWhat
  <2>2. v.outcome # "did_not_run" => Says[v.outcome] \in {"VERIFIED", "NOT REPRODUCED", "INCONCLUSIVE", "INTERMITTENT"}
    BY <1>3, <2>1 DEF Outcomes
  <2> QED BY <1>5, <2>2 DEF File, SliceFiles, Words
<1>9. f \in {None} \cup SliceFiles BY <1>6, <1>7, <1>8
<1>10. f # None /\ f.says = "VERIFIED" => <<target, f.steps, f.relaxed>> \in shown
  <2>1. CASE f = files[target] BY <1>4, <2>1 DEF IInv, VerifiedTrue
  <2>2. ASSUME NEW pins \in SUBSET kept, f = File(pins, Says[v.outcome]), v.outcome # "did_not_run", f.says = "VERIFIED"
        PROVE  <<target, f.steps, f.relaxed>> \in shown
    <3>1. Says[v.outcome] = "VERIFIED" BY <2>2 DEF File
    <3>2. v.outcome = "reproduced" BY <1>3, <2>2, <3>1, SaysWhat DEF Outcomes
    <3> QED BY <1>2, <2>2, <3>2 DEF File
  <2> QED BY <1>7, <2>1, <2>2
<1>11. red /\ v.outcome = "reproduced" =>
         f # None /\ f.says = "VERIFIED" /\ target \in f.pins /\ f.steps = kept
  <2> SUFFICES ASSUME red, v.outcome = "reproduced" PROVE f # None /\ f.says = "VERIFIED" /\ target \in f.pins /\ f.steps = kept
    OBVIOUS
  <2>1. f = File(kept \cap Failures(v.res), "VERIFIED") BY DEF Recorded, whole, Says
  <2>2. target \in Failures(rec.res) BY <1>1, <1>4 DEF IInv, OfThisChain
  <2>3. target \in Failures(v.res) BY <1>2, <2>2 DEF Failures, AnsweredAs, Answer
  <2>4. f \in SliceFiles BY <1>8, <2>1 DEF Says
  <2>5. f # None BY <2>4, FileIsSome DEF IInv
  <2> QED BY <1>5, <2>1, <2>3, <2>5 DEF File
<1>12. red /\ v.outcome # "reproduced" => f = None \/ target \in had
  BY <1>1 DEF Recorded, IInv, NewSlices
<1> HIDE DEF f
<1>13. files' \in [Steps -> {None} \cup SliceFiles] /\ VerifiedTrue' /\ NotedAreCut' /\ CutIsPinned' /\ Accounted'
  BY <1>1, <1>4, <1>9, <1>10, WriteKeeps
<1>14. target' = target /\ kept' = kept /\ red' = red BY <1>1, SameSlice
<1>15. TypeOK' BY <1>1, <1>2, <1>13, SameProgram DEF IInv, TypeOK
<1>16. AtWork' BY <1>1, <1>2, <1>4, SameProgram DEF IInv, AtWork, red
<1>17. RunsShow' /\ Settled' BY <1>1 DEF RunsShow, Settled
<1>18. BlameTrue' BY <1>1, <1>2, <1>14 DEF BlameTrue, AnsweredAs
<1>19. OfThisChain' BY <1>1, <1>14, SameProgram DEF IInv, OfThisChain
<1>20. files'[target] = f /\ \A t \in Steps : t # target => files'[t] = files[t]
  BY <1>1, <1>4 DEF IInv, TypeOK
<1>21. AtCut' BY <1>1, <1>11, <1>14, <1>20 DEF AtCut, Pinning
<1>22. NewSlices'
  <2>1. red => \A t \in Steps \ had : t # target /\ files[t] # None => files[t].says = "VERIFIED" /\ t \notin chain
    BY <1>1 DEF IInv, NewSlices, NewSlice
  <2> QED BY <1>1, <1>11, <1>12, <1>14, <1>20, <2>1, SameProgram DEF NewSlices, NewSlice
<1>23. NoUnprovenRed' BY <1>1 DEF NoUnprovenRed, red
<1> QED BY <1>13, <1>15, <1>16, <1>17, <1>18, <1>19, <1>21, <1>22, <1>23 DEF IInv

\* pin goes on to cut only what its slice keeps red.
LEMMA AfterKeeps ==
  ASSUME IInv, After
  PROVE  IInv'
<1>1. /\ pc = "after"
      /\ UNCHANGED <<p, chain, notes, files, newest, cmd, rec, group, now, created, verdicts, verdict, had, shown, kills>>
  BY DEF After, Goto, Ends, disk, world, counts
<1>2. \/ KeptRed /\ pc' = "cut" /\ keep' = keep
      \/ ~KeptRed /\ pc' = "idle" /\ keep' = keep
      \/ ~KeptRed /\ pc' = "slice" /\ keep' = verdict.next /\ verdict.next # None
  BY DEF After, Goto, Ends
<1>3. red /\ red' BY <1>1 DEF IInv, AtWork, red
<1>4. verdict \in Verdicts(Outcomes \cup {"intermittent"}) BY <1>1 DEF IInv, AtWork
<1>5. KeptRed <=> verdict.outcome = "reproduced"
  BY <1>1 DEF KeptRed, IInv, AtCut, Pinning
<1>6. rec \in Records /\ rec.chain = chain /\ group # {} /\ group \subseteq Failures(rec.res)
  BY <1>1, <1>3 DEF IInv, OfThisChain
<1>7. group \subseteq chain BY <1>6 DEF Records, Failures
<1>8. keep' \subseteq Steps BY <1>2, <1>4 DEF IInv, TypeOK, Verdicts
<1>9. TypeOK' BY <1>1, <1>2, <1>8, SameProgram DEF IInv, TypeOK
<1>10. AtWork' BY <1>1, <1>2, <1>4, <1>6, <1>7, SameProgram DEF IInv, AtWork
<1>11. RunsShow' BY <1>2 DEF RunsShow
<1>12. Settled' BY <1>1, <1>2, <1>5 DEF Settled
<1>13. OfThisChain' BY <1>1, <1>2, <1>6, SameProgram DEF OfThisChain
<1>14. AtCut'
  <2>1. pc' = "cut" => target' = target /\ kept' = kept BY <1>1, <1>2, SameSlice
  <2> QED BY <1>1, <1>2, <1>5, <2>1 DEF IInv, AtCut, Pinning
<1>15. NewSlices' /\ NoUnprovenRed'
  <2>1. target' = target BY <1>1 DEF target
  <2>2. ~KeptRed => \A t \in Steps \ had : files[t] # None => files[t].says = "VERIFIED" /\ t \notin chain
    BY <1>1, <1>3, <1>5 DEF IInv, NewSlices, NewSlice
  <2>3. \A t \in Steps \ had : files[t] # None => NewSlice(t) BY <1>1, <1>3 DEF IInv, NewSlices
  <2> QED BY <1>1, <1>2, <2>1, <2>2, <2>3, SameProgram DEF NewSlices, NewSlice, NoUnprovenRed
<1>16. VerifiedTrue' /\ NotedAreCut' /\ CutIsPinned' /\ Accounted' BY <1>1, DiskStays DEF IInv, TypeOK
<1>17. BlameTrue' BY <1>1, BlameStays
<1> QED BY <1>9, <1>10, <1>11, <1>12, <1>13, <1>14, <1>15, <1>16, <1>17 DEF IInv

\* What is cut from the chain has its slice.
LEMMA CutKeeps ==
  ASSUME IInv, Cut
  PROVE  IInv'
<1> DEFINE gone == Gone(p, chain, group)
<1>1. /\ pc = "cut"
      /\ \/ pc' = "idle" /\ chain' = chain
         \/ pc' = "note" /\ chain' = chain \ gone
      /\ UNCHANGED <<p, notes, files, newest, cmd, rec, group, keep, now, created, verdicts, verdict, had, shown, kills>>
  BY DEF Cut, Goto, Ends, world, memory, counts
<1>2. red /\ red' BY <1>1 DEF IInv, AtWork, red
<1>3. rec \in Records /\ rec.chain = chain /\ group # {} /\ group \subseteq Failures(rec.res)
  BY <1>1, <1>2 DEF IInv, OfThisChain
<1>4. group \subseteq chain /\ target \in group BY <1>3, InHand DEF Records, Failures, IInv
<1>5. group \subseteq gone BY <1>4, GoneHasNamed
<1>6. verdict \in Verdicts(Outcomes \cup {"intermittent"}) /\ verdict.outcome = "reproduced"
      /\ Pinning(target) /\ files[target].steps = kept
  BY <1>1 DEF IInv, AtWork, AtCut
<1>7. chain' \subseteq chain BY <1>1
<1>8. target' = target /\ kept' = kept /\ Relaxed' = Relaxed BY <1>1, SameSlice
<1>9. TypeOK' BY <1>1, <1>7, SameProgram DEF IInv, TypeOK
<1>10. AtWork' BY <1>1, SameProgram DEF IInv, AtWork
<1>11. RunsShow' BY <1>1 DEF RunsShow
<1>12. Settled' BY <1>1, <1>6 DEF Settled
<1>13. OfThisChain' BY <1>1, <1>3, SameProgram DEF OfThisChain
<1>14. AtCut' BY <1>1, <1>6, <1>8 DEF AtCut, Pinning
<1>15. NewSlices' /\ NoUnprovenRed'
  <2>1. \A t \in Steps \ had : files[t] # None =>
          files[t].says = "VERIFIED" /\ (t \notin chain \/ t = target)
    BY <1>1, <1>2 DEF IInv, NewSlices, NewSlice
  <2> QED BY <1>1, <1>4, <1>5, <1>7, <2>1, SameProgram DEF NewSlices, NewSlice, NoUnprovenRed
<1>16. VerifiedTrue' BY <1>1, SameProgram DEF IInv, VerifiedTrue
<1>17. NotedAreCut' /\ CutIsPinned' BY <1>1, <1>7 DEF IInv, NotedAreCut, CutIsPinned
<1>18. \A s : Vanished(s) => Vanished(s)'
  <2>1. \A t : Gone(p, Steps, files[t].steps \ chain) \subseteq Gone(p, Steps, files[t].steps \ chain')
    BY <1>7, GoneGrows
  <2> QED BY <1>1, <1>7, <2>1, SameProgram DEF Vanished
<1>19. Accounted' BY <1>1, <1>3, <1>18, SameProgram DEF IInv, Accounted
<1>20. BlameTrue' BY <1>1, BlameStays
<1> QED BY <1>9, <1>10, <1>11, <1>12, <1>13, <1>14, <1>15, <1>16, <1>17, <1>19, <1>20 DEF IInv

\* The line about the cut names a slice that keeps it red.
LEMMA NoteKeeps ==
  ASSUME IInv, Note
  PROVE  IInv'
<1> DEFINE n == [slice |-> target, held |-> Moved \cap kept, lost |-> Moved \ kept]
<1>1. /\ pc = "note" /\ pc' = "round" /\ notes' = notes \cup {n}
      /\ UNCHANGED <<p, chain, files, newest, cmd, rec, group, keep, now, created, verdicts, verdict, had, shown, kills>>
  BY DEF Note, Goto, world, counts
<1>2. /\ rec.chain \subseteq Steps /\ group \subseteq kept \ chain /\ target \in group
      /\ Pinning(target) /\ files[target].steps = kept
  BY <1>1, TargetIsCut
<1>3. Moved \subseteq Steps /\ kept \subseteq Steps BY <1>2, GoneHasNamed, InHand DEF Moved, IInv
<1>4. n \in [slice : Steps, held : SUBSET Steps, lost : SUBSET Steps] BY <1>2, <1>3
<1>5. n.slice = target /\ n.held \cup n.lost = Moved OBVIOUS
<1> HIDE DEF n
<1>6. red /\ red' BY <1>1 DEF IInv, AtWork, red
<1>7. TypeOK' BY <1>1, <1>4, SameProgram DEF IInv, TypeOK
<1>8. AtWork' BY <1>1, SameProgram DEF IInv, AtWork
<1>9. RunsShow' /\ OfThisChain' /\ AtCut' BY <1>1 DEF RunsShow, OfThisChain, AtCut
<1>10. Settled' /\ BlameTrue' BY <1>1 DEF IInv, Settled, AtCut, BlameTrue
<1>11. NotedAreCut' BY <1>1, <1>2, <1>5 DEF IInv, NotedAreCut
<1>12. CutIsPinned'
  <2>1. Kept(p, {target}) \subseteq kept
    <3>1. p \in Programs /\ group \cup keep \subseteq 1 .. p.n BY DEF IInv, TypeOK, Steps
    <3> QED BY <1>2, <3>1, KeptOfOne DEF kept
  <2> QED BY <1>1, <1>2, <1>5, <2>1 DEF IInv, CutIsPinned, Pinning
<1>13. Accounted'
  <2>1. \A s : Vanished(s)' <=> Vanished(s) BY <1>1, SameProgram DEF Vanished
  <2> QED BY <1>1, <1>5, <2>1, SameProgram DEF IInv, Accounted, Moved
<1>14. NewSlices' /\ NoUnprovenRed'
  <2>1. \A t \in Steps \ had : files[t] # None => files[t].says = "VERIFIED" /\ t \notin chain
    BY <1>1, <1>6 DEF IInv, NewSlices, NewSlice
  <2> QED BY <1>1, <2>1, SameProgram DEF NewSlices, NewSlice, NoUnprovenRed
<1>15. VerifiedTrue' BY <1>1, SameProgram DEF IInv, VerifiedTrue
<1> QED BY <1>7, <1>8, <1>9, <1>10, <1>11, <1>12, <1>13, <1>14, <1>15 DEF IInv

\* Every step keeps the invariant.
LEMMA Inductive == IInv /\ [Next]_vars => IInv'
<1>1. SUFFICES ASSUME IInv, [Next]_vars PROVE IInv' OBVIOUS
<1>2. CASE RunChain BY <1>1, <1>2, RunChainKeeps
<1>3. CASE Checkout BY <1>1, <1>3, CheckoutKeeps
<1>4. CASE StartSlice BY <1>1, <1>4, StartSliceKeeps
<1>5. CASE StartPin BY <1>1, <1>5, StartPinKeeps
<1>6. CASE Kill BY <1>1, <1>6, KillKeeps
<1>7. CASE Command
  <2>1. CASE RunStep BY <1>1, <2>1, RunStepKeeps
  <2>2. CASE RunEnds BY <1>1, <2>2, RunEndsKeeps
  <2>3. CASE Slice BY <1>1, <2>3, SliceKeeps
  <2>4. CASE Repeat BY <1>1, <2>4, RepeatKeeps
  <2>5. CASE Record BY <1>1, <2>5, RecordKeeps
  <2>6. CASE Round BY <1>1, <2>6, RoundKeeps
  <2>7. CASE Look BY <1>1, <2>7, LookKeeps
  <2>8. CASE After BY <1>1, <2>8, AfterKeeps
  <2>9. CASE Cut BY <1>1, <2>9, CutKeeps
  <2>10. CASE Note BY <1>1, <2>10, NoteKeeps
  <2> QED BY <1>7, <2>1, <2>2, <2>3, <2>4, <2>5, <2>6, <2>7, <2>8, <2>9, <2>10 DEF Command
<1>8. CASE UNCHANGED vars
  <2>1. UNCHANGED <<p, chain, notes, files, newest, cmd, pc, exit, rec, group, keep, now, created, verdicts, verdict, had, shown, kills>>
    BY <1>8 DEF vars, disk, world, memory, counts
  <2>3. target' = target /\ kept' = kept /\ Relaxed' = Relaxed /\ red' = red BY <2>1, SameSlice
  <2>2. TypeOK' BY <1>1, <2>1, <2>3, SameProgram DEF IInv, TypeOK
  <2>4. AtWork' BY <1>1, <2>1, SameProgram DEF IInv, AtWork
  <2>5. RunsShow' BY <1>1, <2>1, <2>3 DEF IInv, RunsShow, RunShows, AnsweredAs
  <2>6. Settled' BY <1>1, <2>1, <2>3 DEF IInv, Settled
  <2>7. OfThisChain' BY <1>1, <2>1, <2>3, SameProgram DEF IInv, OfThisChain
  <2>8. AtCut' BY <1>1, <2>1, <2>3 DEF IInv, AtCut, Pinning
  <2>9. NotedAreCut' /\ CutIsPinned' BY <1>1, <2>1 DEF IInv, NotedAreCut, CutIsPinned
  <2>10. VerifiedTrue' /\ NoUnprovenRed' BY <1>1, <2>1, SameProgram DEF IInv, VerifiedTrue, NoUnprovenRed
  <2>11. Accounted'
    <3>1. \A s : Vanished(s)' <=> Vanished(s) BY <2>1, SameProgram DEF Vanished
    <3> QED BY <1>1, <2>1, <3>1, SameProgram DEF IInv, Accounted
  <2>12. NewSlices'
    <3>1. \A t : NewSlice(t)' <=> NewSlice(t) BY <2>1, <2>3 DEF NewSlice
    <3> QED BY <1>1, <2>1, <2>3, <3>1, SameProgram DEF IInv, NewSlices
  <2>13. BlameTrue' BY <1>1, <2>1, BlameStays
  <2> QED BY <2>2, <2>4, <2>5, <2>6, <2>7, <2>8, <2>9, <2>10, <2>11, <2>12, <2>13 DEF IInv
<1> QED BY <1>1, <1>2, <1>3, <1>4, <1>5, <1>6, <1>7, <1>8 DEF Next

\* The invariant holds of every state.
LEMMA Invariant == Spec => []IInv
  BY AtStart, Inductive, PTL DEF Spec

(***************************************************************************)
(* Theorems                                                                *)
(***************************************************************************)
\* A slice file that says VERIFIED has steps that ran, with the expectations that
\* it has, and gave its step the verdict of the source run, whatever was sliced
\* again, refused or killed since.
THEOREM VerifiedWasRun == Spec => []VerifiedTrue
<1>1. IInv => VerifiedTrue BY DEF IInv
<1> QED BY <1>1, Invariant, PTL

\* A verdict that blames the slice or the backend has a run that answered the step
\* otherwise while nothing else was broken.
THEOREM BlameIsShown == Spec => []BlameTrue
<1>1. IInv => BlameTrue BY DEF IInv
<1> QED BY <1>1, Invariant, PTL

\* Every line that pin adds to a chain names a slice that keeps the defect red and
\* has what the step needs, for as long as the line is there.
THEOREM CutStaysPinned == Spec => []CutIsPinned
<1>1. IInv => CutIsPinned BY DEF IInv
<1> QED BY <1>1, Invariant, PTL

\* No step of a chain is lost without a line that says so, but for a kill in the
\* instant between the cut and its line; then a verified slice has the step or a
\* cut step that it reads.
THEOREM StepsAccounted == Spec => []NoStepVanishes
<1>1. IInv => NoStepVanishes
  <2>1. SUFFICES ASSUME IInv, NEW s \in Steps \ chain
                 PROVE  \/ \E n \in notes : s \in n.held \cup n.lost
                        \/ (pc = "note" \/ kills > 0) /\ Vanished(s)
    BY DEF NoStepVanishes, Vanished
  <2>2. \/ \E n \in notes : s \in n.held \cup n.lost
        \/ pc = "note" /\ s \in Gone(p, rec.chain, group)
        \/ kills > 0 /\ Vanished(s)
    BY <2>1 DEF IInv, Accounted
  <2> QED BY <2>1, <2>2, CutIsInSlice
<1> QED BY <1>1, Invariant, PTL

\* A pin that was not killed leaves no new slice that does not say VERIFIED.
THEOREM NewSlicesProven == Spec => []NoUnprovenRed
<1>1. IInv => NoUnprovenRed BY DEF IInv
<1> QED BY <1>1, Invariant, PTL

\* When pin says that it is done, or had nothing to do, the newest record is of
\* the chain as it is and every step of it passed.
THEOREM DoneIsGreen == Spec => PinnedIsGreen
<1> DEFINE Green == exit' \in {"pinned", "nothing_to_pin"} /\ pc # "idle" /\ pc' = "idle" =>
                      newest.own /\ newest.chain = chain /\ Passed(newest.res, chain)
<1>1. IInv /\ [Next]_vars => [Green]_vars
  <2>1. SUFFICES ASSUME IInv, Next, exit' \in {"pinned", "nothing_to_pin"}, pc # "idle", pc' = "idle"
                 PROVE  newest.own /\ newest.chain = chain /\ Passed(newest.res, chain)
    OBVIOUS
  <2>2. CASE Look
    <3>1. rec = newest /\ rec.own /\ rec.chain = chain
      <4>1. pc = "look" BY <2>2 DEF Look
      <4> QED BY <2>1, <4>1 DEF IInv, OfThisChain
    <3>2. Passed(rec.res, rec.chain) BY <2>1, <2>2 DEF Look, Goto, Ends
    <3> QED BY <3>1, <3>2
  <2>3. ~Record
    <3>1. ASSUME Record PROVE FALSE
      <4>1. exit' = Combined(verdicts).outcome BY <2>1, <3>1 DEF Record, Goto, Ends
      <4>2. Combined(verdicts) \in Verdicts(Outcomes \cup {"intermittent"}) 
        <5>1. pc = "record" BY <3>1 DEF Record
        <5> QED BY <2>1, <5>1, RecordedIsShown
      <4>3. exit' \in Outcomes \cup {"intermittent"} BY <4>1, <4>2 DEF Verdicts
      <4> QED BY <2>1, <4>3 DEF Outcomes
    <3> QED BY <3>1
  <2>4. ~RunChain /\ ~StartSlice /\ ~StartPin /\ ~Checkout
    BY <2>1 DEF RunChain, StartSlice, StartPin, Checkout, May
  <2>5. ~Kill /\ ~Round /\ ~After /\ ~Cut /\ ~Slice /\ ~RunEnds
    BY <2>1 DEF Kill, Round, After, Cut, Slice, RunEnds, Goto, Ends
  <2>6. ~RunStep /\ ~Repeat /\ ~Note BY <2>1 DEF RunStep, Repeat, Note, Goto
  <2> QED BY <2>1, <2>2, <2>3, <2>4, <2>5, <2>6 DEF Next, Command
<1>2. Spec => [][Green]_vars BY <1>1, Invariant, PTL DEF Spec
<1> QED BY <1>2 DEF PinnedIsGreen

(***************************************************************************)
(* Runs that disagree                                                      *)
(***************************************************************************)
\* A run of the slice in hand, of its steps in their order, each with a result that
\* the steps before it leave it; stale: its fresh value has been used before.
SliceManner(stale) == [going |-> StepPins # {}, relaxed |-> Relaxed, stale |-> stale, down |-> TRUE]
Earlier(res, s) == [q \in {q \in DOMAIN res : q < s} |-> res[q]]
RunOf(res, stale) ==
  /\ DOMAIN res \subseteq kept
  /\ \A s \in DOMAIN res :
       /\ \A q \in kept : q < s => q \in DOMAIN res /\ (StepPins = {} => res[q] = "passed")
       /\ res[s] \in StepResults(p, SliceManner(stale), Earlier(res, s), s)
Creates(res) == \E s \in p.fresh \cap DOMAIN res : res[s] \in {"passed", "failed", "held"}
Comparing == pc \in {"repeat", "record"}

\* Only a slice that a person asked for is given a fresh value; its target is its
\* last step.
Given ==
  /\ cmd.kind = "pin" => cmd.value = None
  /\ cmd.kind = "slice" /\ pc \in {"slice", "repeat", "record"} => \A s \in group \cup keep : s <= target
  /\ Comparing => ~ReusesValue

\* The first run creates with a value before the others do.
FirstSeen == \A x \in seen : x = <<x[1], x[2]>> /\ <<x[1], 1>> \in seen

Runs ==
  Comparing =>
    /\ pc = "repeat" => RunOf(now, RepeatValue(Len(verdicts) + 1) \in seen)
    /\ \A i \in DOMAIN verdicts : /\ RunOf(verdicts[i].res, ~verdicts[i].fresh)
                                  /\ verdicts[i].outcome = "reproduced" => Reached(verdicts[i].res, target)

\* When the value of the first run was new, so are those of the others.
AsTheFirst ==
  Comparing /\ verdicts # <<>> =>
    /\ pc = "repeat" => Reached(verdicts[1].res, target)
    /\ verdicts[1].fresh => /\ \A i \in DOMAIN verdicts : verdicts[i].fresh
                            /\ \A k \in Nat : k > Len(verdicts) => RepeatValue(k) \notin seen
    /\ ~verdicts[1].fresh \/ Creates(verdicts[1].res) => RepeatValue(1) \in seen

Alike == Given /\ FirstSeen /\ Runs /\ AsTheFirst /\ IntermittentTrue

\* Of a backend whose defects do not come and go, a step gets one answer or none.
LEMMA OneResult ==
  ASSUME NEW q, q.flaky = {}, NEW m, NEW res, NEW s,
         NEW x \in StepResults(q, m, res, s), NEW y \in StepResults(q, m, res, s), x # "error", y # "error"
  PROVE  x = y
<1> DEFINE did == {w \in DOMAIN res : res[w] \notin {"skipped", "error"}}
           behind(reads) == m.going /\ \E r \in reads : res[r] # "passed"
           lacks == ~(q.needs[s] \subseteq did) \/ (s \in q.fresh /\ m.stale)
           defect == q.cause[s] # None /\ q.cause[s] \subseteq did
           judged == (IF defect THEN {"failed"} ELSE {})
                     \cup IF ~defect \/ s \in q.flaky THEN {IF behind(q.expect[s]) THEN "held" ELSE "passed"} ELSE {}
           over == (\E r \in DOMAIN res : res[r] = "error") \/ behind(q.request[s])
<1>1. StepResults(q, m, res, s) =
        IF over THEN {"skipped"}
        ELSE (IF m.down THEN {"error"} ELSE {})
             \cup IF s \in m.relaxed THEN {"passed"} ELSE IF lacks THEN {"lacking"} ELSE judged
  BY DEF StepResults
<1>2. \E z : judged = {z}
  <2>1. CASE defect BY <2>1
  <2>2. CASE ~defect BY <2>2
  <2> QED BY <2>1, <2>2
<1> HIDE DEF over, lacks, judged
<1>3. CASE over BY <1>1, <1>3
<1>4. CASE ~over BY <1>1, <1>2, <1>4
<1> QED BY <1>3, <1>4

\* What a step lacks it lacks in every run that comes to it alike.
LEMMA LacksOrNot ==
  ASSUME NEW q, NEW m, NEW res, NEW s, "lacking" \in StepResults(q, m, res, s)
  PROVE  \A y \in StepResults(q, m, res, s) : y \in {"error", "lacking"}
<1> DEFINE did == {w \in DOMAIN res : res[w] \notin {"skipped", "error"}}
           behind(reads) == m.going /\ \E r \in reads : res[r] # "passed"
           lacks == ~(q.needs[s] \subseteq did) \/ (s \in q.fresh /\ m.stale)
           defect == q.cause[s] # None /\ q.cause[s] \subseteq did
           judged == (IF defect THEN {"failed"} ELSE {})
                     \cup IF ~defect \/ s \in q.flaky THEN {IF behind(q.expect[s]) THEN "held" ELSE "passed"} ELSE {}
           over == (\E r \in DOMAIN res : res[r] = "error") \/ behind(q.request[s])
<1>1. StepResults(q, m, res, s) =
        IF over THEN {"skipped"}
        ELSE (IF m.down THEN {"error"} ELSE {})
             \cup IF s \in m.relaxed THEN {"passed"} ELSE IF lacks THEN {"lacking"} ELSE judged
  BY DEF StepResults
<1>2. "lacking" \notin judged OBVIOUS
<1> HIDE DEF over, lacks, judged
<1> QED BY <1>1, <1>2

\* Behind a step without an answer no step is sent.
LEMMA ErrorEnds ==
  ASSUME NEW stale, NEW res, RunOf(res, stale), NEW s \in DOMAIN res, NEW t \in DOMAIN res, s < t, res[s] = "error"
  PROVE  res[t] = "skipped"
<1>1. res[t] \in StepResults(p, SliceManner(stale), Earlier(res, t), t) BY DEF RunOf
<1>2. s \in DOMAIN Earlier(res, t) /\ Earlier(res, t)[s] = "error" BY DEF Earlier
<1> HIDE DEF Earlier
<1> QED BY <1>1, <1>2 DEF StepResults

\* Two runs that agree before a step leave it the same.
LEMMA SameEarlier ==
  ASSUME NEW a, NEW b, NEW s, \A q : q < s => (q \in DOMAIN a <=> q \in DOMAIN b) /\ (q \in DOMAIN a => a[q] = b[q])
  PROVE  Earlier(a, s) = Earlier(b, s)
<1>1. {q \in DOMAIN a : q < s} = {q \in DOMAIN b : q < s} OBVIOUS
<1> QED BY <1>1 DEF Earlier

\* Two runs of a slice that reach the target agree up to it, when no defect comes and
\* goes and their fresh values are both new or both used: look at the first step that
\* they disagree on.
LEMMA SameResults ==
  ASSUME TypeOK, p.flaky = {}, NEW stale, NEW a, NEW b, RunOf(a, stale), RunOf(b, stale),
         Reached(a, target), Reached(b, target)
  PROVE  \A s \in kept : s <= target => s \in DOMAIN a /\ s \in DOMAIN b /\ a[s] = b[s]
<1> DEFINE D == {s \in kept : s <= target /\ a[s] # b[s]}
<1>1. target \in DOMAIN a /\ target \in DOMAIN b /\ a[target] \notin {"error", "skipped"} /\ b[target] \notin {"error", "skipped"}
  BY DEF Reached, Failing
<1>2. kept \subseteq Nat /\ target \in kept BY <1>1, InHand DEF RunOf
<1>3. \A s \in kept : s <= target => s \in DOMAIN a /\ s \in DOMAIN b
  <2>1. \A q \in kept : q < target => q \in DOMAIN a /\ q \in DOMAIN b BY <1>1 DEF RunOf
  <2>2. \A q \in kept : q <= target => q < target \/ q = target BY <1>2
  <2> QED BY <1>1, <2>1, <2>2
<1> SUFFICES ASSUME D # {} PROVE FALSE BY <1>3
<1>4. PICK s \in D : \A k \in D : s <= k
  <2>1. D \subseteq Nat BY <1>2
  <2> HIDE DEF D
  <2> QED BY <2>1, MinExists
<1>5. s \in DOMAIN a /\ s \in DOMAIN b /\ s \in Nat /\ target \in Nat BY <1>2, <1>3, <1>4
<1>6. Earlier(a, s) = Earlier(b, s)
  <2>1. ASSUME NEW q, q < s PROVE (q \in DOMAIN a <=> q \in DOMAIN b) /\ (q \in DOMAIN a => a[q] = b[q])
    <3>1. q \in DOMAIN a \/ q \in DOMAIN b => q \in kept BY DEF RunOf
    <3>2. q \in kept => q \in DOMAIN a /\ q \in DOMAIN b BY <1>5, <2>1 DEF RunOf
    <3>3. q \in kept => a[q] = b[q] BY <1>2, <1>4, <1>5, <2>1
    <3> QED BY <3>1, <3>2, <3>3
  <2> QED BY <2>1, SameEarlier
<1>7. a[s] # "error" /\ b[s] # "error"
  <2>1. s < target \/ s = target BY <1>4, <1>5
  <2> QED BY <1>1, <1>5, <2>1, ErrorEnds
<1>8. a[s] \in StepResults(p, SliceManner(stale), Earlier(a, s), s)
      /\ b[s] \in StepResults(p, SliceManner(stale), Earlier(a, s), s)
  BY <1>5, <1>6 DEF RunOf
<1>9. a[s] = b[s] BY <1>7, <1>8, OneResult
<1> QED BY <1>4, <1>9

\* So they give it the same verdict, and hold back the same expectations of it.
LEMMA SameAnswer ==
  ASSUME TypeOK, p.flaky = {}, NEW stale, NEW a, NEW b, RunOf(a, stale), RunOf(b, stale),
         Reached(a, target), Reached(b, target)
  PROVE  Answer(p, a, target) = Answer(p, b, target)
<1>1. target \in DOMAIN a /\ target \in DOMAIN b /\ DOMAIN a \subseteq kept /\ DOMAIN b \subseteq kept
  BY DEF Reached, RunOf
<1>2. kept \subseteq Nat /\ target \in kept /\ target \in Nat /\ target \in 1 .. p.n
  BY <1>1, InHand DEF Steps
<1>3. \A s \in kept : s <= target => s \in DOMAIN a /\ s \in DOMAIN b /\ a[s] = b[s] BY SameResults
<1>4. a[target] = b[target] BY <1>2, <1>3
<1>5. \A q \in p.expect[target] : q \in Int /\ q < target
  <2>1. p.expect[target] \subseteq 1 .. target - 1 BY <1>2, ProgramsAssumption DEF Refs, TypeOK
  <2> QED BY <1>2, <2>1
<1>6. \A q \in p.expect[target] : (q \in DOMAIN a <=> q \in DOMAIN b) /\ (q \in DOMAIN a => a[q] = b[q])
  <2>1. \A q \in p.expect[target] : q \in kept => q <= target BY <1>2, <1>5
  <2> QED BY <1>1, <1>3, <2>1
<1>7. Behind(p, a, target) = Behind(p, b, target) BY <1>6 DEF Behind
<1> QED BY <1>1, <1>4, <1>7 DEF Answer

\* Where nothing is compared, only what a command was given and the last verdict
\* matter.
LEMMA NotComparing ==
  ASSUME IInv, Alike, seen' = seen, pc' \notin {"slice", "repeat", "record"}, cmd'.kind = "pin" => cmd'.value = None,
         verdict' = None \/ UNCHANGED <<p, verdict, verdicts>>
  PROVE  Alike'
<1>1. Given' /\ Runs' /\ AsTheFirst' BY DEF Given, Runs, AsTheFirst, Comparing
<1>2. FirstSeen' BY DEF Alike, FirstSeen
<1>3. IntermittentTrue' BY DEF Alike, IntermittentTrue
<1> QED BY <1>1, <1>2, <1>3 DEF Alike

\* It holds at the start.
LEMMA AlikeAtStart == Init => Alike
<1> SUFFICES ASSUME Init PROVE Alike OBVIOUS
<1>1. pc = "idle" /\ cmd.kind = "none" /\ seen = {} /\ verdict = None BY DEF Init, NoCommand
<1> QED BY <1>1 DEF Alike, Given, FirstSeen, Runs, AsTheFirst, IntermittentTrue, Comparing

\* A slice is asked for: its steps are the target and steps before it.
LEMMA StartSliceAlike ==
  ASSUME IInv, Alike, StartSlice
  PROVE  Alike'
<1>1. /\ pc' = "slice" /\ cmd'.kind = "slice" /\ verdict' = None /\ seen' = seen
      /\ \E t \in chain, k \in {{}, p.write} : group' = {t} /\ keep' = {w \in chain \cap k : w < t}
  BY DEF StartSlice, world
<1>2. PICK t \in chain : group' = {t} /\ \A w \in keep' : w \in chain /\ w < t BY <1>1
<1>3. chain \subseteq Nat BY InHand DEF IInv, TypeOK
<1>4. target' = t
  <2>1. group' \subseteq Nat /\ group' # {} BY <1>2, <1>3
  <2>2. First(group') \in group' BY <2>1, FirstIsLeast
  <2> QED BY <1>2, <2>2 DEF target
<1>5. \A s \in group' \cup keep' : s <= target' BY <1>2, <1>3, <1>4
<1>6. Given' BY <1>1, <1>5 DEF Given, Comparing
<1>7. Runs' /\ AsTheFirst' BY <1>1 DEF Runs, AsTheFirst, Comparing
<1>8. FirstSeen' /\ IntermittentTrue' BY <1>1 DEF Alike, FirstSeen, IntermittentTrue
<1> QED BY <1>6, <1>7, <1>8 DEF Alike

\* pin takes a group to slice, or slices again with more kept.
LEMMA PinSlicesAlike ==
  ASSUME IInv, Alike, Look \/ After
  PROVE  Alike'
<1>1. /\ pc \in {"look", "after"} /\ pc' \in {"idle", "cut", "slice"} /\ UNCHANGED <<p, seen, cmd, verdict, verdicts>>
  BY DEF Look, After, Goto, Ends, world
<1>2. cmd.kind = "pin" BY <1>1 DEF IInv, AtWork
<1>3. cmd'.kind = "pin" /\ cmd'.value = None BY <1>1, <1>2 DEF Alike, Given
<1>4. Given' BY <1>1, <1>3 DEF Given, Comparing
<1>5. Runs' /\ AsTheFirst' BY <1>1 DEF Runs, AsTheFirst, Comparing
<1>6. FirstSeen' /\ IntermittentTrue' BY <1>1 DEF Alike, FirstSeen, IntermittentTrue
<1> QED BY <1>4, <1>5, <1>6 DEF Alike

\* What a slice in hand and a run of it are stays while what they are made of does.
LEMMA SameRuns ==
  ASSUME UNCHANGED <<p, group, keep, rec, cmd>>
  PROVE  /\ target' = target /\ kept' = kept /\ Relaxed' = Relaxed /\ StepPins' = StepPins
         /\ ReusesValue' = ReusesValue
         /\ \A r, st : RunOf(r, st)' <=> RunOf(r, st)
         /\ \A r : Creates(r)' <=> Creates(r)
<1>1. target' = target /\ kept' = kept /\ Relaxed' = Relaxed /\ red' = red BY SameSlice
<1>2. StepPins' = StepPins BY <1>1 DEF StepPins
<1>3. ReusesValue' = ReusesValue BY <1>1 DEF ReusesValue
<1>4. ASSUME NEW st PROVE SliceManner(st)' = SliceManner(st) BY <1>1, <1>2 DEF SliceManner
<1>5. ASSUME NEW r, NEW st PROVE RunOf(r, st)' <=> RunOf(r, st)
  <2>1. SliceManner(st)' = SliceManner(st) BY <1>4
  <2> QED BY <1>1, <1>2, <2>1 DEF RunOf, Earlier, StepResults
<1>6. \A r : Creates(r)' <=> Creates(r) BY DEF Creates
<1> QED BY <1>1, <1>2, <1>3, <1>5, <1>6

\* Each verification begins with no run, and with a value when it needs one.
LEMMA SliceAlike ==
  ASSUME IInv, Alike, Slice
  PROVE  Alike'
<1>1. /\ pc = "slice" /\ now' = <<>> /\ verdicts' = <<>> /\ verdict' = None
      /\ pc' = (IF ~Refused /\ cmd.verify THEN "repeat" ELSE "idle")
      /\ UNCHANGED <<p, seen, cmd, group, keep, rec>>
  BY DEF Slice, Goto, Ends, world
<1>2. \A st : RunOf(<<>>, st) BY EmptyRun DEF RunOf
<1>3. DOMAIN verdicts' = {} BY <1>1
<1>4. Given'
  <2>1. cmd'.kind = "pin" => cmd'.value = None BY <1>1 DEF Alike, Given
  <2>2. cmd.kind = "slice" => \A s \in group \cup keep : s <= target BY <1>1 DEF Alike, Given
  <2>3. Comparing' => ~ReusesValue BY <1>1 DEF Comparing, Refused
  <2> QED BY <1>1, <2>1, <2>2, <2>3, SameRuns DEF Given
<1>5. Runs'
  <2>1. \A st : RunOf(<<>>, st)' BY <1>1, <1>2, SameRuns
  <2> QED BY <1>1, <1>3, <2>1 DEF Runs
<1>6. AsTheFirst' BY <1>1 DEF AsTheFirst
<1>7. FirstSeen' /\ IntermittentTrue' BY <1>1 DEF Alike, FirstSeen, IntermittentTrue
<1> QED BY <1>4, <1>5, <1>6, <1>7 DEF Alike

\* That the backend may go down adds a result.
LEMMA DownToo ==
  ASSUME NEW q, NEW m, NEW n, NEW res, NEW s,
         n.going = m.going, n.relaxed = m.relaxed, n.stale = m.stale, n.down = TRUE
  PROVE  StepResults(q, m, res, s) \subseteq StepResults(q, n, res, s)
<1> DEFINE did == {w \in DOMAIN res : res[w] \notin {"skipped", "error"}}
           behind(reads) == m.going /\ \E r \in reads : res[r] # "passed"
           lacks == ~(q.needs[s] \subseteq did) \/ (s \in q.fresh /\ m.stale)
           defect == q.cause[s] # None /\ q.cause[s] \subseteq did
           judged == (IF defect THEN {"failed"} ELSE {})
                     \cup IF ~defect \/ s \in q.flaky THEN {IF behind(q.expect[s]) THEN "held" ELSE "passed"} ELSE {}
           over == (\E r \in DOMAIN res : res[r] = "error") \/ behind(q.request[s])
           sent == IF s \in m.relaxed THEN {"passed"} ELSE IF lacks THEN {"lacking"} ELSE judged
<1>1. StepResults(q, m, res, s) = IF over THEN {"skipped"} ELSE (IF m.down THEN {"error"} ELSE {}) \cup sent
  BY DEF StepResults
<1>2. StepResults(q, n, res, s) = IF over THEN {"skipped"} ELSE {"error"} \cup sent
  BY DEF StepResults
<1> HIDE DEF over, sent
<1> QED BY <1>1, <1>2

\* A run of the slice that takes its next step is one.
LEMMA LongerRun ==
  ASSUME IInv, Alike, pc = "repeat", toRun # {}, NEW x \in StepResults(p, manner, now, First(toRun)),
         NEW longer, longer = [q \in DOMAIN now \cup {First(toRun)} |-> IF q = First(toRun) THEN x ELSE now[q]]
  PROVE  RunOf(longer, RepeatValue(Len(verdicts) + 1) \in seen)
<1> DEFINE s == First(toRun)
           stale == RepeatValue(Len(verdicts) + 1) \in seen
<1>1. RunOf(now, stale) BY DEF Alike, Runs, Comparing
<1>2. kept \subseteq Nat BY InHand DEF IInv
<1>3. /\ toRun = kept \ DOMAIN now
      /\ StepPins = {} => \A q \in DOMAIN now : now[q] = "passed"
  BY DEF toRun, ToRun, running, manner
<1>4. s \in toRun /\ \A k \in toRun : s <= k
  <2>1. toRun \subseteq Nat BY <1>2, <1>3
  <2> QED BY <2>1, FirstIsLeast
<1>5. /\ manner.going = (StepPins # {}) /\ manner.relaxed = Relaxed /\ manner.stale = stale
  BY DEF manner
<1>6. x \in StepResults(p, SliceManner(stale), now, s)
  <2> DEFINE m == SliceManner(stale)
  <2>1. m.going = manner.going /\ m.relaxed = manner.relaxed /\ m.stale = manner.stale /\ m.down = TRUE
    BY <1>5 DEF SliceManner
  <2> HIDE DEF m, s, stale
  <2>2. StepResults(p, manner, now, s) \subseteq StepResults(p, m, now, s) BY <2>1, DownToo
  <2>3. x \in StepResults(p, manner, now, s) BY DEF s
  <2> QED BY <2>2, <2>3 DEF m
<1> HIDE DEF s, stale
<1>7. /\ DOMAIN longer = DOMAIN now \cup {s} /\ longer[s] = x
      /\ \A q \in DOMAIN now : q # s => longer[q] = now[q]
  BY DEF s
<1>8. s \in kept /\ s \notin DOMAIN now /\ s \in Nat BY <1>2, <1>3, <1>4
<1>9. \A q \in kept : q < s => q \in DOMAIN now
  <2>1. ASSUME NEW q \in kept, q < s, q \notin DOMAIN now PROVE FALSE
    <3>1. q \in toRun BY <1>3, <2>1
    <3>2. s <= q /\ q \in Nat BY <1>2, <1>4, <3>1
    <3> QED BY <1>8, <2>1, <3>2
  <2> QED BY <2>1
<1>10. \A q \in DOMAIN now : q < s /\ q \in kept /\ q \in Nat
  <2>1. ASSUME NEW q \in DOMAIN now PROVE q < s /\ q \in kept /\ q \in Nat
    <3>1. q \in kept /\ q \in Nat BY <1>1, <1>2 DEF RunOf
    <3>2. ~(s < q) BY <1>1, <1>8, <2>1 DEF RunOf
    <3>3. q # s BY <1>8
    <3> QED BY <1>8, <3>1, <3>2, <3>3
  <2> QED BY <2>1
<1>11. ASSUME NEW t \in DOMAIN longer PROVE Earlier(longer, t) = Earlier(now, t)
  <2>1. ASSUME NEW q, q < t
        PROVE  (q \in DOMAIN longer <=> q \in DOMAIN now) /\ (q \in DOMAIN longer => longer[q] = now[q])
    <3>1. t \in Nat /\ t <= s BY <1>7, <1>8, <1>10
    <3>2. q # s BY <1>8, <2>1, <3>1
    <3> QED BY <1>7, <3>2
  <2> QED BY <2>1, SameEarlier
<1>12. Earlier(now, s) = now
  <2>1. {q \in DOMAIN now : q < s} = DOMAIN now BY <1>10
  <2>2. now = [q \in DOMAIN now |-> now[q]] BY DEF IInv, TypeOK, Res
  <2> QED BY <2>1, <2>2 DEF Earlier
<1>13. DOMAIN longer \subseteq kept BY <1>7, <1>8, <1>10
<1>14. ASSUME NEW t \in DOMAIN longer, NEW q \in kept, q < t
       PROVE  q \in DOMAIN longer /\ (StepPins = {} => longer[q] = "passed")
  <2>1. q \in DOMAIN now
    <3>1. CASE t = s BY <1>9, <1>14, <3>1
    <3>2. CASE t # s
      <4>1. t \in DOMAIN now BY <1>7, <3>2
      <4> QED BY <1>1, <1>14, <4>1 DEF RunOf
    <3> QED BY <3>1, <3>2
  <2>2. q # s BY <1>8, <2>1
  <2> QED BY <1>3, <1>7, <2>1, <2>2
<1>15. ASSUME NEW t \in DOMAIN longer
       PROVE  longer[t] \in StepResults(p, SliceManner(stale), Earlier(longer, t), t)
  <2>1. CASE t = s BY <1>6, <1>7, <1>11, <1>12, <2>1
  <2>2. CASE t # s
    <3>1. t \in DOMAIN now /\ longer[t] = now[t] BY <1>7, <2>2
    <3>2. now[t] \in StepResults(p, SliceManner(stale), Earlier(now, t), t) BY <1>1, <3>1 DEF RunOf
    <3> QED BY <1>11, <3>1, <3>2
  <2> QED BY <2>1, <2>2
<1>16. RunOf(longer, stale) BY <1>13, <1>14, <1>15 DEF RunOf
<1> QED BY <1>16 DEF stale

\* A run of the slice, or of the chain, goes on.
LEMMA RunStepAlike ==
  ASSUME IInv, Alike, RunStep
  PROVE  Alike'
<1>1. /\ pc \in {"run", "repeat"} /\ toRun # {}
      /\ UNCHANGED <<p, seen, cmd, pc, group, keep, rec, verdicts, verdict>>
  BY DEF RunStep
<1>2. CASE pc = "run"
  <2>1. cmd'.kind = "pin" => cmd'.value = None BY <1>1 DEF Alike, Given
  <2> QED BY <1>1, <1>2, <2>1, NotComparing
<1>3. CASE pc = "repeat"
  <2>1. PICK x \in StepResults(p, manner, now, First(toRun)) :
          now' = [q \in DOMAIN now \cup {First(toRun)} |-> IF q = First(toRun) THEN x ELSE now[q]]
    BY DEF RunStep
  <2>2. RunOf(now', RepeatValue(Len(verdicts) + 1) \in seen) BY <1>1, <1>3, <2>1, LongerRun
  <2>3. RepeatValue(Len(verdicts) + 1)' = RepeatValue(Len(verdicts) + 1) BY <1>1 DEF RepeatValue
  <2>4. RunOf(now, RepeatValue(Len(verdicts) + 1) \in seen)' BY <1>1, <2>2, <2>3, SameRuns
  <2>5. Runs' BY <1>1, <2>4, SameRuns DEF Alike, Runs, Comparing
  <2>6. AsTheFirst' BY <1>1, SameRuns DEF Alike, AsTheFirst, Comparing, RepeatValue
  <2>7. Given' BY <1>1, SameRuns DEF Alike, Given, Comparing
  <2>8. FirstSeen' /\ IntermittentTrue' BY <1>1 DEF Alike, FirstSeen, IntermittentTrue
  <2> QED BY <2>5, <2>6, <2>7, <2>8 DEF Alike
<1> QED BY <1>1, <1>2, <1>3

\* A later run that creates with a value follows a first that did: it came to the
\* target past every step before it.
LEMMA FirstCreates ==
  ASSUME IInv, Alike, pc = "repeat", verdicts # <<>>, Creates(now)
  PROVE  RepeatValue(1) \in seen
<1> DEFINE a == verdicts[1].res
<1>1. /\ verdicts[1].fresh => RepeatValue(Len(verdicts) + 1) \notin seen
      /\ ~verdicts[1].fresh \/ Creates(a) => RepeatValue(1) \in seen
      /\ Reached(a, target)
  <2>1. Len(verdicts) \in Nat BY DEF IInv, TypeOK
  <2> QED BY <2>1 DEF Alike, AsTheFirst, Comparing
<1> SUFFICES ASSUME verdicts[1].fresh, ~Creates(a) PROVE FALSE BY <1>1
<1>2. RunOf(a, FALSE) /\ RunOf(now, FALSE)
  <2>1. 1 \in DOMAIN verdicts BY DEF IInv, TypeOK
  <2>2. RunOf(a, ~verdicts[1].fresh) /\ RunOf(now, RepeatValue(Len(verdicts) + 1) \in seen)
    BY <2>1 DEF Alike, Runs, Comparing
  <2>3. (~verdicts[1].fresh) = FALSE /\ (RepeatValue(Len(verdicts) + 1) \in seen) = FALSE BY <1>1
  <2> QED BY <2>2, <2>3
<1>3. PICK f \in p.fresh \cap DOMAIN now : now[f] \in {"passed", "failed", "held"} BY DEF Creates
<1>4. f \in kept BY <1>2 DEF RunOf
<1>5. cmd.kind = "slice"
  <2>1. ~ReusesValue BY DEF Alike, Given, Comparing
  <2>2. cmd.value # None BY <1>3, <1>4, <2>1 DEF ReusesValue
  <2>3. cmd.kind # "pin" BY <2>2 DEF Alike, Given
  <2> QED BY <2>3 DEF IInv, AtWork
<1>6. StepPins = {} BY <1>5 DEF StepPins, red
<1>7. kept \subseteq Nat /\ target \in Nat /\ f \in Nat /\ group \cup keep \subseteq Nat
  <2>1. kept \subseteq Nat BY InHand DEF IInv
  <2>2. target \in DOMAIN a BY <1>1 DEF Reached
  <2>3. target \in kept BY <1>2, <2>2 DEF RunOf
  <2>4. group \cup keep \subseteq kept BY InHand DEF IInv
  <2> QED BY <1>4, <2>1, <2>3, <2>4
<1>8. f <= target
  <2>1. \A s \in group \cup keep : s <= target BY <1>5 DEF Alike, Given
  <2>2. f \in group \cup keep \/ \E s \in group \cup keep : f < s BY <1>4 DEF kept, Kept
  <2>3. ASSUME NEW s \in group \cup keep, f < s PROVE f <= target
    <3>1. s <= target /\ s \in Nat BY <1>7, <2>1, <2>3
    <3> QED BY <1>7, <2>3, <3>1
  <2> QED BY <2>1, <2>2, <2>3
<1> HIDE DEF a
<1>9. CASE f < target
  <2>1. f \in DOMAIN a /\ a[f] = "passed" BY <1>1, <1>2, <1>4, <1>6, <1>9 DEF RunOf, Reached
  <2> QED BY <1>3, <2>1 DEF Creates
<1>10. CASE f = target
  <2>1. f \in DOMAIN a /\ a[f] \in Failing \cup {"passed"} BY <1>1, <1>10 DEF Reached
  <2>2. a[f] = "lacking" BY <1>3, <2>1 DEF Creates, Failing
  <2>3. ASSUME NEW q, q < f PROVE (q \in DOMAIN a <=> q \in DOMAIN now) /\ (q \in DOMAIN a => a[q] = now[q])
    <3>1. q \in DOMAIN a \/ q \in DOMAIN now => q \in kept BY <1>2 DEF RunOf
    <3>2. q \in kept => q \in DOMAIN a /\ a[q] = "passed" BY <1>2, <1>6, <2>1, <2>3 DEF RunOf
    <3>3. q \in kept => q \in DOMAIN now /\ now[q] = "passed" BY <1>2, <1>3, <1>6, <2>3 DEF RunOf
    <3> QED BY <3>1, <3>2, <3>3
  <2>4. Earlier(a, f) = Earlier(now, f) BY <2>3, SameEarlier
  <2>5. /\ "lacking" \in StepResults(p, SliceManner(FALSE), Earlier(now, f), f)
        /\ now[f] \in StepResults(p, SliceManner(FALSE), Earlier(now, f), f)
    BY <1>2, <1>3, <2>1, <2>2, <2>4 DEF RunOf
  <2>6. now[f] \in {"error", "lacking"} BY <2>5, LacksOrNot
  <2> QED BY <1>3, <2>6
<1> QED BY <1>7, <1>8, <1>9, <1>10

\* What a run adds to the values that were used.
LEMMA CreatedIs ==
  /\ Created \subseteq {RepeatValue(Len(verdicts) + 1)}
  /\ Created # {} => pc = "repeat" /\ Creates(now)
  /\ pc = "repeat" /\ Creates(now) => Created = {RepeatValue(Len(verdicts) + 1)}
BY DEF Created, Creates

LEMMA SeenGrows ==
  ASSUME IInv, Alike, seen' = seen \cup Created
  PROVE  FirstSeen'
<1>1. FirstSeen BY DEF Alike
<1>2. CASE Created = {}
  <2>1. seen' = seen BY <1>2
  <2> QED BY <1>1, <2>1 DEF FirstSeen
<1>3. CASE Created # {}
  <2>1. pc = "repeat" /\ Creates(now) /\ seen' = seen \cup {<<cmd.value, Len(verdicts) + 1>>}
    BY <1>3, CreatedIs DEF RepeatValue
  <2>2. <<cmd.value, 1>> \in seen'
    <3>1. CASE verdicts = <<>>
      <4>1. Len(verdicts) + 1 = 1 BY <3>1
      <4> QED BY <2>1, <4>1
    <3>2. CASE verdicts # <<>> BY <2>1, <3>2, FirstCreates DEF RepeatValue
    <3> QED BY <3>1, <3>2
  <2>3. ASSUME NEW x \in seen' PROVE x = <<x[1], x[2]>> /\ <<x[1], 1>> \in seen'
    <3>1. CASE x \in seen BY <1>1, <2>1, <3>1 DEF FirstSeen
    <3>2. CASE x \notin seen
      <4>1. x = <<cmd.value, Len(verdicts) + 1>> BY <2>1, <2>3, <3>2
      <4>2. x[1] = cmd.value /\ x = <<x[1], x[2]>> BY <4>1
      <4> QED BY <2>2, <4>2
    <3> QED BY <3>1, <3>2
  <2> QED BY <2>3 DEF FirstSeen
<1> QED BY <1>2, <1>3

\* A killed run may have created.
LEMMA KillAlike ==
  ASSUME IInv, Alike, Kill
  PROVE  Alike'
<1>1. pc' = "idle" /\ seen' = seen \cup Created /\ UNCHANGED <<p, cmd, verdict, verdicts>> BY DEF Kill, memory
<1>2. FirstSeen' BY <1>1, SeenGrows
<1>3. Given' BY <1>1 DEF Alike, Given, Comparing
<1>4. Runs' /\ AsTheFirst' BY <1>1 DEF Runs, AsTheFirst, Comparing
<1>5. IntermittentTrue' BY <1>1 DEF Alike, IntermittentTrue
<1> QED BY <1>2, <1>3, <1>4, <1>5 DEF Alike

\* A run of the slice is compared.
LEMMA RepeatAlike ==
  ASSUME IInv, Alike, Repeat
  PROVE  Alike'
<1> DEFINE fresh == ~manner.stale
           v == RunVerdict(p, chain, rec.res, kept, target, group, keep, now, fresh)
           n == Len(verdicts)
           stale == RepeatValue(n + 1) \in seen
<1>1. /\ pc = "repeat" /\ now' = <<>> /\ verdicts' = Append(verdicts, v) /\ seen' = seen \cup Created
      /\ pc' = (IF LastRun(Append(verdicts, v)) THEN "record" ELSE "repeat")
      /\ UNCHANGED <<p, cmd, rec, group, keep, verdict>>
  BY DEF Repeat, Goto, counts
<1>2. /\ v.res = now /\ v.fresh = fresh /\ v \in Verdicts(Outcomes)
      /\ v.outcome # "did_not_run" => Reached(now, target)
  <2>1. fresh \in BOOLEAN BY Zenon
  <2> HIDE DEF fresh
  <2> QED BY <2>1, RunVerdictIs DEF IInv
<1>3. (v.fresh <=> ~stale) /\ v.fresh \in BOOLEAN
  <2>1. manner.stale = (pc = "repeat" /\ stale) BY DEF manner
  <2>2. fresh <=> ~stale BY <1>1, <2>1
  <2> HIDE DEF v, stale
  <2> QED BY <1>2, <2>2 DEF Verdicts
<1> HIDE DEF v, fresh
<1>4. /\ verdicts \in Seq(Verdicts(Outcomes)) /\ n \in Nat /\ Len(verdicts') = n + 1
      /\ DOMAIN verdicts = 1 .. n /\ DOMAIN verdicts' = 1 .. n + 1
      /\ verdicts'[n + 1] = v /\ \A i \in 1 .. n : verdicts'[i] = verdicts[i]
      /\ verdicts # <<>> <=> n > 0
  <2>1. verdicts \in Seq(Verdicts(Outcomes)) BY DEF IInv, TypeOK
  <2> QED BY <1>1, <1>2, <2>1
<1> HIDE DEF n
<1>5. RunOf(now, stale) BY <1>1 DEF Alike, Runs, Comparing, n
<1>6. Given' BY <1>1, SameRuns DEF Alike, Given, Comparing
<1>7. FirstSeen' BY <1>1, SeenGrows
<1>8. IntermittentTrue' BY <1>1 DEF IInv, AtWork, IntermittentTrue
<1>9. Runs'
  <2>1. \A st : RunOf(<<>>, st)'
    <3>1. \A st : RunOf(<<>>, st) BY EmptyRun DEF RunOf
    <3> QED BY <1>1, <3>1, SameRuns
  <2>2. RunOf(now, RepeatValue(Len(verdicts) + 1) \in seen)' BY <1>1, <2>1
  <2>3. ASSUME NEW i \in DOMAIN verdicts'
        PROVE  /\ RunOf(verdicts'[i].res, ~verdicts'[i].fresh)
               /\ verdicts'[i].outcome = "reproduced" => Reached(verdicts'[i].res, target)
    <3>1. CASE i = n + 1
      <4>1. verdicts'[i] = v BY <1>4, <3>1
      <4>2. (~v.fresh) = stale BY <1>3
      <4>3. RunOf(v.res, ~v.fresh) BY <1>2, <1>5, <4>2
      <4> QED BY <1>2, <4>1, <4>3
    <3>2. CASE i # n + 1
      <4>1. i \in DOMAIN verdicts /\ verdicts'[i] = verdicts[i] BY <1>4, <2>3, <3>2
      <4> QED BY <1>1, <4>1 DEF Alike, Runs, Comparing
    <3> QED BY <3>1, <3>2
  <2>4. ASSUME NEW i \in DOMAIN verdicts'
        PROVE  /\ RunOf(verdicts[i].res, ~verdicts[i].fresh)'
               /\ (verdicts[i].outcome = "reproduced" => Reached(verdicts[i].res, target))'
    BY <1>1, <2>3, <2>4, SameRuns DEF Reached
  <2> QED BY <1>1, <2>2, <2>4 DEF Runs
<1>10. AsTheFirst'
  <2>1. target' = target BY <1>1, SameRuns
  <2>2. \A k : RepeatValue(k)' = RepeatValue(k) BY <1>1 DEF RepeatValue
  <2>3. \A r : Creates(r)' <=> Creates(r) BY <1>1, SameRuns
  <2>4. Created \subseteq {RepeatValue(n + 1)} BY CreatedIs DEF n
  <2>5. \A k \in Nat : k > n + 1 => RepeatValue(k) \notin Created BY <1>4, <2>4 DEF RepeatValue
  <2>6. CASE n = 0
    <3>1. verdicts'[1] = v /\ DOMAIN verdicts' = {1} BY <1>4, <2>6
    <3>2. pc' = "repeat" => Reached(now, target) BY <1>1, <1>2, <1>4, <2>6, <3>1 DEF LastRun
    <3>3. v.fresh => \A k \in Nat : k > n + 1 => RepeatValue(k) \notin seen'
      <4>1. ASSUME v.fresh, NEW k \in Nat, RepeatValue(k) \in seen PROVE FALSE
        <5>1. <<cmd.value, 1>> \in seen BY <4>1 DEF Alike, FirstSeen, RepeatValue
        <5> QED BY <1>3, <2>6, <4>1, <5>1 DEF RepeatValue
      <4> QED BY <1>1, <2>5, <4>1
    <3>4. ~v.fresh \/ Creates(now) => RepeatValue(1) \in seen'
      <4>1. ~v.fresh => RepeatValue(1) \in seen BY <1>3, <2>6
      <4>2. Creates(now) => RepeatValue(1) \in Created BY <1>1, <1>4, <2>6, CreatedIs DEF n
      <4> QED BY <1>1, <4>1, <4>2
    <3> QED BY <1>2, <1>4, <2>1, <2>2, <2>3, <3>1, <3>2, <3>3, <3>4 DEF AsTheFirst
  <2>7. CASE n # 0
    <3>1. /\ Reached(verdicts[1].res, target)
          /\ verdicts[1].fresh => /\ \A i \in DOMAIN verdicts : verdicts[i].fresh
                                  /\ \A k \in Nat : k > n => RepeatValue(k) \notin seen
          /\ ~verdicts[1].fresh \/ Creates(verdicts[1].res) => RepeatValue(1) \in seen
      BY <1>1, <1>4, <2>7 DEF Alike, AsTheFirst, Comparing, n
    <3>2. verdicts'[1] = verdicts[1] BY <1>4, <2>7
    <3>3. verdicts[1].fresh => \A i \in DOMAIN verdicts' : verdicts'[i].fresh
      <4>1. verdicts[1].fresh => v.fresh BY <1>3, <1>4, <3>1
      <4>2. \A i \in DOMAIN verdicts' : i = n + 1 \/ i \in DOMAIN verdicts BY <1>4
      <4> QED BY <1>4, <3>1, <4>1, <4>2
    <3>4. verdicts[1].fresh => \A k \in Nat : k > n + 1 => RepeatValue(k) \notin seen'
      BY <1>1, <1>4, <2>5, <3>1
    <3> QED BY <1>1, <1>4, <2>1, <2>2, <2>3, <3>1, <3>2, <3>3, <3>4 DEF AsTheFirst
  <2> QED BY <2>6, <2>7
<1> QED BY <1>6, <1>7, <1>8, <1>9, <1>10 DEF Alike

\* The runs are combined: that two of them which reached the target disagree is the
\* backend's doing.
LEMMA RecordAlike ==
  ASSUME IInv, Alike, Record
  PROVE  Alike'
<1>1. /\ pc = "record" /\ verdict' = Combined(verdicts) /\ pc' \in {"after", "idle"}
      /\ UNCHANGED <<p, cmd, seen, verdicts>>
  BY DEF Record, Goto, Ends, world
<1>2. verdicts \in Seq(Verdicts(Outcomes)) /\ verdicts # <<>> BY <1>1 DEF IInv, TypeOK, AtWork
<1>3. Given' BY <1>1 DEF Alike, Given, Comparing
<1>4. Runs' /\ AsTheFirst' BY <1>1 DEF Runs, AsTheFirst, Comparing
<1>5. FirstSeen' BY <1>1 DEF Alike, FirstSeen
<1>6. ASSUME Combined(verdicts).outcome = "intermittent", p.flaky = {}, verdicts[1].fresh PROVE FALSE
  <2>1. \A i \in DOMAIN verdicts : verdicts[i] \in Verdicts(Outcomes) BY <1>2
  <2>2. \A i \in DOMAIN verdicts : verdicts[i].outcome # "intermittent" BY <2>1 DEF Verdicts, Outcomes
  <2>3. PICK i \in DOMAIN verdicts, g \in DOMAIN verdicts :
          verdicts[i].outcome = "not_reproduced" /\ verdicts[g].outcome = "reproduced"
    BY <1>2, <1>6, <2>2, CombinedIs
  <2>4. RunShows(verdicts[i]) /\ RunShows(verdicts[g]) BY <1>1, <2>3 DEF IInv, RunsShow
  <2>5. /\ RunOf(verdicts[i].res, ~verdicts[i].fresh) /\ RunOf(verdicts[g].res, ~verdicts[g].fresh)
        /\ Reached(verdicts[g].res, target)
    BY <1>1, <2>3 DEF Alike, Runs, Comparing
  <2>6. (~verdicts[i].fresh) = FALSE /\ (~verdicts[g].fresh) = FALSE
    <3>1. verdicts[i].fresh /\ verdicts[g].fresh BY <1>1, <1>2, <1>6 DEF Alike, AsTheFirst, Comparing
    <3> QED BY <3>1
  <2>7. RunOf(verdicts[i].res, FALSE) /\ RunOf(verdicts[g].res, FALSE) BY <2>5, <2>6
  <2>8. Reached(verdicts[i].res, target) /\ Answer(p, verdicts[i].res, target) # Answer(p, verdicts[g].res, target)
    BY <2>3, <2>4 DEF RunShows, AnsweredAs
  <2>9. TypeOK BY DEF IInv
  <2>10. \A stale, x, y : RunOf(x, stale) /\ RunOf(y, stale) /\ Reached(x, target) /\ Reached(y, target)
                           => Answer(p, x, target) = Answer(p, y, target)
    BY <1>6, <2>9, SameAnswer
  <2>11. Answer(p, verdicts[i].res, target) = Answer(p, verdicts[g].res, target) BY <2>5, <2>7, <2>8, <2>10, Zenon
  <2> QED BY <2>8, <2>11
<1>7. IntermittentTrue' BY <1>1, <1>6 DEF IntermittentTrue
<1> QED BY <1>3, <1>4, <1>5, <1>7 DEF Alike

\* No step makes runs disagree that are alike.
LEMMA AlikeStep ==
  ASSUME IInv, Alike, [Next]_vars
  PROVE  Alike'
<1>1. cmd.kind = "pin" => cmd.value = None BY DEF Alike, Given
<1>2. CASE RunChain
  <2>1. pc' = "run" /\ cmd'.kind = "run" /\ UNCHANGED <<p, seen, verdict, verdicts>> BY <1>2 DEF RunChain, NoCommand, world
  <2> QED BY <2>1, NotComparing
<1>3. CASE StartPin
  <2>1. pc' = "round" /\ cmd'.value = None /\ seen' = seen /\ verdict' = None BY <1>3 DEF StartPin, NoCommand, world
  <2> QED BY <2>1, NotComparing
<1>4. CASE Checkout
  <2>1. pc = "idle" /\ UNCHANGED <<p, seen, pc, cmd, verdict, verdicts>> BY <1>4 DEF Checkout, world, memory
  <2> QED BY <1>1, <2>1, NotComparing
<1>5. CASE RunEnds \/ Round \/ Cut \/ Note
  <2>1. pc' \notin {"slice", "repeat", "record"} /\ UNCHANGED <<p, seen, cmd, verdict, verdicts>>
    BY <1>5 DEF RunEnds, Round, Cut, Note, Goto, Ends, world, memory
  <2> QED BY <1>1, <2>1, NotComparing
<1>6. CASE UNCHANGED vars
  <2>1. UNCHANGED <<p, seen, cmd, pc, rec, group, keep, now, verdicts, verdict>>
    BY <1>6 DEF vars, world, memory
  <2>2. Given' BY <2>1, SameRuns DEF Alike, Given, Comparing
  <2>3. FirstSeen' /\ IntermittentTrue' BY <2>1 DEF Alike, FirstSeen, IntermittentTrue
  <2>4. RepeatValue(Len(verdicts) + 1)' = RepeatValue(Len(verdicts) + 1) BY <2>1 DEF RepeatValue
  <2>5. Runs' BY <2>1, <2>4, SameRuns DEF Alike, Runs, Comparing, Reached
  <2>6. AsTheFirst' BY <2>1, SameRuns DEF Alike, AsTheFirst, Comparing, RepeatValue
  <2> QED BY <2>2, <2>3, <2>5, <2>6 DEF Alike
<1> QED BY <1>2, <1>3, <1>4, <1>5, <1>6, StartSliceAlike, PinSlicesAlike, SliceAlike, RunStepAlike, RepeatAlike,
           RecordAlike, KillAlike DEF Next, Command

\* A verification says that the backend answers differently to the same input only
\* of a backend that does, unless the value its first run created with was used
\* before: never because one run left the next something, was cut short by an error
\* or a kept step, or was one of several values given.
THEOREM IntermittentIsSeen == Spec => []IntermittentTrue
<1>1. Init => IInv /\ Alike BY AtStart, AlikeAtStart
<1>2. IInv /\ Alike /\ [Next]_vars => (IInv /\ Alike)' BY Inductive, AlikeStep
<1>3. Alike => IntermittentTrue BY DEF Alike
<1> QED BY <1>1, <1>2, <1>3, PTL DEF Spec
=============================================================================
