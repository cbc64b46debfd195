------------------------------ MODULE GateProofs ------------------------------
(***************************************************************************)
(* For any suite of chains: what verify leaves without a verdict shows no  *)
(* change before a refused token or an unanswered call; a restart of a     *)
(* healthy backend is never called a finding, nor a regression by verify;  *)
(* the gate passes no backend that answers a step of its first chain       *)
(* otherwise; and it finds every defect of one that does not restart,      *)
(* sessions that end after one call included.                              *)
(***************************************************************************)
EXTENDS Gate, WellFoundedInduction, TLAPS

(***************************************************************************)
(* Least and greatest elements                                             *)
(***************************************************************************)
\* A set of naturals that has an element has a least one.
LEMMA MinIsLeast ==
  ASSUME NEW S, S \subseteq Nat, S # {}
  PROVE  Min(S) \in S /\ \A y \in S : Min(S) <= y
<1>1. PICK m \in S : \A k \in S : ~ (<<k, m>> \in OpToRel(<, Nat))
  BY NatLessThanWellFounded, WFMin
<1>2. \A k \in S : ~ (k < m)
  BY <1>1 DEF OpToRel
<1>3. \A k \in S : m <= k
  BY <1>2
<1> QED BY <1>3 DEF Min

\* So has a set of positions, and a greatest one.
LEMMA MaxIsGreatest ==
  ASSUME NEW n \in Nat, NEW S, S \subseteq 1 .. n, S # {}
  PROVE  Max(S) \in S
<1> DEFINE U == {m \in Nat : \A k \in S : k <= m}
<1>1. n \in U OBVIOUS
<1>2. Min(U) \in U /\ \A u \in U : Min(U) <= u
  <2>1. U \subseteq Nat /\ U # {} BY <1>1
  <2> HIDE DEF U
  <2> QED BY <2>1, MinIsLeast
<1> DEFINE m == Min(U)
<1>3. m \in Nat /\ \A k \in S : k \in Nat /\ k <= m
  BY <1>2
<1> HIDE DEF m
<1>4. m \in S
  <2> SUFFICES ASSUME m \notin S PROVE FALSE OBVIOUS
  <2>1. \A k \in S : k <= m - 1 BY <1>3
  <2>2. PICK k \in S : TRUE OBVIOUS
  <2>3. m - 1 \in Nat BY <1>3, <2>1, <2>2
  <2>4. m - 1 \in U BY <2>1, <2>3
  <2>5. m <= m - 1 BY <1>2, <2>4 DEF m
  <2> QED BY <2>5, <1>3
<1>5. \E x \in S : \A y \in S : x >= y
  BY <1>3, <1>4
<1> QED BY <1>5 DEF Max

(***************************************************************************)
(* The shape of records                                                    *)
(***************************************************************************)
\* Only a refused call states refusals and what is known of its token, and only
\* a refused or unanswered one is an error.
EntryOK(st) ==
  /\ st.refused # {} \/ st.fresh # "none" => st.retry # "no"
  /\ st.status = "error" => st.retry # "no" \/ UnansweredCall(st)
Entries == {st \in StepRecords : EntryOK(st)}
Records(c) == {r \in Seq(Entries) : Len(r) <= Len(c)}
Tokens == {"none", "good", "dead"}

\* What the check knows of a profile.
HeldOK(v) == v = [stage |-> v.stage, live |-> v.live]

Typed ==
  /\ scn \in Scenarios /\ ci \in DOMAIN scn.suite /\ what \in {"verify", "run"}
  /\ up \in BOOLEAN /\ restarts \in Nat /\ token \in [Profiles -> Tokens]
  /\ accepted \in [Profiles -> BOOLEAN] /\ cached \in [Profiles -> BOOLEAN]
  /\ rec \in Records(Chain)
  /\ DOMAIN hist = DOMAIN scn.suite
  /\ \A n \in DOMAIN scn.suite : hist[n] \in Seq(Records(scn.suite[n].steps))
  /\ early \in [Profiles -> Nat] /\ phase \in {"steps", "check", "done"}
  /\ DOMAIN check = Profiles /\ \A p \in Profiles : HeldOK(check[p])

\* The steps of every chain are what Shape says.
LEMMA Chains ==
  ASSUME Typed
  PROVE  /\ Shape(scn) /\ scn.suite \in Seq(Range(scn.suite)) /\ scn.suite # <<>>
         /\ ci \in 1 .. Len(scn.suite)
         /\ Chain \in Seq(Range(Chain)) /\ Chain # <<>>
         /\ \A k \in 1 .. Len(Chain) :
              Chain[k].profile \in Profiles /\ Chain[k].read \in BOOLEAN
              /\ Chain[k].asserts \in BOOLEAN /\ Chain[k].reads \subseteq 1 .. (k - 1)
              /\ \A r \in Chain[k].reads : ~Chain[r].read
<1>1. Shape(scn)
  BY ScenariosAssumption DEF Typed
<1>2. /\ scn.suite \in Seq(Range(scn.suite)) /\ scn.suite # <<>>
      /\ Chain \in Seq(Range(Chain)) /\ Chain # <<>>
  BY <1>1 DEF Shape, Chain, Typed
<1>3. DOMAIN scn.suite = 1 .. Len(scn.suite) /\ DOMAIN Chain = 1 .. Len(Chain)
  BY <1>2
<1> QED BY <1>1, <1>2, <1>3 DEF Shape, Chain, Typed

(***************************************************************************)
(* Steps of an attempt                                                     *)
(***************************************************************************)
Call == \/ Skip \/ Unreachable \/ CutOff \/ Accepted \/ RefusedNotResent
        \/ \E restart \in BOOLEAN : RefusedResent(restart)
Elsewhere == <<scn, ci, what, try, hist, verdicts, check, phase, exit>>

\* While a chain runs there is a step to come.
LEMMA StepToCome ==
  ASSUME Typed, Running
  PROVE  /\ Len(rec) \in Nat /\ Len(rec) + 1 \in 1 .. Len(Chain) /\ Len(Chain) \in Nat
         /\ Step.profile \in Profiles /\ Step.read \in BOOLEAN /\ Step.asserts \in BOOLEAN
         /\ Step.reads \subseteq 1 .. Len(rec)
<1>1. Len(rec) \in Nat /\ Len(Chain) \in Nat /\ Len(rec) < Len(Chain)
  BY Chains DEF Typed, Records, Running
<1>2. Len(rec) + 1 \in 1 .. Len(Chain) /\ (Len(rec) + 1) - 1 = Len(rec)
  BY <1>1
<1> QED BY <1>1, <1>2, Chains DEF Step

\* What is said of a refused token is one of the things that can be said.
LEMMA RefusalOf ==
  ASSUME Typed, Running
  PROVE  Refusal \in Refusals /\ scn.stated \in BOOLEAN
<1>1. scn.stated \in BOOLEAN BY Chains DEF Shape
<1>2. Step.profile \in Profiles BY StepToCome
<1>3. accepted[Step.profile] \in BOOLEAN /\ cached[Step.profile] \in BOOLEAN
  BY <1>2 DEF Typed
<1>4. (~accepted[Step.profile]) \in BOOLEAN BY <1>3
<1>5. FromCache \in BOOLEAN BY <1>3 DEF FromCache
<1> QED BY <1>1, <1>4, <1>5, Zenon DEF Refusal, Refusals

\* What StatusOf makes of an answer of the service.
LEMMA StatusIs ==
  ASSUME NEW a \in {"ok", "wrong", "gone", "unauth", "lost"}
  PROVE  /\ StatusOf(a) \in {"passed", "failed", "error"}
         /\ StatusOf(a) = "error" <=> a \in {"unauth", "lost"}
         /\ StatusOf(a) = "passed" <=> a = "ok" \/ (a = "wrong" /\ ~Step.asserts)
  BY DEF StatusOf

\* The backend answers in one of four ways.
LEMMA AnswerIs == Answer \in {"ok", "wrong", "gone", "lost"}
  BY DEF Answer

\* A call adds one entry of the right shape to the record.
LEMMA CallAppends ==
  ASSUME Typed, Call
  PROVE  /\ Running /\ UNCHANGED Elsewhere
         /\ \E e \in Entries : rec' = Append(rec, e)
<1> USE StatusIs, AnswerIs DEF Elsewhere
<1>1. CASE Skip
  <2>1. Entry("skipped", "none") \in Entries
    BY DEF Entry, Entries, EntryOK, StepRecords, Answers, UnansweredCall
  <2> QED BY <1>1, <2>1 DEF Skip
<1>2. CASE Unreachable
  <2>1. Entry("error", "unsent") \in Entries
    BY DEF Entry, Entries, EntryOK, StepRecords, Answers, UnansweredCall
  <2> QED BY <1>2, <2>1 DEF Unreachable, Sending
<1>3. CASE CutOff
  <2>1. Entry("error", "lost") \in Entries
    BY DEF Entry, Entries, EntryOK, StepRecords, Answers, UnansweredCall
  <2> QED BY <1>3, <2>1 DEF CutOff, Sending
<1>4. CASE Accepted
  <2>1. \A a \in {"ok", "wrong", "gone", "lost"} : Entry(StatusOf(a), a) \in Entries
    BY DEF Entry, Entries, EntryOK, StepRecords, Answers, UnansweredCall
  <2> QED BY <1>4, <2>1 DEF Accepted, Sending
<1>5. CASE RefusedNotResent
  <2>1. Running BY <1>5 DEF RefusedNotResent, Sending
  <2>2. ASSUME NEW f \in {"accepted", "minted"}
        PROVE  [status |-> "error", answer |-> "unauth", retry |-> "not_resent", refused |-> {Refusal}, fresh |-> f] \in Entries
    BY <2>1, RefusalOf DEF Entries, EntryOK, StepRecords, Answers, UnansweredCall
  <2> QED BY <1>5, <2>1, <2>2 DEF RefusedNotResent
<1>6. ASSUME NEW restart \in BOOLEAN, RefusedResent(restart)
      PROVE  Running /\ UNCHANGED Elsewhere /\ \E e \in Entries : rec' = Append(rec, e)
  <2>1. Running BY <1>6 DEF RefusedResent, Sending
  <2> DEFINE relogin == [early |-> scn.stated, first |-> TRUE, cached |-> FALSE]
  <2>2. relogin \in Refusals BY <2>1, RefusalOf DEF Refusals
  <2>3. ASSUME NEW a \in {"ok", "wrong", "gone", "unauth", "lost"}, NEW f \in {"none", "relogin"}, NEW R \in SUBSET Refusals
        PROVE  [status |-> StatusOf(a), answer |-> a, retry |-> "resent", fresh |-> f, refused |-> R] \in Entries
    BY DEF Entries, EntryOK, StepRecords, Answers, UnansweredCall
  <2>4. /\ {Refusal} \cup {relogin} \in SUBSET Refusals
        /\ {Refusal} \cup {} \in SUBSET Refusals
    BY <2>1, <2>2, RefusalOf
  <2> HIDE DEF relogin
  <2>5. \E a \in {"ok", "wrong", "gone", "unauth", "lost"}, f \in {"none", "relogin"}, R \in SUBSET Refusals :
           rec' = Append(rec, [status |-> StatusOf(a), answer |-> a, retry |-> "resent", fresh |-> f, refused |-> R])
    BY <1>6, <2>4, AnswerIs DEF RefusedResent, relogin
  <2> QED BY <1>6, <2>1, <2>3, <2>5 DEF RefusedResent
<1> QED BY <1>1, <1>2, <1>3, <1>4, <1>5, <1>6 DEF Call

\* A call keeps the tokens and what the process knows of them in shape.
LEMMA CallTokens ==
  ASSUME Typed, Call
  PROVE  /\ up' \in BOOLEAN /\ restarts' \in Nat /\ token' \in [Profiles -> Tokens]
         /\ accepted' \in [Profiles -> BOOLEAN] /\ cached' \in [Profiles -> BOOLEAN]
<1> USE DEF Typed, Tokens
<1>p. Running /\ Step.profile \in Profiles
  BY CallAppends, StepToCome
<1>1. CASE Skip BY <1>1 DEF Skip, backend
<1>2. CASE Unreachable BY <1>2 DEF Unreachable, backend
<1>3. CASE CutOff
  <2>1. cached' = [cached EXCEPT ![Step.profile] = @ /\ token[Step.profile] # "none"] /\ accepted' = accepted
    BY <1>3 DEF CutOff
  <2>2. cached' \in [Profiles -> BOOLEAN] /\ accepted' \in [Profiles -> BOOLEAN] BY <2>1, <1>p, Zenon
  <2> DEFINE t == [token EXCEPT ![Step.profile] = IF @ = "none" THEN "good" ELSE @]
  <2>3. t \in [Profiles -> Tokens] BY <1>p
  <2> HIDE DEF t
  <2>4. up' = FALSE /\ restarts' = restarts + 1 /\ token' = Dead(t)
    BY <1>3 DEF CutOff, Wiped, t
  <2>5. Dead(t) \in [Profiles -> Tokens] BY <2>3 DEF Dead
  <2>6. restarts' \in Nat BY <2>4
  <2>7. up' \in BOOLEAN BY <2>4
  <2>8. token' \in [Profiles -> Tokens] BY <2>4, <2>5
  <2> QED BY <2>2, <2>6, <2>7, <2>8, Zenon
<1>4. CASE Accepted
  <2>1. /\ cached' = [cached EXCEPT ![Step.profile] = @ /\ token[Step.profile] # "none"]
        /\ accepted' = [accepted EXCEPT ![Step.profile] = @ \/ Answer # "lost"]
    BY <1>4 DEF Accepted
  <2>2. cached' \in [Profiles -> BOOLEAN] /\ accepted' \in [Profiles -> BOOLEAN] BY <2>1, <1>p, Zenon
  <2> QED BY <1>4, <1>p, <2>2 DEF Accepted, Used
<1>5. CASE RefusedNotResent
  BY <1>5, <1>p DEF RefusedNotResent
<1>6. ASSUME NEW restart \in BOOLEAN, RefusedResent(restart)
      PROVE  /\ up' \in BOOLEAN /\ restarts' \in Nat /\ token' \in [Profiles -> Tokens]
             /\ accepted' \in [Profiles -> BOOLEAN] /\ cached' \in [Profiles -> BOOLEAN]
  <2>1. /\ up' = up /\ cached' = [cached EXCEPT ![Step.profile] = FALSE]
        /\ \E b \in BOOLEAN : accepted' = [accepted EXCEPT ![Step.profile] = b]
    BY <1>6, Zenon DEF RefusedResent
  <2>2. accepted' \in [Profiles -> BOOLEAN] /\ cached' \in [Profiles -> BOOLEAN]
    BY <2>1, <1>p, Zenon
  <2>3. restarts' \in Nat /\ token' \in [Profiles -> Tokens]
    <3>1. CASE restart BY <1>6, <3>1, <1>p DEF RefusedResent, Wiped, Dead
    <3>2. CASE ~restart BY <1>6, <3>2, <1>p DEF RefusedResent, Used
    <3> QED BY <3>1, <3>2
  <2> QED BY <2>1, <2>2, <2>3
<1> QED BY <1>1, <1>2, <1>3, <1>4, <1>5, <1>6 DEF Call

\* A record that grows while there are steps to come is a record of the chain.
LEMMA Grows ==
  ASSUME NEW c, Len(c) \in Nat, NEW r \in Records(c), Len(r) < Len(c), NEW e \in Entries
  PROVE  Append(r, e) \in Records(c)
  BY DEF Records

(***************************************************************************)
(* Steps of the gate                                                       *)
(***************************************************************************)
AnAttempt == Retry \/ RunToo \/ NextChain
Probing == \E p \in Profiles : HoldFirst(p) \/ ProbeFirst(p) \/ ProbeHalf(p) \/ ProbeFull(p)

\* One kind of step or another.
LEMMA Kinds == Next => Call \/ Stop \/ Start \/ AnAttempt \/ LastChain \/ Probing \/ Exit
  BY DEF Next, Call, AnAttempt, Probing

\* The end of an attempt files its record.
LEMMA AttemptEnds ==
  ASSUME Typed, AnAttempt
  PROVE  /\ Complete /\ UNCHANGED <<scn, up, token, restarts, check, exit>>
         /\ hist' = [hist EXCEPT ![ci] = Append(@, rec)]
         /\ rec' = <<>> /\ phase' = "steps" /\ accepted' = [p \in Profiles |-> FALSE]
         /\ cached' = [p \in Profiles |-> token[p] # "none"]
         /\ ci' \in DOMAIN scn.suite /\ what' \in {"verify", "run"}
         /\ (Retry /\ UNCHANGED verdicts) \/ Absorb
<1>1. CASE Retry
  <2>1. /\ Complete /\ UNCHANGED <<scn, verdicts, check, exit>>
        /\ hist' = [hist EXCEPT ![ci] = Append(@, rec)] /\ Begin(ci, what, 2)
    BY <1>1 DEF Retry
  <2> QED BY <1>1, <2>1 DEF Begin, Typed
<1>2. CASE RunToo
  BY <1>2 DEF RunToo, Final, Begin, Absorb, Typed
<1>3. CASE NextChain
  <2>1. ci + 1 \in DOMAIN scn.suite
    BY <1>3, Chains DEF NextChain
  <2> QED BY <1>3, <2>1 DEF NextChain, Done, Final, Begin, Absorb, Typed
<1> QED BY <1>1, <1>2, <1>3 DEF AnAttempt

\* A restart ends the sessions that the check holds.
LEMMA SessionsEnd ==
  ASSUME Typed, Stop, NEW p \in Profiles
  PROVE  check'[p].stage = check[p].stage /\ HeldOK(check'[p]) /\ DOMAIN check'[p].live = DOMAIN check[p].live
<1>1. ASSUME NEW v, HeldOK(v), NEW x PROVE [v EXCEPT !.live = x] = [stage |-> v.stage, live |-> x]
  <2>1. v = [stage |-> v.stage, live |-> v.live] BY <1>1 DEF HeldOK
  <2>2. [[stage |-> v.stage, live |-> v.live] EXCEPT !.live = x] = [stage |-> v.stage, live |-> x] OBVIOUS
  <2> QED BY <2>1, <2>2, Zenon
<1> DEFINE L == [n \in DOMAIN check[p].live |-> FALSE]
<1>2. check'[p] = [check[p] EXCEPT !.live = L] BY Zenon DEF Stop
<1>3. DOMAIN L = DOMAIN check[p].live OBVIOUS
<1> HIDE DEF L
<1>4. check'[p] = [stage |-> check[p].stage, live |-> L] BY <1>1, <1>2 DEF Typed
<1> QED BY <1>3, <1>4 DEF HeldOK

\* Filing the record keeps the records in shape.
LEMMA Filed ==
  ASSUME Typed, hist' = [hist EXCEPT ![ci] = Append(@, rec)], scn' = scn
  PROVE  /\ DOMAIN hist' = DOMAIN scn'.suite
         /\ \A n \in DOMAIN scn'.suite : hist'[n] \in Seq(Records(scn'.suite[n].steps))
<1>1. hist[ci] \in Seq(Records(scn.suite[ci].steps)) /\ rec \in Records(scn.suite[ci].steps)
  BY DEF Typed, Chain
<1>2. Append(hist[ci], rec) \in Seq(Records(scn.suite[ci].steps))
  BY <1>1
<1> QED BY <1>2 DEF Typed

\* Absorb counts early refusals.
LEMMA AbsorbTyped ==
  ASSUME Typed, Absorb
  PROVE  early' \in [Profiles -> Nat]
  BY DEF Absorb, Typed

\* A gate starts in shape.
LEMMA InitTyped == Init => Typed
<1> SUFFICES ASSUME Init PROVE Typed OBVIOUS
<1>1. Shape(scn) /\ scn \in Scenarios BY ScenariosAssumption DEF Init
<1>2. 1 \in DOMAIN scn.suite BY <1>1 DEF Shape
<1>3. Len(Chain) \in Nat
  BY <1>1, <1>2 DEF Shape, Chain, Init
<1>4. rec = <<>> /\ <<>> \in Records(Chain) BY <1>3 DEF Init, Records
<1>5. \A n \in DOMAIN scn.suite : hist[n] = <<>>
  BY DEF Init
<1>6. \A n \in DOMAIN scn.suite : hist[n] \in Seq(Records(scn.suite[n].steps))
  <2>1. \A S : <<>> \in Seq(S) OBVIOUS
  <2> QED BY <2>1, <1>5
<1>7. accepted \in [Profiles -> BOOLEAN] /\ cached \in [Profiles -> BOOLEAN]
  BY Zenon DEF Init
<1>8. token \in [Profiles -> Tokens] /\ restarts \in Nat
  BY <1>1 DEF Shape, Init, Tokens
<1>9. DOMAIN check = Profiles /\ \A p \in Profiles : HeldOK(check[p]) BY DEF Init, NoCheck, HeldOK
<1> QED BY <1>1, <1>2, <1>4, <1>6, <1>7, <1>8, <1>9 DEF Init, Typed

\* Every step keeps the shape.
LEMMA StepTyped ==
  ASSUME Typed, [Next]_vars
  PROVE  Typed'
<1>1. CASE Call
  <2>1. PICK e \in Entries : rec' = Append(rec, e) BY <1>1, CallAppends
  <2>2. Running /\ UNCHANGED Elsewhere BY <1>1, CallAppends
  <2>3. Append(rec, e) \in Records(Chain)
    <3>1. Len(Chain) \in Nat /\ Len(rec) < Len(Chain) BY <2>2, StepToCome DEF Running
    <3> QED BY <3>1, Grows DEF Typed
  <2>4. rec' \in Records(Chain)' BY <2>1, <2>2, <2>3 DEF Elsewhere, Chain, Records
  <2> QED BY <1>1, <2>2, <2>4, CallTokens DEF Typed, Elsewhere, verdicts
<1>2. CASE Stop
  <2>1. /\ UNCHANGED <<scn, attempt, hist, verdicts, phase, exit>> /\ up' = FALSE
        /\ restarts' \in Nat /\ token' = Dead(token) /\ DOMAIN check' = Profiles
    BY <1>2 DEF Stop, Wiped, Typed
  <2>3. \A p \in Profiles : HeldOK(check'[p]) BY <1>2, SessionsEnd
  <2>2. token' \in [Profiles -> Tokens] BY <2>1 DEF Typed, Tokens, Dead
  <2> QED BY <2>1, <2>2, <2>3 DEF Typed, attempt, verdicts, Chain
<1>3. CASE Start
  BY <1>3 DEF Start, Typed, attempt, verdicts, Chain
<1>4. CASE AnAttempt
  <2>1. /\ UNCHANGED <<scn, up, token, restarts, check>> /\ rec' = <<>> /\ phase' = "steps"
        /\ accepted' = [p \in Profiles |-> FALSE] /\ cached' = [p \in Profiles |-> token[p] # "none"]
        /\ ci' \in DOMAIN scn.suite /\ what' \in {"verify", "run"}
        /\ hist' = [hist EXCEPT ![ci] = Append(@, rec)]
    BY <1>4, AttemptEnds
  <2>2. early' \in [Profiles -> Nat]
    BY <1>4, AttemptEnds, AbsorbTyped DEF Typed, verdicts
  <2>3. accepted' \in [Profiles -> BOOLEAN] /\ cached' \in [Profiles -> BOOLEAN]
    BY <2>1, Zenon
  <2>4. rec' \in Records(Chain)'
    <3>1. Len(Chain') \in Nat
      <4>1. Shape(scn) /\ ci' \in DOMAIN scn.suite BY <2>1, Chains
      <4> QED BY <2>1, <4>1 DEF Shape, Chain
    <3> QED BY <2>1, <3>1 DEF Records
  <2>5. /\ DOMAIN hist' = DOMAIN scn'.suite
        /\ \A n \in DOMAIN scn'.suite : hist'[n] \in Seq(Records(scn'.suite[n].steps))
    BY <2>1, Filed
  <2>6. scn' \in Scenarios /\ ci' \in DOMAIN scn'.suite /\ up' \in BOOLEAN /\ restarts' \in Nat
        /\ token' \in [Profiles -> Tokens] /\ DOMAIN check' = Profiles
        /\ \A p \in Profiles : HeldOK(check'[p])
    BY <2>1 DEF Typed
  <2> QED BY <2>1, <2>2, <2>3, <2>4, <2>5, <2>6 DEF Typed
<1>5. CASE LastChain
  <2>1. /\ UNCHANGED <<scn, backend, attempt, check>> /\ phase' = "check" /\ Absorb
    BY <1>5 DEF LastChain
  <2>2. /\ DOMAIN hist' = DOMAIN scn'.suite
        /\ \A n \in DOMAIN scn'.suite : hist'[n] \in Seq(Records(scn'.suite[n].steps))
    BY <2>1, Filed DEF Absorb
  <2> QED BY <2>1, <2>2, AbsorbTyped DEF Typed, backend, attempt, Chain
<1>6. CASE Probing
  <2>1. /\ UNCHANGED <<scn, backend, attempt, hist, early, phase>>
        /\ DOMAIN check' = Profiles
    BY <1>6 DEF Probing, HoldFirst, ProbeFirst, ProbeHalf, ProbeFull, Conclude, Advance, Typed, verdicts
  <2>2. \A p \in Profiles : HeldOK(check'[p])
    <3>1. PICK p \in Profiles : HoldFirst(p) \/ ProbeFirst(p) \/ ProbeHalf(p) \/ ProbeFull(p)
      BY <1>6 DEF Probing
    <3>2. \E st, live : check' = [check EXCEPT ![p] = [stage |-> st, live |-> live]]
      BY <3>1 DEF HoldFirst, ProbeFirst, ProbeHalf, ProbeFull, Conclude, Advance
    <3> QED BY <3>2 DEF Typed, HeldOK
  <2> QED BY <2>1, <2>2 DEF Typed, backend, attempt, Chain
<1>7. CASE Exit
  BY <1>7 DEF Exit, Typed, backend, attempt, Chain
<1>8. CASE UNCHANGED vars
  BY <1>8 DEF vars, Typed, backend, attempt, verdicts, Chain
<1> QED BY <1>1, <1>2, <1>3, <1>4, <1>5, <1>6, <1>7, <1>8, Kinds

\* The shape holds in every state.
LEMMA TypedHolds == Spec => []Typed
  BY InitTyped, StepTyped, PTL DEF Spec

(***************************************************************************)
(* What the verdicts are about                                             *)
(***************************************************************************)
\* The step that a finding about sessions is at was refused early.
LEMMA LifetimeIs ==
  ASSUME NEW c, NEW r \in Seq(Entries), NEW h
  PROVE  /\ Early(r) \subseteq DOMAIN r /\ \A i \in Early(r) : r[i].retry # "no"
         /\ TokenLifetime(c, r, h).at # 0 => TokenLifetime(c, r, h).at \in Early(r)
<1>1. Early(r) \subseteq DOMAIN r /\ \A i \in Early(r) : r[i].retry # "no"
  BY DEF Early, RefusedEarly, Entries, EntryOK
<1>2. \A S \in SUBSET Early(r) : S # {} => Min(S) \in Early(r)
  <2>1. Early(r) \subseteq Nat BY <1>1
  <2> QED BY <2>1, MinIsLeast
<1>3. ASSUME TokenLifetime(c, r, h).at # 0 PROVE TokenLifetime(c, r, h).at \in Early(r)
  <2> DEFINE all == Early(r)
             held == {i \in all : RefusedInRun(r[i])}
  <2>1. all # {} => Min(all) \in all BY <1>2
  <2>2. held # {} => Min(held) \in all
    <3>1. held \in SUBSET all OBVIOUS
    <3> QED BY <3>1, <1>2
  <2>3. TokenLifetime(c, r, h).at = Min(all) \/ (held # {} /\ TokenLifetime(c, r, h).at = Min(held))
    BY <1>3 DEF TokenLifetime
  <2>4. all # {} BY <1>3 DEF TokenLifetime
  <2> HIDE DEF all, held
  <2>5. TokenLifetime(c, r, h).at \in all BY <2>1, <2>2, <2>3, <2>4
  <2> QED BY <2>5 DEF all
<1> QED BY <1>1, <1>3

\* A run loses its session at a step that was refused.
LEMMA LossIs ==
  ASSUME NEW c, NEW r \in Seq(Entries), LossAt(c, r) # 0
  PROVE  LossAt(c, r) \in DOMAIN r /\ r[LossAt(c, r)].retry # "no"
<1> DEFINE S == {i \in DOMAIN r : r[i].retry # "no" /\ (RefusedFreshToken(r[i]) \/ AcceptedBefore(c, r, i))}
<1>1. S # {} /\ LossAt(c, r) = Min(S) BY DEF LossAt
<1>2. S \subseteq Nat OBVIOUS
<1>3. Min(S) \in S
  <2> HIDE DEF S
  <2> QED BY <1>1, <1>2, MinIsLeast
<1> QED BY <1>1, <1>3

\* The step without an answer is the first error, and nothing changed before it.
LEMMA UnansweredIs ==
  ASSUME NEW r \in Seq(Entries), UnansweredOnly(r) # 0
  PROVE  LET u == UnansweredOnly(r) IN
         /\ u \in DOMAIN r /\ (r[u].retry # "no" \/ UnansweredCall(r[u]))
         /\ ~DriftedBefore(r, u)
<1> DEFINE S == {i \in DOMAIN r : r[i].status = "error"}
<1>1. S # {} /\ UnansweredOnly(r) = Min(S) /\ ~DriftedBefore(r, Min(S)) BY DEF UnansweredOnly
<1>2. S \subseteq Nat OBVIOUS
<1>3. Min(S) \in S
  <2> HIDE DEF S
  <2> QED BY <1>1, <1>2, MinIsLeast
<1> QED BY <1>1, <1>3 DEF Entries, EntryOK

\* Without a verdict, verify stopped judging at a refused or unanswered step
\* that nothing changed before.
LEMMA NotJudgedFrom ==
  ASSUME NEW c, NEW r \in Seq(Entries), NEW h, Verify(c, r, h).code = 3
  PROVE  \E j \in DOMAIN r : (r[j].retry # "no" \/ UnansweredCall(r[j])) /\ ~DriftedBefore(r, j)
<1> DEFINE l == TokenLifetime(c, r, h)
<1>1. \/ l.at # 0 /\ ~DriftedBefore(r, l.at)
      \/ LossAt(c, r) # 0 /\ ~DriftedBefore(r, LossAt(c, r))
      \/ UnansweredOnly(r) # 0
  BY DEF Verify
<1>2. CASE l.at # 0 /\ ~DriftedBefore(r, l.at)
  BY <1>2, LifetimeIs
<1>3. CASE LossAt(c, r) # 0 /\ ~DriftedBefore(r, LossAt(c, r))
  BY <1>3, LossIs
<1>4. CASE UnansweredOnly(r) # 0
  BY <1>4, UnansweredIs
<1> QED BY <1>1, <1>2, <1>3, <1>4

\* verify has no verdict only when nothing that it could judge had changed
\* (notJudged in cmd_verify.go), whatever suite, backend and history.
THEOREM NothingIsHidden == Spec => []NothingBeforeIsHidden
<1>1. Typed => NothingBeforeIsHidden
  <2> SUFFICES ASSUME Typed, Complete, what = "verify", Outcome.code = 3,
                      NEW i \in DOMAIN rec, rec[i].answer = "wrong"
               PROVE  \E j \in 1 .. i : rec[j].retry # "no" \/ UnansweredCall(rec[j])
    BY DEF NothingBeforeIsHidden
  <2>1. rec \in Seq(Entries) BY DEF Typed, Records
  <2>2. PICK j \in DOMAIN rec : (rec[j].retry # "no" \/ UnansweredCall(rec[j])) /\ ~DriftedBefore(rec, j)
    BY <2>1, NotJudgedFrom DEF Outcome, Verdict
  <2>3. j <= i
    <3>1. Changed(rec, i) BY DEF Changed
    <3>2. i \notin 1 .. (j - 1) BY <2>2, <3>1 DEF DriftedBefore
    <3> QED BY <2>1, <2>2, <3>2
  <2> QED BY <2>1, <2>2, <2>3
<1> QED BY <1>1, TypedHolds, PTL

(***************************************************************************)
(* One restart of a healthy backend                                        *)
(***************************************************************************)
\* It restarts at most once until the last chain is done, one restart before
\* the gate included, and at most once while the gate holds tokens.
Rare == MaxRestarts <= 1 /\ LateRestarts <= 1

\* A run was refused a token of profile p; a call of it was cut off.
RefusedIn(c, r, p) == \E i \in DOMAIN r : r[i].retry # "no" /\ c[i].profile = p
LostIn(r) == \E i \in DOMAIN r : r[i].answer = "lost"

\* The same of a run that is on file.
Spent(p) == \E n \in DOMAIN hist : \E m \in DOMAIN hist[n] : RefusedIn(scn.suite[n].steps, hist[n][m], p)
LostBefore == \E n \in DOMAIN hist : \E m \in DOMAIN hist[n] : LostIn(hist[n][m])

\* A token can be refused once for each profile, and a call cut off once, in all
\* the runs of the gate, since every one of them takes the restart.
BeforeCheck ==
  /\ restarts <= 1 /\ \A p \in Profiles : check[p].stage = "none"
  /\ restarts = 0 => ~LostIn(rec) /\ ~LostBefore /\ \A p \in Profiles : token[p] # "dead"
  /\ \A p \in Profiles : Spent(p) \/ RefusedIn(Chain, rec, p) => restarts = 1 /\ token[p] # "dead"
  /\ \A p \in Profiles : ~Spent(p) \/ ~RefusedIn(Chain, rec, p)
  /\ \A i, j \in DOMAIN rec :
       rec[i].retry # "no" /\ rec[j].retry # "no" /\ Chain[i].profile = Chain[j].profile => i = j
  /\ ~LostIn(rec) \/ ~LostBefore

\* What a token held by the check is worth: the second pair is fetched only
\* after the last restart.
InCheck ==
  /\ restarts <= 2
  /\ \A p \in Profiles :
       /\ check[p].stage \in {"none", "first", "second", "half", "over"}
       /\ check[p].stage # "none" => restarts # 0
       /\ check[p].stage = "first" =>
            1 \in DOMAIN check[p].live /\ (check[p].live[1] = TRUE \/ restarts = 2)
       /\ check[p].stage \in {"second", "half"} => restarts = 2 /\ check[p].live[1] = TRUE /\ check[p].live[2] = TRUE

Restarted ==
  /\ causes = {}
  /\ \A p \in Profiles : early[p] \in {0, 1} /\ (early[p] = 1 => Spent(p) /\ restarts # 0)
  /\ phase = "steps" => BeforeCheck
  /\ phase # "steps" => InCheck

\* The runs on file are records of their chains.
LEMMA OnFile ==
  ASSUME Typed
  PROVE  /\ rec \in Seq(Entries) /\ hist[ci] \in Seq(Seq(Entries))
         /\ DOMAIN rec \subseteq 1 .. Len(Chain)
         /\ \A n \in DOMAIN hist : hist[n] \in Seq(Records(scn.suite[n].steps))
<1>1. rec \in Records(Chain) /\ hist[ci] \in Seq(Records(Chain))
  BY DEF Typed, Chain
<1>2. Records(Chain) \subseteq Seq(Entries) BY DEF Records
<1>3. Len(Chain) \in Nat BY Chains
<1>4. DOMAIN rec \subseteq 1 .. Len(Chain)
  BY <1>1, <1>3 DEF Records
<1>5. hist[ci] \in Seq(Seq(Entries)) BY <1>1, <1>2
<1> QED BY <1>1, <1>2, <1>4, <1>5 DEF Typed

\* The run that a finding is compared with is one on file.
LEMMA PreviousIs ==
  ASSUME NEW h \in Seq(Seq(Entries)), NEW k,
         NEW prev \in {PreviousRunSending(h, k), PreviousRunAttempting(h, k)}
  PROVE  prev = <<>> \/ \E m \in DOMAIN h : prev = h[m] /\ k \in DOMAIN h[m]
<1>1. ASSUME NEW S, S \subseteq DOMAIN h, \A n \in S : k \in DOMAIN h[n]
      PROVE  Latest(h, S) = <<>> \/ \E m \in DOMAIN h : Latest(h, S) = h[m] /\ k \in DOMAIN h[m]
  <2>1. CASE S = {} BY <2>1 DEF Latest
  <2>2. CASE S # {}
    <3>1. Len(h) \in Nat /\ S \subseteq 1 .. Len(h) BY <1>1
    <3>2. Max(S) \in S BY <2>2, <3>1, MaxIsGreatest
    <3> QED BY <1>1, <2>2, <3>2 DEF Latest
  <2> QED BY <2>1, <2>2
<1> DEFINE A == {n \in DOMAIN h : k \in DOMAIN h[n] /\ Answered(h[n][k])}
           B == {n \in DOMAIN h : k \in DOMAIN h[n] /\ Attempted(h[n][k])}
<1>2. A \subseteq DOMAIN h /\ \A n \in A : k \in DOMAIN h[n] OBVIOUS
<1>3. B \subseteq DOMAIN h /\ \A n \in B : k \in DOMAIN h[n] OBVIOUS
<1>4. prev = Latest(h, A) \/ prev = Latest(h, B)
  BY DEF PreviousRunSending, PreviousRunAttempting
<1> HIDE DEF A, B
<1> QED BY <1>1, <1>2, <1>3, <1>4

\* No profile is refused twice in the record r and in the runs h before it.
Once(c, r, h) ==
  /\ \A i, j \in DOMAIN r : r[i].retry # "no" /\ r[j].retry # "no" /\ c[i].profile = c[j].profile => i = j
  /\ \A i \in DOMAIN r, m \in DOMAIN h : \A j \in DOMAIN h[m] :
       r[i].retry # "no" /\ h[m][j].retry # "no" => c[i].profile # c[j].profile

\* Then sessions are not found to end early, nor a refusal to repeat itself.
LEMMA SessionsQuiet ==
  ASSUME NEW c, NEW r \in Seq(Entries), NEW h \in Seq(Seq(Entries)), Once(c, r, h)
  PROVE  ~TokenLifetime(c, r, h).finding
<1> SUFFICES ASSUME TokenLifetime(c, r, h).finding PROVE FALSE OBVIOUS
<1> DEFINE all == Early(r)
           first == Min(all)
           held == {i \in all : RefusedInRun(r[i])}
           mine == Min(held)
<1>1. all \subseteq DOMAIN r /\ \A i \in all : r[i].retry # "no" BY LifetimeIs
<1>2. \/ all # {} /\ \E j \in all \ {first} : c[j].profile = c[first].profile
      \/ held # {} /\ h # <<>> /\ \E p \in Early(Last(h)) : c[p].profile = c[mine].profile
  BY DEF TokenLifetime
<1>3. all \subseteq Nat /\ held \subseteq Nat BY <1>1
<1>4. CASE all # {} /\ \E j \in all \ {first} : c[j].profile = c[first].profile
  <2>1. first \in all
    <3> HIDE DEF all
    <3> QED BY <1>3, <1>4, MinIsLeast
  <2> HIDE DEF all, first
  <2> QED BY <1>1, <1>4, <2>1 DEF Once
<1>5. CASE held # {} /\ h # <<>> /\ \E p \in Early(Last(h)) : c[p].profile = c[mine].profile
  <2>1. mine \in held
    <3> HIDE DEF held
    <3> QED BY <1>3, <1>5, MinIsLeast
  <2>2. mine \in DOMAIN r /\ r[mine].retry # "no" BY <1>1, <2>1
  <2>3. Len(h) \in DOMAIN h /\ Last(h) = h[Len(h)] /\ Last(h) \in Seq(Entries)
    BY <1>5 DEF Last
  <2>4. PICK p \in Early(Last(h)) : c[p].profile = c[mine].profile BY <1>5
  <2>5. p \in DOMAIN Last(h) /\ Last(h)[p].retry # "no" BY <2>3, <2>4, LifetimeIs
  <2> HIDE DEF mine
  <2> QED BY <2>2, <2>3, <2>4, <2>5 DEF Once
<1> QED BY <1>2, <1>4, <1>5

\* Then no session is found to be lost twice at one step.
LEMMA LossQuiet ==
  ASSUME NEW c, NEW r \in Seq(Entries), NEW h \in Seq(Seq(Entries)), Once(c, r, h)
  PROVE  ~LossFinding(c, r, h)
<1> SUFFICES ASSUME LossFinding(c, r, h) PROVE FALSE OBVIOUS
<1> DEFINE i == LossAt(c, r)
           prev == PreviousRunSending(h, i)
<1>1. i # 0 /\ LossAt(c, prev) = i BY DEF LossFinding
<1>2. i \in DOMAIN r /\ r[i].retry # "no" BY <1>1, LossIs
<1>3. LossAt(c, <<>>) = 0 BY DEF LossAt
<1>4. prev = <<>> \/ \E m \in DOMAIN h : prev = h[m] /\ i \in DOMAIN h[m]
  <2> HIDE DEF i
  <2> QED BY PreviousIs
<1> HIDE DEF i, prev
<1>5. PICK m \in DOMAIN h : prev = h[m] /\ i \in DOMAIN h[m] BY <1>1, <1>3, <1>4
<1>6. h[m] \in Seq(Entries) /\ LossAt(c, h[m]) = i BY <1>1, <1>5
<1>7. h[m][i].retry # "no" BY <1>1, <1>6, LossIs
<1> QED BY <1>2, <1>5, <1>7 DEF Once

\* Then no fresh token is found to be refused every time.
LEMMA FreshQuiet ==
  ASSUME NEW c, NEW r \in Seq(Entries), NEW h \in Seq(Seq(Entries)), Once(c, r, h)
  PROVE  FreshAt(r, h) = 0
<1> SUFFICES ASSUME FreshAt(r, h) # 0 PROVE FALSE OBVIOUS
<1> DEFINE S == {i \in DOMAIN r : RefusedFreshToken(r[i])}
           i == Min(S)
           prev == PreviousRunSending(h, i)
<1>1. S # {} /\ prev # <<>> /\ r[i].retry = "resent" /\ prev[i].retry = "resent"
  BY DEF FreshAt
<1>2. i \in DOMAIN r
  <2>1. S \subseteq Nat OBVIOUS
  <2>2. S \subseteq DOMAIN r OBVIOUS
  <2> HIDE DEF S
  <2> QED BY <1>1, <2>1, <2>2, MinIsLeast
<1> HIDE DEF S, i
<1>3. prev = <<>> \/ \E m \in DOMAIN h : prev = h[m] /\ i \in DOMAIN h[m] BY PreviousIs
<1> HIDE DEF prev
<1> QED BY <1>1, <1>2, <1>3 DEF Once

\* No two calls were cut off, so no request is found to be dropped every time.
LEMMA DropQuiet ==
  ASSUME NEW r \in Seq(Entries), NEW h \in Seq(Seq(Entries)),
         ~LostIn(r) \/ \A m \in DOMAIN h : ~LostIn(h[m])
  PROVE  DroppedAt(r, h) = 0
<1> SUFFICES ASSUME DroppedAt(r, h) # 0 PROVE FALSE OBVIOUS
<1> DEFINE i == UnansweredOnly(r)
           prev == PreviousRunAttempting(h, i)
<1>1. i # 0 /\ prev # <<>> /\ r[i].answer = "lost" /\ prev[i].answer = "lost"
  BY DEF DroppedAt
<1>2. i \in DOMAIN r BY <1>1, UnansweredIs
<1> HIDE DEF i
<1>3. prev = <<>> \/ \E m \in DOMAIN h : prev = h[m] /\ i \in DOMAIN h[m] BY PreviousIs
<1> HIDE DEF prev
<1> QED BY <1>1, <1>2, <1>3 DEF LostIn

\* While nothing has happened twice, an attempt ends without a finding.
LEMMA NoCause ==
  ASSUME Typed, BeforeCheck
  PROVE  Outcome.cause = "none" /\ ~LossFinding(Chain, rec, hist[ci])
<1>1. rec \in Seq(Entries) /\ hist[ci] \in Seq(Seq(Entries)) BY OnFile
<1>2. ci \in DOMAIN hist /\ Chain = scn.suite[ci].steps BY DEF Typed, Chain
<1>3. Once(Chain, rec, hist[ci])
  <2>1. ASSUME NEW i \in DOMAIN rec, NEW m \in DOMAIN hist[ci], NEW j \in DOMAIN hist[ci][m],
               rec[i].retry # "no", hist[ci][m][j].retry # "no", Chain[i].profile = Chain[j].profile
        PROVE  FALSE
    <3> DEFINE p == Chain[i].profile
    <3>1. p \in Profiles BY OnFile, Chains
    <3>2. RefusedIn(Chain, rec, p) BY <2>1 DEF RefusedIn
    <3>3. Spent(p)
      <4>1. RefusedIn(scn.suite[ci].steps, hist[ci][m], p) BY <1>2, <2>1 DEF RefusedIn
      <4> QED BY <1>2, <4>1 DEF Spent
    <3> QED BY <3>1, <3>2, <3>3 DEF BeforeCheck
  <2> QED BY <2>1 DEF Once, BeforeCheck
<1>4. ~LostIn(rec) \/ \A m \in DOMAIN hist[ci] : ~LostIn(hist[ci][m])
  BY <1>2 DEF BeforeCheck, LostBefore
<1>5. /\ ~TokenLifetime(Chain, rec, hist[ci]).finding /\ ~LossFinding(Chain, rec, hist[ci])
      /\ FreshAt(rec, hist[ci]) = 0 /\ DroppedAt(rec, hist[ci]) = 0
  BY <1>1, <1>3, <1>4, SessionsQuiet, LossQuiet, FreshQuiet, DropQuiet
<1>6. Verify(Chain, rec, hist[ci]).cause = "none" BY <1>5 DEF Verify
<1>7. Run(Chain, rec, hist[ci]).cause = "none" BY <1>5 DEF Run
<1> QED BY <1>5, <1>6, <1>7 DEF Outcome, Verdict

\* The entry is what a longer record has more.
LEMMA SameEntry ==
  ASSUME NEW r \in Seq(Entries), NEW e, NEW x, Append(r, e) = Append(r, x)
  PROVE  e = x
<1>1. r \in Seq(Entries \cup {e, x}) OBVIOUS
<1>2. Append(r, e)[Len(r) + 1] = e /\ Append(r, x)[Len(r) + 1] = x BY <1>1
<1> QED BY <1>2

\* What one more entry adds to a record.
LEMMA EntryAdds ==
  ASSUME NEW c, NEW r \in Seq(Entries), NEW e \in Entries, NEW a, a = Append(r, e)
  PROVE  /\ DOMAIN a = 1 .. Len(r) + 1 /\ DOMAIN r = 1 .. Len(r) /\ Len(r) \in Nat
         /\ a[Len(r) + 1] = e /\ \A i \in DOMAIN r : a[i] = r[i]
         /\ LostIn(a) <=> LostIn(r) \/ e.answer = "lost"
         /\ \A p : RefusedIn(c, a, p) <=> RefusedIn(c, r, p) \/ (e.retry # "no" /\ c[Len(r) + 1].profile = p)
<1>1. /\ DOMAIN a = 1 .. Len(r) + 1 /\ DOMAIN r = 1 .. Len(r) /\ Len(r) \in Nat
      /\ a[Len(r) + 1] = e /\ \A i \in DOMAIN r : a[i] = r[i]
  OBVIOUS
<1>2. \A i : i \in DOMAIN a <=> i \in DOMAIN r \/ i = Len(r) + 1
  BY <1>1
<1> QED BY <1>1, <1>2 DEF LostIn, RefusedIn

\* A call of a healthy backend, of which it matters whether its token was
\* refused, or the restart cut it off.
Plain(e) ==
  /\ e.retry = "no" /\ e.answer # "lost" /\ restarts' = restarts
  /\ \A q \in Profiles : token'[q] = "dead" => token[q] = "dead"
Refused(e) ==
  /\ e.retry # "no" /\ e.answer # "lost" /\ restarts' = restarts /\ token[Step.profile] = "dead"
  /\ \A q \in Profiles : token'[q] = "dead" => q # Step.profile /\ token[q] = "dead"
Cut(e) == e.retry = "no" /\ e.answer = "lost" /\ restarts = 0 /\ restarts' = 1

\* What a call to a healthy backend can end in.
LEMMA HealthyCall ==
  ASSUME Rare, Typed, Healthy, phase = "steps", BeforeCheck, Call
  PROVE  \E e \in Entries : rec' = Append(rec, e) /\ (Plain(e) \/ Refused(e) \/ Cut(e))
<1>p. Running /\ Step.profile \in Profiles
  BY CallAppends, StepToCome
<1>e. PICK e \in Entries : rec' = Append(rec, e) BY CallAppends
<1>r. rec \in Seq(Entries) BY OnFile
<1>h. \A k \in {"auth", "drop", "wrong"} : \A n : ~Defect(k, n)
  BY DEF Healthy, Defect
<1>t. token \in [Profiles -> Tokens] /\ MaxRestarts \in Nat /\ restarts \in Nat
  BY ScenariosAssumption DEF Typed
<1>n. ASSUME NEW x, rec' = Append(rec, x) PROVE e = x
  BY <1>e, <1>n, <1>r, SameEntry
<1>1. CASE Skip
  <2>1. e = Entry("skipped", "none") BY <1>1, <1>n DEF Skip
  <2> QED BY <1>1, <1>e, <2>1 DEF Skip, backend, Plain, Entry
<1>2. CASE Unreachable
  <2>1. e = Entry("error", "unsent") BY <1>2, <1>n DEF Unreachable
  <2> QED BY <1>2, <1>e, <2>1 DEF Unreachable, backend, Plain, Entry
<1>3. CASE CutOff
  <2>1. e = Entry("error", "lost") BY <1>3, <1>n DEF CutOff
  <2>2. restarts < MaxRestarts + 0 /\ restarts' = restarts + 1 BY <1>3 DEF CutOff, Wiped
  <2>3. restarts = 0 /\ restarts' = 1 BY <2>2, <1>t DEF Rare
  <2> QED BY <1>e, <2>1, <2>3 DEF Cut, Entry
<1>4. CASE Accepted
  <2>1. Answer \in {"ok", "gone"} BY <1>h DEF Answer
  <2>2. e = Entry(StatusOf(Answer), Answer) BY <1>4, <1>n DEF Accepted
  <2>3. token' = [token EXCEPT ![Step.profile] = "good"] /\ restarts' = restarts
    BY <1>4 DEF Accepted, Used, Healthy, ShortLived
  <2> QED BY <1>e, <1>p, <1>t, <2>1, <2>2, <2>3 DEF Plain, Entry
<1>5. CASE RefusedNotResent
  <2>1. token[Step.profile] = "dead" BY <1>5, <1>h DEF RefusedNotResent, Accepts
  <2>2. e.retry = "not_resent" /\ e.answer = "unauth" BY <1>5, <1>n DEF RefusedNotResent
  <2>3. token' = [token EXCEPT ![Step.profile] = "none"] /\ restarts' = restarts
    BY <1>5 DEF RefusedNotResent
  <2> QED BY <1>e, <1>p, <1>t, <2>1, <2>2, <2>3 DEF Refused
<1>6. ASSUME NEW restart \in BOOLEAN, RefusedResent(restart)
      PROVE  Refused(e)
  <2>1. token[Step.profile] = "dead" BY <1>6, <1>h DEF RefusedResent, Accepts
  <2>2. restarts = 1
    BY <1>p, <1>t, <2>1 DEF BeforeCheck
  <2>3. ~restart
    BY <1>6, <2>2, <1>t DEF RefusedResent, Wiped, Rare
  <2>4. Answer \in {"ok", "gone"} BY <1>h DEF Answer
  <2>5. e.retry = "resent" /\ e.answer = Answer
    BY <1>6, <1>h, <1>n, <2>3 DEF RefusedResent
  <2>6. token' = [token EXCEPT ![Step.profile] = "good"] /\ restarts' = restarts
    BY <1>6, <1>h, <2>3 DEF RefusedResent, Used, Healthy, ShortLived
  <2> QED BY <1>p, <1>t, <2>1, <2>4, <2>5, <2>6 DEF Refused
<1> QED BY <1>1, <1>2, <1>3, <1>4, <1>5, <1>6, <1>e DEF Call

\* A call keeps what holds before the check.
LEMMA CallRestarted ==
  ASSUME Rare, Typed, Healthy, phase = "steps", Restarted, Call
  PROVE  Restarted'
<1>1. UNCHANGED Elsewhere /\ Running BY CallAppends
<1>2. BeforeCheck BY DEF Restarted
<1>3. PICK e \in Entries : rec' = Append(rec, e) /\ (Plain(e) \/ Refused(e) \/ Cut(e))
  BY <1>2, HealthyCall
<1>4. /\ UNCHANGED <<scn, ci, hist, causes, early, check, phase>> /\ Chain' = Chain
      /\ \A p : Spent(p)' = Spent(p) /\ LostBefore' = LostBefore
  BY <1>1 DEF Elsewhere, verdicts, Chain, Spent, LostBefore
<1> DEFINE k == Len(rec) + 1
<1>5. rec \in Seq(Entries) BY OnFile
<1>6. /\ DOMAIN rec' = 1 .. k /\ DOMAIN rec = 1 .. Len(rec) /\ Len(rec) \in Nat
      /\ rec'[k] = e /\ \A i \in DOMAIN rec : rec'[i] = rec[i]
      /\ LostIn(rec') <=> LostIn(rec) \/ e.answer = "lost"
      /\ \A p : RefusedIn(Chain, rec', p) <=> RefusedIn(Chain, rec, p) \/ (e.retry # "no" /\ Step.profile = p)
  <2> DEFINE a == Append(rec, e)
  <2>1. /\ DOMAIN a = 1 .. Len(rec) + 1 /\ DOMAIN rec = 1 .. Len(rec) /\ Len(rec) \in Nat
        /\ a[Len(rec) + 1] = e /\ \A i \in DOMAIN rec : a[i] = rec[i]
        /\ LostIn(a) <=> LostIn(rec) \/ e.answer = "lost"
        /\ \A p : RefusedIn(Chain, a, p) <=> RefusedIn(Chain, rec, p) \/ (e.retry # "no" /\ Chain[Len(rec) + 1].profile = p)
    BY <1>5, EntryAdds
  <2> HIDE DEF a
  <2>2. rec' = a BY <1>3 DEF a
  <2> QED BY <2>1, <2>2 DEF Step
<1>7. Step.profile \in Profiles /\ Step = Chain[k] BY <1>1, StepToCome DEF Step
<1>8. restarts \in Nat /\ restarts' \in {restarts, 1} /\ restarts' <= 1
  BY <1>2, <1>3 DEF Typed, BeforeCheck, Plain, Refused, Cut
<1>9. ASSUME NEW i \in DOMAIN rec', NEW j \in DOMAIN rec', rec'[i].retry # "no", rec'[j].retry # "no",
             Chain[i].profile = Chain[j].profile
      PROVE  i = j
  <2>1. CASE i \in DOMAIN rec /\ j \in DOMAIN rec
    BY <1>2, <1>6, <1>9, <2>1 DEF BeforeCheck
  <2>2. \A n \in DOMAIN rec : rec'[n].retry # "no" /\ e.retry # "no" => Chain[n].profile # Step.profile
    <3> SUFFICES ASSUME NEW n \in DOMAIN rec, rec[n].retry # "no", e.retry # "no", Chain[n].profile = Step.profile
                 PROVE  FALSE
      BY <1>6
    <3>1. RefusedIn(Chain, rec, Step.profile) BY DEF RefusedIn
    <3>2. token[Step.profile] = "dead" BY <1>3 DEF Plain, Refused, Cut
    <3> QED BY <1>2, <1>7, <3>1, <3>2 DEF BeforeCheck
  <2>3. CASE i = k /\ j = k BY <2>3
  <2>4. CASE i = k /\ j \in DOMAIN rec BY <1>6, <1>7, <1>9, <2>2, <2>4
  <2>5. CASE i \in DOMAIN rec /\ j = k BY <1>6, <1>7, <1>9, <2>2, <2>5
  <2>6. i \in DOMAIN rec \/ i = k BY <1>6
  <2>7. j \in DOMAIN rec \/ j = k BY <1>6
  <2> QED BY <2>1, <2>3, <2>4, <2>5, <2>6, <2>7
<1> HIDE DEF k
<1>10. \A p \in Profiles : Spent(p) \/ RefusedIn(Chain, rec', p) => restarts' = 1 /\ token'[p] # "dead"
  <2> SUFFICES ASSUME NEW p \in Profiles, Spent(p) \/ RefusedIn(Chain, rec', p)
               PROVE  restarts' = 1 /\ token'[p] # "dead"
    OBVIOUS
  <2>1. CASE Plain(e) BY <1>2, <1>6, <2>1 DEF BeforeCheck, Plain
  <2>2. CASE Refused(e)
    <3>1. restarts = 1 BY <1>2, <1>7, <1>8, <2>2 DEF BeforeCheck, Refused, Typed
    <3> QED BY <1>2, <1>6, <2>2, <3>1 DEF BeforeCheck, Refused
  <2>3. CASE Cut(e) BY <1>2, <1>6, <2>3 DEF BeforeCheck, Cut
  <2> QED BY <1>3, <2>1, <2>2, <2>3
<1>11. \A p \in Profiles : ~Spent(p) \/ ~RefusedIn(Chain, rec', p)
  <2> SUFFICES ASSUME NEW p \in Profiles, Spent(p), RefusedIn(Chain, rec', p) PROVE FALSE
    OBVIOUS
  <2>1. token[p] # "dead" /\ ~RefusedIn(Chain, rec, p) BY <1>2 DEF BeforeCheck
  <2>2. e.retry # "no" /\ Step.profile = p BY <1>6, <2>1
  <2> QED BY <1>3, <2>1, <2>2 DEF Plain, Refused, Cut
<1>12. /\ ~LostIn(rec') \/ ~LostBefore
       /\ restarts' = 0 => ~LostIn(rec') /\ ~LostBefore /\ \A p \in Profiles : token'[p] # "dead"
  <2>1. CASE Plain(e) BY <1>2, <1>6, <2>1 DEF BeforeCheck, Plain
  <2>2. CASE Refused(e) BY <1>2, <1>6, <2>2 DEF BeforeCheck, Refused
  <2>3. CASE Cut(e) BY <1>2, <1>6, <2>3 DEF BeforeCheck, Cut
  <2> QED BY <1>3, <2>1, <2>2, <2>3
<1>13. BeforeCheck'
  BY <1>2, <1>4, <1>8, <1>9, <1>10, <1>11, <1>12 DEF BeforeCheck, LostIn, RefusedIn
<1>14. restarts # 0 => restarts' # 0 BY <1>8
<1> QED BY <1>4, <1>13, <1>14 DEF Restarted

\* Filing the record of a run moves what it shows to what is on file.
LEMMA FiledShows ==
  ASSUME Typed, hist' = [hist EXCEPT ![ci] = Append(@, rec)], scn' = scn
  PROVE  /\ \A p : Spent(p)' <=> Spent(p) \/ RefusedIn(Chain, rec, p)
         /\ LostBefore' <=> LostBefore \/ LostIn(rec)
<1>1. /\ ci \in DOMAIN hist /\ DOMAIN hist' = DOMAIN hist /\ Chain = scn.suite[ci].steps
      /\ \A n \in DOMAIN hist : n # ci => hist'[n] = hist[n]
      /\ hist'[ci] = Append(hist[ci], rec)
  BY DEF Typed, Chain
<1> DEFINE h == hist[ci]
           k == Len(h) + 1
<1>2. /\ DOMAIN hist'[ci] = 1 .. k /\ DOMAIN h = 1 .. Len(h) /\ Len(h) \in Nat
      /\ hist'[ci][k] = rec /\ \A m \in DOMAIN h : hist'[ci][m] = h[m]
  <2>1. rec \in Seq(Entries) /\ h \in Seq(Seq(Entries)) BY OnFile
  <2> HIDE DEF h
  <2> QED BY <1>1, <2>1 DEF h
<1>3. \A m : m \in DOMAIN hist'[ci] <=> m \in DOMAIN h \/ m = k
  BY <1>2
<1> HIDE DEF k
<1>4. ASSUME NEW p PROVE Spent(p)' <=> Spent(p) \/ RefusedIn(Chain, rec, p)
  <2>1. Spent(p)' <=> \E n \in DOMAIN hist' : \E m \in DOMAIN hist'[n] : RefusedIn(scn.suite[n].steps, hist'[n][m], p)
    BY DEF Spent, RefusedIn
  <2>2. (\E m \in DOMAIN hist'[ci] : RefusedIn(Chain, hist'[ci][m], p))
          <=> RefusedIn(Chain, rec, p) \/ \E m \in DOMAIN h : RefusedIn(Chain, h[m], p)
    BY <1>2, <1>3
  <2> QED BY <1>1, <2>1, <2>2 DEF Spent
<1>5. LostBefore' <=> LostBefore \/ LostIn(rec)
  <2>1. LostBefore' <=> \E n \in DOMAIN hist' : \E m \in DOMAIN hist'[n] : LostIn(hist'[n][m])
    BY DEF LostBefore, LostIn
  <2>2. (\E m \in DOMAIN hist'[ci] : LostIn(hist'[ci][m])) <=> LostIn(rec) \/ \E m \in DOMAIN h : LostIn(h[m])
    BY <1>2, <1>3
  <2> QED BY <1>1, <2>1, <2>2 DEF LostBefore
<1> QED BY <1>4, <1>5

\* What the gate concludes of an attempt is no finding, and it counts an early
\* refusal once for each profile.
LEMMA AbsorbRestarted ==
  ASSUME Typed, Restarted, phase = "steps", hist' = [hist EXCEPT ![ci] = Append(@, rec)],
         UNCHANGED <<scn, restarts>>, UNCHANGED verdicts \/ Absorb
  PROVE  /\ causes' = {}
         /\ \A p \in Profiles : early'[p] \in {0, 1} /\ (early'[p] = 1 => Spent(p)' /\ restarts' # 0)
<1>1. BeforeCheck BY DEF Restarted
<1>2. \A p : Spent(p) => Spent(p)' BY FiledShows
<1>3. CASE UNCHANGED verdicts
  BY <1>2, <1>3 DEF verdicts, Restarted
<1>4. CASE Absorb
  <2>1. Outcome.cause = "none" BY <1>1, NoCause
  <2>2. causes' = {} BY <1>4, <2>1 DEF Absorb, Restarted
  <2>3. early' = [p \in Profiles |-> early[p] + IF p \in EarlyProfiles THEN 1 ELSE 0]
    BY <1>4 DEF Absorb
  <2>4. \A p \in EarlyProfiles : RefusedIn(Chain, rec, p)
    <3> DEFINE l == TokenLifetime(Chain, rec, hist[ci])
    <3>1. l.at # 0 => l.at \in DOMAIN rec /\ rec[l.at].retry # "no"
      BY OnFile, LifetimeIs
    <3>2. \A p \in EarlyProfiles : l.at # 0 /\ p = Chain[l.at].profile
      BY DEF EarlyProfiles
    <3> QED BY <3>1, <3>2 DEF RefusedIn
  <2>5. ASSUME NEW p \in Profiles
        PROVE  early'[p] \in {0, 1} /\ (early'[p] = 1 => Spent(p)' /\ restarts' # 0)
    <3>1. CASE p \in EarlyProfiles
      <4>1. RefusedIn(Chain, rec, p) /\ ~Spent(p) /\ restarts = 1
        BY <1>1, <2>4, <3>1 DEF BeforeCheck
      <4>2. early[p] = 0 BY <4>1 DEF Restarted
      <4>3. early'[p] = 1 BY <2>3, <3>1, <4>2
      <4> QED BY <4>1, <4>3, FiledShows
    <3>2. CASE p \notin EarlyProfiles
      <4>1. early'[p] = early[p] BY <2>3, <3>2 DEF Typed
      <4> QED BY <1>2, <4>1 DEF Restarted
    <3> QED BY <3>1, <3>2
  <2> QED BY <2>2, <2>5
<1> QED BY <1>3, <1>4

\* The next attempt starts with what is on file.
LEMMA AttemptRestarted ==
  ASSUME Typed, Restarted, AnAttempt
  PROVE  Restarted'
<1>1. /\ Complete /\ UNCHANGED <<scn, token, restarts, check>> /\ rec' = <<>> /\ phase' = "steps"
      /\ hist' = [hist EXCEPT ![ci] = Append(@, rec)] /\ (UNCHANGED verdicts \/ Absorb)
  BY AttemptEnds
<1>2. phase = "steps" /\ BeforeCheck BY <1>1 DEF Complete, Restarted
<1>3. /\ \A p : Spent(p)' <=> Spent(p) \/ RefusedIn(Chain, rec, p)
      /\ LostBefore' <=> LostBefore \/ LostIn(rec)
  BY <1>1, FiledShows
<1>4. ~LostIn(rec') /\ \A c, p : ~RefusedIn(c, rec', p)
  BY <1>1 DEF LostIn, RefusedIn
<1>5. DOMAIN rec' = {} BY <1>1
<1>6. BeforeCheck'
  <2>1. /\ restarts' <= 1 /\ \A p \in Profiles : check'[p].stage = "none"
        /\ restarts' = 0 => ~LostIn(rec') /\ ~LostBefore' /\ \A p \in Profiles : token'[p] # "dead"
    BY <1>1, <1>2, <1>3, <1>4 DEF BeforeCheck
  <2>2. \A p \in Profiles : Spent(p)' \/ RefusedIn(Chain', rec', p) => restarts' = 1 /\ token'[p] # "dead"
    BY <1>1, <1>2, <1>3, <1>4 DEF BeforeCheck
  <2> QED BY <1>4, <1>5, <2>1, <2>2 DEF BeforeCheck, LostIn, RefusedIn
<1>7. /\ causes' = {}
      /\ \A p \in Profiles : early'[p] \in {0, 1} /\ (early'[p] = 1 => Spent(p)' /\ restarts' # 0)
  BY <1>1, <1>2, AbsorbRestarted
<1> QED BY <1>1, <1>6, <1>7 DEF Restarted

\* The check starts with nothing held.
LEMMA LastChainRestarted ==
  ASSUME Typed, Restarted, LastChain
  PROVE  Restarted'
<1>1. /\ phase = "steps" /\ phase' = "check" /\ UNCHANGED <<scn, backend, attempt, check>>
      /\ Absorb /\ hist' = [hist EXCEPT ![ci] = Append(@, rec)]
  BY DEF LastChain, Done, Final, Complete, Absorb
<1>2. /\ causes' = {}
      /\ \A p \in Profiles : early'[p] \in {0, 1} /\ (early'[p] = 1 => Spent(p)' /\ restarts' # 0)
  BY <1>1, AbsorbRestarted DEF backend
<1>3. InCheck'
  BY <1>1 DEF Restarted, BeforeCheck, InCheck, backend, Typed
<1> QED BY <1>1, <1>2, <1>3 DEF Restarted

\* A restart between two calls, the first or one while tokens are held.
LEMMA StopRestarted ==
  ASSUME Rare, Typed, Restarted, Stop
  PROVE  Restarted'
<1>1. /\ UNCHANGED <<scn, attempt, hist, verdicts, phase>>
      /\ restarts < MaxRestarts + (IF phase = "check" THEN LateRestarts ELSE 0) /\ restarts' = restarts + 1
      /\ check' = [p \in Profiles |-> [check[p] EXCEPT !.live = [n \in DOMAIN check[p].live |-> FALSE]]]
  BY DEF Stop, Wiped
<1>2. restarts \in Nat /\ MaxRestarts \in Nat /\ LateRestarts \in Nat /\ DOMAIN check = Profiles
  BY ScenariosAssumption DEF Typed
<1>3. (\A p : Spent(p)' = Spent(p)) /\ LostBefore' = LostBefore /\ Chain' = Chain /\ rec' = rec
  BY <1>1 DEF Spent, LostBefore, Chain, attempt
<1>4. CASE phase = "steps"
  <2>1. restarts = 0 /\ restarts' = 1 BY <1>1, <1>2, <1>4 DEF Rare
  <2>2. BeforeCheck BY <1>4 DEF Restarted
  <2>3. (\A p \in Profiles : ~Spent(p) /\ ~RefusedIn(Chain, rec, p)) /\ ~LostIn(rec) /\ ~LostBefore
    BY <2>1, <2>2 DEF BeforeCheck
  <2>4. \A p \in Profiles : check'[p].stage = "none"
    <3>1. ASSUME NEW p \in Profiles PROVE check'[p].stage = check[p].stage BY SessionsEnd
    <3> QED BY <2>2, <3>1 DEF BeforeCheck
  <2>5. BeforeCheck'
    BY <1>3, <2>1, <2>2, <2>3, <2>4 DEF BeforeCheck, LostIn, RefusedIn
  <2> QED BY <1>1, <1>3, <1>4, <2>1, <2>5 DEF Restarted, verdicts
<1>5. CASE phase # "steps"
  <2>1. InCheck BY <1>5 DEF Restarted
  <2>2. restarts \in {0, 1} /\ restarts' # 0 /\ (restarts # 0 => restarts' = 2) /\ restarts' <= 2
    <3>1. restarts < 2 BY <1>1, <1>2 DEF Rare
    <3> QED BY <1>1, <1>2, <3>1
  <2>3. ASSUME NEW p \in Profiles
        PROVE  /\ check'[p].stage = check[p].stage
               /\ DOMAIN check'[p].live = DOMAIN check[p].live
    BY SessionsEnd
  <2>4. InCheck'
    <3>1. ASSUME NEW p \in Profiles, check[p].stage = "first"
          PROVE  1 \in DOMAIN check'[p].live /\ restarts' = 2
      BY <2>1, <2>2, <2>3, <3>1 DEF InCheck
    <3>2. \A p \in Profiles : check[p].stage \notin {"second", "half"}
      BY <2>1, <2>2 DEF InCheck
    <3> QED BY <2>1, <2>2, <2>3, <3>1, <3>2 DEF InCheck
  <2> QED BY <1>1, <1>3, <1>5, <2>2, <2>4 DEF Restarted, verdicts
<1> QED BY <1>4, <1>5

\* The check of a healthy backend finds nothing.
LEMMA ProbingRestarted ==
  ASSUME Typed, Healthy, Restarted, Probing
  PROVE  Restarted'
<1>1. /\ phase = "check" /\ UNCHANGED <<scn, backend, attempt, hist, early, phase>>
  BY DEF Probing, HoldFirst, ProbeFirst, ProbeHalf, ProbeFull, verdicts
<1>2. InCheck /\ causes = {} BY <1>1 DEF Restarted
<1>3. ~ShortLived /\ scn.defect.kind # "brief" BY DEF Healthy, ShortLived
<1>4. restarts' = restarts /\ restarts \in Nat /\ DOMAIN check = Profiles BY <1>1 DEF backend, Typed
<1>5. PICK p \in Profiles : HoldFirst(p) \/ ProbeFirst(p) \/ ProbeHalf(p) \/ ProbeFull(p)
  BY DEF Probing
<1> DEFINE held(v) ==
      /\ v.stage # "none" => restarts # 0
      /\ v.stage \in {"none", "first", "second", "half", "over"}
      /\ v.stage = "first" => 1 \in DOMAIN v.live /\ (v.live[1] = TRUE \/ restarts = 2)
      /\ v.stage \in {"second", "half"} => restarts = 2 /\ v.live[1] = TRUE /\ v.live[2] = TRUE
<1>6. causes' = {} /\ \E v : check' = [check EXCEPT ![p] = v] /\ held(v)
  <2>1. CASE HoldFirst(p)
    <3>1. restarts # 0 BY <2>1 DEF HoldFirst, Restarted
    <3>2. check' = [check EXCEPT ![p] = [stage |-> "first", live |-> <<TRUE>>]]
            \/ check' = [check EXCEPT ![p] = [stage |-> "over", live |-> <<>>]]
      BY <2>1 DEF HoldFirst
    <3>3. held([stage |-> "first", live |-> <<TRUE>>]) /\ held([stage |-> "over", live |-> <<>>])
      BY <3>1
    <3> HIDE DEF held
    <3> QED BY <2>1, <1>2, <3>2, <3>3 DEF HoldFirst, verdicts
  <2>2. CASE ~HoldFirst(p)
    <3>1. check[p].stage # "none" /\ restarts # 0
      <4>1. check[p].stage \in {"first", "second", "half"}
        BY <1>5, <2>2 DEF ProbeFirst, ProbeHalf, ProbeFull
      <4> QED BY <1>2, <4>1 DEF InCheck
    <3>2. held([stage |-> "over", live |-> <<>>]) BY <3>1
    <3>3. CASE Conclude(p, FALSE)
      <4> HIDE DEF held
      <4> QED BY <3>2, <3>3, <1>2 DEF Conclude
    <3>4. CASE ProbeFirst(p)
      <4>1. CASE up /\ ~check[p].live[1]
        <5>1. restarts = 2 BY <1>2, <3>4, <4>1 DEF ProbeFirst, InCheck
        <5>2. held([stage |-> "second", live |-> <<TRUE, TRUE>>]) BY <5>1
        <5> HIDE DEF held
        <5> QED BY <1>2, <3>4, <4>1, <5>2 DEF ProbeFirst, Advance
      <4>2. CASE ~(up /\ ~check[p].live[1])
        BY <1>3, <3>3, <3>4, <4>2 DEF ProbeFirst
      <4> QED BY <4>1, <4>2
    <3>5. CASE ProbeHalf(p)
      <4>1. restarts = 2 /\ check[p].live[1] = TRUE /\ check[p].live[2] = TRUE
        BY <1>2, <3>5 DEF ProbeHalf, InCheck
      <4>2. CASE up
        <5>1. held([stage |-> "half", live |-> check[p].live]) BY <4>1
        <5>2. check[p].live[1] BY <4>1
        <5> HIDE DEF held
        <5> QED BY <1>2, <1>3, <3>5, <4>2, <5>1, <5>2 DEF ProbeHalf, Advance
      <4>3. CASE ~up
        <5>1. Conclude(p, up) BY <3>5, <4>3 DEF ProbeHalf
        <5>2. Conclude(p, FALSE) BY <4>3, <5>1 DEF Conclude
        <5> QED BY <3>3, <5>2
      <4> QED BY <4>2, <4>3
    <3>6. CASE ProbeFull(p)
      <4>1. check[p].live[2] = TRUE
        BY <1>2, <3>6 DEF ProbeFull, InCheck
      <4>2. ~(~check[p].live[2] \/ ShortLived) BY <1>3, <4>1
      <4>3. Conclude(p, FALSE) BY <3>6, <4>2 DEF ProbeFull, Conclude
      <4> QED BY <3>3, <4>3
    <3> QED BY <1>5, <2>2, <3>4, <3>5, <3>6
  <2> QED BY <2>1, <2>2
<1>7. InCheck'
  <2>1. PICK v : check' = [check EXCEPT ![p] = v] /\ held(v) BY <1>6
  <2>2. check'[p] = v /\ \A q \in Profiles : q # p => check'[q] = check[q] BY <1>4, <2>1
  <2> QED BY <1>2, <1>4, <2>1, <2>2 DEF InCheck
<1>8. \A q : Spent(q)' = Spent(q) BY <1>1 DEF Spent
<1> QED BY <1>1, <1>4, <1>6, <1>7, <1>8 DEF Restarted

\* Before the gate there is nothing on file.
LEMMA InitRestarted == Init => Restarted
<1> SUFFICES ASSUME Init PROVE Restarted OBVIOUS
<1>1. Shape(scn) BY ScenariosAssumption DEF Init
<1>2. \A n \in DOMAIN hist : DOMAIN hist[n] = {} BY DEF Init
<1>3. (\A p : ~Spent(p)) /\ ~LostBefore BY <1>2 DEF Spent, LostBefore
<1>4. DOMAIN rec = {} BY DEF Init
<1>5. ~LostIn(rec) /\ \A c, p : ~RefusedIn(c, rec, p) BY <1>4 DEF LostIn, RefusedIn
<1>6. restarts <= 1 /\ (restarts = 0 => \A p \in Profiles : token[p] # "dead") BY DEF Init
<1>7. \A p \in Profiles : check[p].stage = "none" /\ early[p] = 0 BY DEF Init, NoCheck
<1>8. BeforeCheck BY <1>3, <1>4, <1>5, <1>6, <1>7 DEF BeforeCheck
<1> QED BY <1>7, <1>8 DEF Init, Restarted

\* Every step of a gate over a healthy backend keeps it.
LEMMA StepRestarted ==
  ASSUME Rare, Typed, Healthy => Restarted, [Next]_vars
  PROVE  (Healthy => Restarted)'
<1>1. scn' = scn
  BY Kinds, CallAppends, AttemptEnds DEF Elsewhere, Stop, Start, LastChain, Exit, vars,
     Probing, HoldFirst, ProbeFirst, ProbeHalf, ProbeFull
<1> SUFFICES ASSUME Healthy, Restarted PROVE Restarted'
  BY <1>1 DEF Healthy
<1>2. CASE Call
  <2>1. phase = "steps" BY <1>2, CallAppends DEF Running
  <2> QED BY <1>2, <2>1, CallRestarted
<1>3. CASE Stop BY <1>3, StopRestarted
<1>4. CASE AnAttempt BY <1>4, AttemptRestarted
<1>5. CASE LastChain BY <1>5, LastChainRestarted
<1>6. CASE Probing BY <1>6, ProbingRestarted
<1>7. CASE Start \/ UNCHANGED vars
  <2>1. UNCHANGED <<scn, token, restarts, ci, rec, hist, early, causes, check, phase>>
    BY <1>7 DEF Start, vars, backend, attempt, verdicts
  <2>2. (\A p : Spent(p)' = Spent(p)) /\ LostBefore' = LostBefore /\ Chain' = Chain
    BY <2>1 DEF Spent, LostBefore, Chain
  <2>3. BeforeCheck' = BeforeCheck /\ InCheck' = InCheck
    BY <2>1, <2>2 DEF BeforeCheck, InCheck, LostIn, RefusedIn
  <2> QED BY <2>1, <2>2, <2>3 DEF Restarted
<1>8. CASE Exit
  <2>1. /\ phase = "check" /\ phase' = "done" /\ UNCHANGED <<scn, restarts, hist, early, check>>
        /\ causes' = causes \cup IF \E p \in Profiles : early[p] > 1 THEN {"early"} ELSE {}
    BY <1>8 DEF Exit, backend
  <2>2. \A p \in Profiles : ~(early[p] > 1) BY DEF Restarted
  <2>3. causes' = {} BY <2>1, <2>2 DEF Restarted
  <2>4. InCheck' BY <2>1 DEF Restarted, InCheck
  <2>5. \A p : Spent(p)' = Spent(p) BY <2>1 DEF Spent
  <2> QED BY <2>1, <2>3, <2>4, <2>5 DEF Restarted
<1> QED BY <1>2, <1>3, <1>4, <1>5, <1>6, <1>7, <1>8, Kinds

\* A restart of a healthy backend, at any moment, and another while the gate
\* holds tokens, are never called a finding: by verify, by run or by the gate.
THEOREM RestartIsNone ==
  ASSUME Rare
  PROVE  Spec => []RestartIsNoFinding
<1>1. Init => Typed /\ (Healthy => Restarted) BY InitTyped, InitRestarted
<1>2. Typed /\ (Healthy => Restarted) /\ [Next]_vars => Typed' /\ (Healthy => Restarted)'
  BY StepTyped, StepRestarted
<1>3. (Healthy => Restarted) => RestartIsNoFinding
  BY DEF Restarted, RestartIsNoFinding
<1> QED BY <1>1, <1>2, <1>3, PTL DEF Spec

(***************************************************************************)
(* A gate that passes                                                      *)
(***************************************************************************)
\* The backend answers a step of the first chain otherwise.
Defective == scn.defect.kind \in {"auth", "drop", "wrong"}

\* How that step ends: never as in the safe spot, and with success only when
\* another value is answered and nothing is asserted of it.
Marred(e) ==
  e.answer # "ok" /\ (e.status = "passed" => scn.defect.kind = "wrong" /\ ~FirstChain[At].asserts)

Green ==
  /\ Defective /\ ci = 1 => \A i \in DOMAIN rec : i = At => Marred(rec[i])
  /\ what = "run" => \A i \in DOMAIN rec : i # Len(rec) => rec[i].status = "passed"
  /\ Defective /\ ci = 1 /\ what = "run" /\ scn.suite[1].spot => failed \/ unverified
  /\ Defective /\ Visible /\ (ci # 1 \/ phase # "steps") => failed \/ unverified
  /\ exit # -1 => phase = "done" /\ (exit = 0 => ~failed /\ ~unverified)

\* A call of the step with the defect.
LEMMA MarredCall ==
  ASSUME Typed, Defective, ci = 1, Call, Len(rec) + 1 = At, NEW e \in Entries, rec' = Append(rec, e)
  PROVE  Marred(e)
<1>r. rec \in Seq(Entries) BY OnFile
<1>n. ASSUME NEW x, rec' = Append(rec, x) PROVE e = x BY <1>n, <1>r, SameEntry
<1>s. Step = FirstChain[At] BY DEF Step, Chain, FirstChain
<1>d. Defect(scn.defect.kind, Len(rec) + 1) /\ \A k : Defect(k, Len(rec) + 1) => k = scn.defect.kind
  BY DEF Defect, At
<1>a. Marred(Entry(StatusOf(Answer), Answer)) \/ scn.defect.kind = "auth"
  BY <1>d, <1>s DEF Answer, StatusOf, Entry, Marred, Defective
<1>1. CASE Skip BY <1>1, <1>n DEF Skip, Entry, Marred
<1>2. CASE Unreachable BY <1>2, <1>n DEF Unreachable, Entry, Marred
<1>3. CASE CutOff
  <2>1. e = Entry("error", "lost") BY <1>3, <1>n DEF CutOff
  <2> QED BY <2>1 DEF Entry, Marred
<1>4. CASE Accepted
  <2>1. scn.defect.kind # "auth" BY <1>4, <1>d DEF Accepted, Accepts
  <2>2. e = Entry(StatusOf(Answer), Answer) BY <1>4, <1>n DEF Accepted
  <2> QED BY <1>a, <2>1, <2>2
<1>5. CASE RefusedNotResent
  <2>1. e.answer = "unauth" /\ e.status = "error" BY <1>5, <1>n DEF RefusedNotResent
  <2> QED BY <2>1 DEF Marred
<1>6. ASSUME NEW restart \in BOOLEAN, RefusedResent(restart) PROVE Marred(e)
  <2>1. \/ e.answer = "unauth" /\ e.status = StatusOf("unauth")
        \/ scn.defect.kind # "auth" /\ e.answer = Answer /\ e.status = StatusOf(Answer)
    BY <1>6, <1>d, <1>n DEF RefusedResent
  <2> QED BY <1>a, <2>1 DEF Marred, Entry, StatusOf
<1> QED BY <1>1, <1>2, <1>3, <1>4, <1>5, <1>6 DEF Call

\* The attempts of the first chain end with success only in a run in which
\* nothing is asserted of the value that differs.
LEMMA FirstChainGreen ==
  ASSUME Typed, Green, Defective, ci = 1, Complete, Outcome.code = 0
  PROVE  what = "run" /\ scn.defect.kind = "wrong" /\ ~FirstChain[At].asserts
<1>1. /\ rec \in Seq(Entries) /\ Len(rec) \in Nat /\ Len(Chain) \in Nat /\ Chain # <<>> /\ Chain \in Seq(Range(Chain))
      /\ At \in 1 .. Len(Chain) /\ Len(rec) <= Len(Chain)
  <2>1. At \in DOMAIN Chain BY Chains DEF Shape, Defective, At, Chain
  <2>2. rec \in Records(Chain) BY DEF Typed
  <2> QED BY <2>1, <2>2, Chains, OnFile DEF Records
<1>2. ASSUME Len(rec) = Len(Chain) PROVE At \in DOMAIN rec /\ Marred(rec[At])
  BY <1>1, <1>2 DEF Green
<1>3. CASE what = "verify"
  <2>1. CleanReport(Chain, rec) BY <1>3 DEF Outcome, Verdict, Verify
  <2> QED BY <1>2, <2>1 DEF CleanReport, Marred
<1>4. CASE what = "run"
  <2>1. Last(rec).status = "passed" BY <1>4 DEF Outcome, Verdict, Run
  <2>2. \A i \in DOMAIN rec : rec[i].status = "passed" BY <1>1, <1>4, <2>1 DEF Green, Last
  <2>3. Len(rec) = Len(Chain) BY <1>1, <1>4, <2>2 DEF Complete, Running
  <2> QED BY <1>2, <1>4, <2>2, <2>3 DEF Marred
<1> QED BY <1>3, <1>4 DEF Typed

\* The last attempt of the first chain: green only when the defect cannot be seen.
LEMMA FirstChainEnds ==
  ASSUME Typed, Green, Defective, ci = 1, Complete, Absorb
  PROVE  /\ Visible => failed' \/ unverified'
         /\ what = "verify" => failed' \/ unverified'
<1>1. Outcome.code \in {0, 1, 3} BY DEF Outcome, Verdict, Verify, Run
<1>2. (Outcome.code = 1 => failed') /\ (Outcome.code = 3 => unverified')
      /\ (failed => failed') /\ (unverified => unverified')
  BY DEF Absorb
<1>3. CASE Outcome.code = 0
  <2>1. what = "run" /\ scn.defect.kind = "wrong" /\ ~FirstChain[At].asserts BY <1>3, FirstChainGreen
  <2>2. Visible => scn.suite[1].spot BY <2>1 DEF Visible, ShortLived
  <2> QED BY <1>2, <2>1, <2>2 DEF Green
<1> QED BY <1>1, <1>2, <1>3

\* Before the gate there is no verdict.
LEMMA InitGreen == Init => Green
<1> SUFFICES ASSUME Init PROVE Green OBVIOUS
<1>1. DOMAIN rec = {} BY DEF Init
<1>2. what = "run" => ~scn.suite[1].spot BY DEF Init
<1> QED BY <1>1, <1>2 DEF Init, Green

\* Every step of a gate keeps it.
LEMMA StepGreen ==
  ASSUME Typed, Green, [Next]_vars
  PROVE  Green'
<1>1. CASE Call
  <2>1. UNCHANGED Elsewhere /\ Running BY <1>1, CallAppends
  <2>2. PICK e \in Entries : rec' = Append(rec, e) BY <1>1, CallAppends
  <2>3. rec \in Seq(Entries) BY OnFile
  <2>4. /\ Len(rec) \in Nat /\ DOMAIN rec = 1 .. Len(rec) /\ DOMAIN rec' = 1 .. Len(rec) + 1 /\ Len(rec') = Len(rec) + 1
        /\ rec'[Len(rec) + 1] = e /\ \A i \in DOMAIN rec : rec'[i] = rec[i]
    BY <2>2, <2>3
  <2>5. /\ UNCHANGED <<scn, ci, what, phase, exit, failed, unverified>> /\ At' = At /\ FirstChain' = FirstChain
        /\ Defective' = Defective /\ Visible' = Visible
    BY <2>1 DEF Elsewhere, verdicts, At, FirstChain, Defective, Visible, ShortLived
  <2>6. ASSUME Defective, ci = 1, NEW i \in DOMAIN rec', i = At PROVE Marred(rec'[i])
    <3>1. CASE i \in DOMAIN rec BY <2>4, <2>6, <3>1 DEF Green
    <3>2. CASE i = Len(rec) + 1 BY <1>1, <2>2, <2>4, <2>6, <3>2, MarredCall
    <3> QED BY <2>4, <3>1, <3>2
  <2>7. ASSUME what = "run", NEW i \in DOMAIN rec', i # Len(rec') PROVE rec'[i].status = "passed"
    <3>1. i \in DOMAIN rec BY <2>4, <2>7
    <3> QED BY <2>1, <2>4, <2>7, <3>1 DEF Running
  <2>8. /\ Defective /\ ci = 1 => \A i \in DOMAIN rec' : i = At => Marred(rec'[i])
        /\ what = "run" => \A i \in DOMAIN rec' : i # Len(rec') => rec'[i].status = "passed"
    BY <2>5, <2>6, <2>7
  <2> QED BY <2>5, <2>8 DEF Green, Marred
<1>2. CASE Stop \/ Start \/ UNCHANGED vars
  <2>1. UNCHANGED <<scn, ci, what, rec, phase, exit, failed, unverified>>
    BY <1>2 DEF Stop, Start, vars, attempt, verdicts
  <2> QED BY <2>1 DEF Green, Marred, At, FirstChain, Defective, Visible, ShortLived
<1>3. CASE AnAttempt
  <2>1. /\ Complete /\ UNCHANGED <<scn, exit>> /\ rec' = <<>> /\ phase' = "steps" /\ phase = "steps"
        /\ (Retry /\ UNCHANGED verdicts) \/ Absorb
    BY <1>3, AttemptEnds DEF Complete
  <2>2. DOMAIN rec' = {} BY <2>1
  <2>3. At' = At /\ FirstChain' = FirstChain /\ Defective' = Defective /\ Visible' = Visible
    BY <2>1 DEF At, FirstChain, Defective, Visible, ShortLived
  <2>4. exit = -1 BY <2>1 DEF Green
  <2>5. (failed \/ unverified) => failed' \/ unverified'
    BY <2>1 DEF verdicts, Absorb
  <2>6. CASE Retry
    <3>1. ci' = ci /\ what' = what BY <2>6 DEF Retry, Begin
    <3> QED BY <2>1, <2>2, <2>3, <2>4, <2>5, <3>1 DEF Green
  <2>7. CASE RunToo
    <3>1. ci' = ci /\ what = "verify" /\ Absorb BY <2>7 DEF RunToo, Begin
    <3>2. Defective /\ ci = 1 => failed' \/ unverified' BY <2>1, <3>1, FirstChainEnds
    <3> QED BY <2>1, <2>2, <2>3, <2>4, <2>5, <3>1, <3>2 DEF Green
  <2>8. CASE NextChain
    <3>1. ci' = ci + 1 /\ ci \in Nat /\ ci # 0 /\ Absorb
      BY <2>8, Chains DEF NextChain, Begin
    <3>2. Defective /\ Visible => failed' \/ unverified'
      BY <2>1, <2>5, <3>1, FirstChainEnds DEF Green
    <3> QED BY <2>1, <2>2, <2>3, <2>4, <3>1, <3>2 DEF Green
  <2> QED BY <1>3, <2>6, <2>7, <2>8 DEF AnAttempt
<1>4. CASE LastChain
  <2>1. Complete /\ Absorb /\ phase' = "check" /\ UNCHANGED <<scn, attempt, exit>> /\ phase = "steps"
    BY <1>4 DEF LastChain, Done, Final, Complete
  <2>2. At' = At /\ FirstChain' = FirstChain /\ Defective' = Defective /\ Visible' = Visible
    BY <2>1 DEF At, FirstChain, Defective, Visible, ShortLived
  <2>3. (failed \/ unverified) => failed' \/ unverified' BY <2>1 DEF Absorb
  <2>4. Defective /\ Visible => failed' \/ unverified'
    BY <2>1, <2>3, FirstChainEnds DEF Green
  <2> QED BY <2>1, <2>2, <2>3, <2>4 DEF Green, Marred, attempt
<1>5. CASE Probing
  <2>1. UNCHANGED <<scn, ci, what, rec, phase, exit, failed, unverified>>
    BY <1>5 DEF Probing, HoldFirst, ProbeFirst, ProbeHalf, ProbeFull, attempt, verdicts
  <2> QED BY <2>1 DEF Green, Marred, At, FirstChain, Defective, Visible, ShortLived
<1>6. CASE Exit
  <2>1. /\ UNCHANGED <<scn, ci, what, rec, failed, unverified>> /\ phase' = "done" /\ phase = "check"
        /\ exit' = 0 => ~failed /\ ~unverified
    BY <1>6 DEF Exit, attempt
  <2> QED BY <2>1 DEF Green, Marred, At, FirstChain, Defective, Visible, ShortLived
<1> QED BY <1>1, <1>2, <1>3, <1>4, <1>5, <1>6, Kinds

(***************************************************************************)
(* A restart is no regression                                              *)
(***************************************************************************)
OneProfile == \A i \in DOMAIN Chain : Chain[i].profile = Chain[1].profile
Mine == Chain[1].profile
Steady == phase = "steps" /\ Healthy /\ ~scn.stated /\ OneProfile

\* A refused token that was accepted earlier in the run.
NoticedAt(c, r, i) == r[i].retry # "no" /\ AcceptedBefore(c, r, i)

\* How a step of a healthy backend can end.
Ends(st) ==
  /\ \/ st.answer = "ok" /\ st.status = "passed"
     \/ st.answer = "gone" /\ st.status = "failed"
     \/ st.answer \in {"unauth", "lost", "unsent"} /\ st.status = "error"
     \/ st.answer = "none" /\ st.status = "skipped"
  /\ \A x \in st.refused : ~x.early

\* All went well before step k.
CalmBefore(r, k) == \A i \in DOMAIN r : i < k => r[i].answer = "ok"

\* What was written is there, or the refused token that shows the restart is on
\* record, or will be at the next call: so the first change is at or after it.
Undisturbed ==
  /\ \A k \in DOMAIN rec : Ends(rec[k]) /\ (rec[k].answer = "none" => ~CalmBefore(rec, k))
  /\ CalmBefore(rec, Len(rec) + 1) =>
       /\ rec # <<>> => token[Mine] # "none"
       /\ \A r \in DOMAIN rec : ~Chain[r].read /\ r \notin data =>
            rec[r].retry = "no" /\ (token[Mine] = "dead" \/ \E i \in DOMAIN rec : NoticedAt(Chain, rec, i))
  /\ \A k \in DOMAIN rec : rec[k].answer = "gone" /\ CalmBefore(rec, k) =>
       \E i \in DOMAIN rec : i <= k /\ NoticedAt(Chain, rec, i)

\* The effect of a call, of which it matters how it ended and whether the token
\* was refused.
Fine(e) ==
  /\ e.answer = "ok" /\ e.status = "passed" /\ token'[Mine] = "good" /\ (e.retry = "no" => token[Mine] # "dead")
  /\ data' = IF Step.read THEN data ELSE data \cup {Len(rec) + 1}
Lacks(e) ==
  /\ e.answer = "gone" /\ e.status = "failed" /\ (e.retry = "no" => token[Mine] # "dead")
  /\ \E r \in Step.reads : r \notin data /\ rec[r].status = "passed"
Fails(e) == e.status = "error" /\ e.answer \in {"unauth", "lost", "unsent"}
Omitted(e) == e.status = "skipped" /\ e.answer = "none" /\ \E i \in DOMAIN rec : rec[i].status # "passed"

\* What a call can end in for a chain of one profile on a healthy backend.
LEMMA SteadyCall ==
  ASSUME Rare, Typed, Restarted, Steady, Undisturbed, Call
  PROVE  \E e \in Entries : /\ rec' = Append(rec, e) /\ (Fine(e) \/ Lacks(e) \/ Fails(e) \/ Omitted(e))
                            /\ \A x \in e.refused : ~x.early
<1>p. Running /\ Step.profile = Mine /\ Mine \in Profiles /\ Step.reads \subseteq DOMAIN rec
  <2>1. Running BY CallAppends
  <2>2. Len(rec) + 1 \in DOMAIN Chain
    BY <2>1, StepToCome, Chains
  <2>3. Step.profile = Mine BY <2>2 DEF Steady, OneProfile, Step, Mine
  <2> QED BY <2>1, <2>3, StepToCome, OnFile
<1>e. PICK e \in Entries : rec' = Append(rec, e) BY CallAppends
<1>r. rec \in Seq(Entries) BY OnFile
<1>u. \A i \in DOMAIN rec : Ends(rec[i]) BY DEF Undisturbed
<1>h. Healthy /\ \A k \in {"auth", "drop", "wrong"} : \A n : ~Defect(k, n)
  BY DEF Steady, Healthy, Defect
<1>t. token \in [Profiles -> Tokens] /\ MaxRestarts \in Nat /\ restarts \in Nat /\ BeforeCheck
  BY ScenariosAssumption DEF Typed, Steady, Restarted
<1>n. ASSUME NEW x, rec' = Append(rec, x) PROVE e = x
  BY <1>e, <1>n, <1>r, SameEntry
<1>s. scn.stated = FALSE BY Chains DEF Shape, Steady
<1>a. Answer = IF Step.reads \subseteq data THEN "ok" ELSE "gone"
  BY <1>h DEF Answer
<1>b. ASSUME Sending PROVE \A r \in Step.reads : rec[r].status = "passed"
  BY <1>b, <1>p DEF Sending, Running, Behind, Typed
<1>1. CASE Skip
  <2>1. e = Entry("skipped", "none") BY <1>1, <1>n DEF Skip
  <2>2. \E i \in DOMAIN rec : rec[i].status # "passed"
    <3>1. CASE Behind BY <1>p, <3>1 DEF Behind
    <3>2. CASE Unreached
      <4>1. PICK i \in DOMAIN rec : rec[i].answer = "unsent" BY <3>2 DEF Unreached
      <4>2. rec[i].status # "passed" BY <4>1, <1>u DEF Ends
      <4> QED BY <4>2
    <3> QED BY <1>1, <3>1, <3>2 DEF Skip
  <2> QED BY <1>e, <2>1, <2>2 DEF Omitted, Entry
<1>2. CASE Unreachable
  <2>1. e = Entry("error", "unsent") BY <1>2, <1>n DEF Unreachable
  <2> QED BY <1>e, <2>1 DEF Fails, Entry
<1>3. CASE CutOff
  <2>1. e = Entry("error", "lost") BY <1>3, <1>n DEF CutOff
  <2> QED BY <1>e, <2>1 DEF Fails, Entry
<1>4. CASE Accepted
  <2>1. token[Mine] # "dead" /\ Sending BY <1>4, <1>p DEF Accepted, Accepts
  <2>2. token'[Mine] = "good" /\ data' = Written(Answer)
    BY <1>4, <1>p, <1>t, <1>h DEF Accepted, Used, Healthy, ShortLived
  <2>3. e = Entry(StatusOf(Answer), Answer) BY <1>4, <1>n DEF Accepted
  <2>4. CASE Answer = "ok"
    <3>1. Fine(e) BY <2>1, <2>2, <2>3, <2>4 DEF Fine, Entry, StatusOf, Written
    <3> QED BY <1>e, <2>3, <3>1 DEF Entry
  <2>5. CASE Answer = "gone"
    <3>1. \E r \in Step.reads : r \notin data BY <1>a, <2>5
    <3>2. Lacks(e) BY <1>b, <2>1, <2>3, <2>5, <3>1 DEF Lacks, Entry, StatusOf
    <3> QED BY <1>e, <2>3, <3>2 DEF Entry
  <2> QED BY <1>a, <2>4, <2>5
<1>5. CASE RefusedNotResent
  <2>1. e.answer = "unauth" /\ e.status = "error" /\ e.refused = {Refusal} BY <1>5, <1>n DEF RefusedNotResent
  <2>2. ~Refusal.early BY <1>s DEF Refusal
  <2> QED BY <1>e, <2>1, <2>2 DEF Fails
<1>6. ASSUME NEW restart \in BOOLEAN, RefusedResent(restart)
      PROVE  (Fine(e) \/ Lacks(e)) /\ \A x \in e.refused : ~x.early
  <2>1. token[Mine] = "dead" /\ Sending BY <1>6, <1>h, <1>p DEF RefusedResent, Accepts
  <2>2. restarts = 1 BY <1>p, <1>t, <2>1 DEF BeforeCheck
  <2>3. ~restart BY <1>6, <2>2, <1>t DEF RefusedResent, Wiped, Rare, Steady
  <2>4. e.retry = "resent" /\ e.answer = Answer /\ e.status = StatusOf(Answer) /\ e.refused = {Refusal} \cup {}
    BY <1>6, <1>h, <1>n, <2>3 DEF RefusedResent
  <2>5. token'[Mine] = "good" /\ data' = Written(Answer)
    BY <1>6, <1>h, <1>p, <1>t, <2>3 DEF RefusedResent, Used, Healthy, ShortLived
  <2>6. \A x \in e.refused : ~x.early
    <3>1. ~Refusal.early BY <1>s DEF Refusal
    <3> QED BY <2>4, <3>1
  <2>7. CASE Answer = "ok" BY <2>4, <2>5, <2>6, <2>7 DEF Fine, StatusOf, Written
  <2>8. CASE Answer = "gone"
    <3>1. \E r \in Step.reads : r \notin data BY <1>a, <2>8
    <3> QED BY <1>b, <2>1, <2>4, <2>6, <2>8, <3>1 DEF Lacks, StatusOf
  <2> QED BY <1>a, <2>7, <2>8
<1> QED BY <1>1, <1>2, <1>3, <1>4, <1>5, <1>6, <1>e DEF Call

\* A call leaves the record undisturbed.
LEMMA CallUndisturbed ==
  ASSUME Rare, Typed, Restarted, Steady, Undisturbed, Call
  PROVE  Undisturbed'
<1>1. PICK e \in Entries : /\ rec' = Append(rec, e) /\ (Fine(e) \/ Lacks(e) \/ Fails(e) \/ Omitted(e))
                           /\ \A x \in e.refused : ~x.early
  BY SteadyCall
<1>2. UNCHANGED Elsewhere /\ Running BY CallAppends
<1>3. Chain' = Chain /\ Mine' = Mine BY <1>2 DEF Elsewhere, Chain, Mine
<1>4. rec \in Seq(Entries) BY OnFile
<1> DEFINE k == Len(rec) + 1
<1>5. /\ DOMAIN rec' = 1 .. k /\ DOMAIN rec = 1 .. Len(rec) /\ Len(rec) \in Nat /\ Len(rec') = k /\ k \in Nat
      /\ rec'[k] = e /\ \A i \in DOMAIN rec : rec'[i] = rec[i] /\ i < k
  BY <1>1, <1>4
<1>6. \A i : i \in DOMAIN rec' <=> i \in DOMAIN rec \/ i = k BY <1>5
<1>7. k \in DOMAIN Chain /\ Step = Chain[k] /\ Step.profile = Mine
      /\ \A r \in Step.reads : r \in DOMAIN rec /\ ~Chain[r].read
  <2>1. k \in 1 .. Len(Chain) /\ Step = Chain[k] /\ Step.reads \subseteq 1 .. Len(rec)
    BY <1>2, StepToCome DEF Step
  <2>2. k \in DOMAIN Chain /\ \A r \in Chain[k].reads : ~Chain[r].read BY <2>1, Chains
  <2> QED BY <1>5, <2>1, <2>2 DEF Steady, OneProfile, Mine
<1>8. \A i \in DOMAIN rec : Chain[i].profile = Mine
  <2>1. DOMAIN rec \subseteq DOMAIN Chain BY OnFile, Chains
  <2> QED BY <2>1 DEF Steady, OneProfile, Mine
<1>9. \A i \in DOMAIN rec : AcceptedBefore(Chain, rec', i) <=> AcceptedBefore(Chain, rec, i)
  <2>1. \A i \in DOMAIN rec : \A j \in 1 .. (i - 1) : j \in DOMAIN rec BY <1>5
  <2> QED BY <1>5, <2>1 DEF AcceptedBefore
<1>10. \A i \in DOMAIN rec : NoticedAt(Chain, rec', i) <=> NoticedAt(Chain, rec, i)
  BY <1>5, <1>9 DEF NoticedAt
<1>11. ASSUME NEW r \in DOMAIN rec, rec[r].retry = "no", rec[r].answer = "ok", e.retry # "no"
       PROVE  NoticedAt(Chain, rec', k)
  <2>1. r \in 1 .. (k - 1) BY <1>5
  <2> QED BY <1>5, <1>7, <1>8, <1>11, <2>1 DEF NoticedAt, AcceptedBefore, Answered
<1> DEFINE calm == CalmBefore(rec, k)
<1>12. \A i \in DOMAIN rec : CalmBefore(rec', i) <=> CalmBefore(rec, i)
  BY <1>5, <1>6 DEF CalmBefore
<1>13. (CalmBefore(rec', k) <=> calm) /\ (CalmBefore(rec', k + 1) <=> calm /\ e.answer = "ok")
  BY <1>5, <1>6 DEF CalmBefore
<1>14. \A i \in DOMAIN rec : Ends(rec[i]) /\ (rec[i].answer = "none" => ~CalmBefore(rec, i))
  BY DEF Undisturbed
<1>15. calm => \A i \in DOMAIN rec : rec[i].answer = "ok" /\ rec[i].status = "passed"
  BY <1>5, <1>14 DEF CalmBefore, Ends
<1>16. calm => /\ rec # <<>> => token[Mine] # "none"
               /\ \A r \in DOMAIN rec : ~Chain[r].read /\ r \notin data =>
                    rec[r].retry = "no" /\ (token[Mine] = "dead" \/ \E i \in DOMAIN rec : NoticedAt(Chain, rec, i))
  BY DEF Undisturbed
<1> HIDE DEF k, calm
<1>17. Ends(e) /\ (e.answer = "none" => ~calm)
  BY <1>1, <1>15 DEF Ends, Fine, Lacks, Fails, Omitted
<1>18. \A i \in DOMAIN rec' : Ends(rec'[i]) /\ (rec'[i].answer = "none" => ~CalmBefore(rec', i))
  BY <1>5, <1>6, <1>12, <1>13, <1>14, <1>17
<1>19. ASSUME calm, e.answer = "ok"
       PROVE  /\ token'[Mine] # "none"
              /\ \A r \in DOMAIN rec' : ~Chain[r].read /\ r \notin data' =>
                   rec'[r].retry = "no" /\ \E i \in DOMAIN rec' : NoticedAt(Chain, rec', i)
  <2>1. Fine(e) BY <1>1, <1>19 DEF Fine, Lacks, Fails, Omitted
  <2>2. token'[Mine] = "good" /\ (e.retry = "no" => token[Mine] # "dead")
        /\ data \subseteq data' /\ (~Chain[k].read => k \in data')
    BY <1>7, <2>1 DEF Fine, k
  <2>3. ASSUME NEW r \in DOMAIN rec', ~Chain[r].read, r \notin data'
        PROVE  rec'[r].retry = "no" /\ \E i \in DOMAIN rec' : NoticedAt(Chain, rec', i)
    <3>1. r \in DOMAIN rec /\ r \notin data BY <1>6, <2>2, <2>3
    <3>2. rec[r].retry = "no" /\ rec[r].answer = "ok"
          /\ (token[Mine] = "dead" \/ \E i \in DOMAIN rec : NoticedAt(Chain, rec, i))
      BY <1>15, <1>16, <1>19, <2>3, <3>1
    <3>3. CASE e.retry # "no" BY <1>5, <1>6, <1>11, <3>1, <3>2, <3>3
    <3>4. CASE e.retry = "no" BY <1>5, <1>6, <1>10, <2>2, <3>1, <3>2, <3>4
    <3> QED BY <3>3, <3>4
  <2> QED BY <2>2, <2>3
<1>20. ASSUME calm, e.answer = "gone" PROVE \E i \in DOMAIN rec' : i <= k /\ NoticedAt(Chain, rec', i)
  <2>1. Lacks(e) BY <1>1, <1>20 DEF Fine, Lacks, Fails, Omitted
  <2>2. PICK r \in Step.reads : r \notin data BY <2>1 DEF Lacks
  <2>3. r \in DOMAIN rec /\ ~Chain[r].read BY <1>7, <2>2
  <2>4. rec[r].retry = "no" /\ rec[r].answer = "ok"
        /\ (token[Mine] = "dead" \/ \E i \in DOMAIN rec : NoticedAt(Chain, rec, i))
    BY <1>15, <1>16, <1>20, <2>2, <2>3
  <2>5. CASE e.retry # "no" BY <1>5, <1>6, <1>11, <2>3, <2>4, <2>5
  <2>6. CASE e.retry = "no"
    <3>1. PICK i \in DOMAIN rec : NoticedAt(Chain, rec, i) BY <2>1, <2>4, <2>6 DEF Lacks
    <3> QED BY <1>5, <1>6, <1>10, <3>1
  <2> QED BY <2>5, <2>6
<1>21. \A n \in DOMAIN rec' : rec'[n].answer = "gone" /\ CalmBefore(rec', n) =>
         \E i \in DOMAIN rec' : i <= n /\ NoticedAt(Chain, rec', i)
  <2>1. ASSUME NEW n \in DOMAIN rec, rec'[n].answer = "gone", CalmBefore(rec', n)
        PROVE  \E i \in DOMAIN rec' : i <= n /\ NoticedAt(Chain, rec', i)
    <3>1. PICK i \in DOMAIN rec : i <= n /\ NoticedAt(Chain, rec, i)
      BY <1>5, <1>12, <2>1 DEF Undisturbed
    <3> QED BY <1>6, <1>10, <3>1
  <2> QED BY <1>5, <1>6, <1>13, <1>20, <2>1
<1>22. CalmBefore(rec', Len(rec') + 1) => calm /\ e.answer = "ok" BY <1>5, <1>13
<1>23. /\ CalmBefore(rec, Len(rec) + 1)' <=> CalmBefore(rec', Len(rec') + 1)
       /\ \A n : CalmBefore(rec, n)' <=> CalmBefore(rec', n)
       /\ \A n : NoticedAt(Chain, rec, n)' <=> NoticedAt(Chain, rec', n)
  BY <1>3 DEF CalmBefore, NoticedAt, AcceptedBefore
<1> QED BY <1>3, <1>18, <1>19, <1>21, <1>22, <1>23 DEF Undisturbed

\* What was written before a restart is missed at a call whose token is dead.
LEMMA StopUndisturbed ==
  ASSUME Rare, Typed, Restarted, Steady, Undisturbed, Stop
  PROVE  Undisturbed'
<1>1. /\ UNCHANGED <<scn, attempt>> /\ token' = Dead(token) /\ restarts < MaxRestarts + 0
  BY DEF Stop, Wiped, Steady
<1>2. BeforeCheck /\ restarts = 0
  BY <1>1, ScenariosAssumption DEF Steady, Restarted, Rare, Typed
<1>3. DOMAIN rec \subseteq DOMAIN Chain /\ 1 \in DOMAIN Chain /\ \A i \in DOMAIN Chain : Chain[i].profile \in Profiles
  <2>1. DOMAIN rec \subseteq 1 .. Len(Chain) BY OnFile
  <2>2. DOMAIN Chain = 1 .. Len(Chain) /\ 1 \in DOMAIN Chain BY Chains
  <2>3. \A i \in 1 .. Len(Chain) : Chain[i].profile \in Profiles BY Chains
  <2> QED BY <2>1, <2>2, <2>3
<1>4. \A i \in DOMAIN rec : rec[i].retry = "no"
  <2>1. ASSUME NEW i \in DOMAIN rec, rec[i].retry # "no" PROVE FALSE
    <3>1. RefusedIn(Chain, rec, Chain[i].profile) BY <2>1 DEF RefusedIn
    <3> QED BY <1>2, <1>3, <3>1 DEF BeforeCheck
  <2> QED BY <2>1
<1>5. Mine \in Profiles BY <1>3 DEF Mine
<1>6. token[Mine] # "none" => token'[Mine] = "dead"
  BY <1>1, <1>5 DEF Dead, Typed, Tokens
<1>7. rec' = rec /\ Chain' = Chain /\ Mine' = Mine BY <1>1 DEF attempt, Chain, Mine
<1>8. rec = <<>> => DOMAIN rec = {} OBVIOUS
<1>9. CalmBefore(rec, Len(rec) + 1) =>
        /\ rec # <<>> => token'[Mine] # "none"
        /\ \A r \in DOMAIN rec : rec[r].retry = "no" /\ token'[Mine] = "dead"
  BY <1>4, <1>6, <1>8 DEF Undisturbed
<1>10. /\ CalmBefore(rec, Len(rec) + 1)' <=> CalmBefore(rec, Len(rec) + 1)
       /\ \A n : CalmBefore(rec, n)' <=> CalmBefore(rec, n)
       /\ \A n : NoticedAt(Chain, rec, n)' <=> NoticedAt(Chain, rec, n)
  BY <1>7 DEF CalmBefore, NoticedAt, AcceptedBefore
<1> QED BY <1>7, <1>9, <1>10 DEF Undisturbed

\* Before the first call nothing is written.
LEMMA InitUndisturbed == Init => (Steady => Undisturbed)
<1> SUFFICES ASSUME Init PROVE Undisturbed OBVIOUS
<1>1. rec = <<>> /\ DOMAIN rec = {} BY DEF Init
<1> QED BY <1>1 DEF Undisturbed

\* Every step of a gate keeps it.
LEMMA StepUndisturbed ==
  ASSUME Rare, Typed, Healthy => Restarted, Steady => Undisturbed, [Next]_vars
  PROVE  (Steady => Undisturbed)'
<1>1. CASE Call
  <2>1. UNCHANGED Elsewhere BY <1>1, CallAppends
  <2>2. Steady' = Steady BY <2>1 DEF Elsewhere, Steady, Healthy, OneProfile, Chain
  <2> QED BY <1>1, <2>2, CallUndisturbed DEF Steady
<1>2. CASE Stop
  <2>1. UNCHANGED <<scn, attempt, phase>> BY <1>2 DEF Stop
  <2>2. Steady' = Steady BY <2>1 DEF attempt, Steady, Healthy, OneProfile, Chain
  <2> QED BY <1>2, <2>2, StopUndisturbed DEF Steady
<1>3. CASE Start \/ UNCHANGED vars
  <2>1. UNCHANGED <<scn, data, token, attempt, phase>> BY <1>3 DEF Start, vars, backend
  <2> QED BY <2>1 DEF attempt, Steady, Healthy, OneProfile, Chain, Undisturbed, CalmBefore, NoticedAt, AcceptedBefore, Mine, Ends
<1>4. CASE AnAttempt
  <2>1. rec' = <<>> /\ DOMAIN rec' = {} BY <1>4, AttemptEnds
  <2> QED BY <2>1 DEF Undisturbed
<1>5. CASE LastChain \/ Probing \/ Exit
  <2>1. phase' # "steps"
    BY <1>5 DEF LastChain, Probing, HoldFirst, ProbeFirst, ProbeHalf, ProbeFull, Exit
  <2> QED BY <2>1 DEF Steady
<1> QED BY <1>1, <1>2, <1>3, <1>4, <1>5, Kinds

\* Where the first step did not end well, verify either has a finding or does not
\* judge from there on.
LEMMA NotJudgedAfter ==
  ASSUME Typed, Restarted, Steady, Undisturbed, Complete, what = "verify"
  PROVE  Outcome.code # 1
<1> SUFFICES ASSUME Outcome.code = 1 PROVE FALSE OBVIOUS
<1>1. Outcome.cause = "none" /\ ~LossFinding(Chain, rec, hist[ci]) BY NoCause DEF Steady, Restarted
<1>2. /\ ~CleanReport(Chain, rec) /\ UnansweredOnly(rec) = 0
      /\ LossAt(Chain, rec) = 0 \/ DriftedBefore(rec, LossAt(Chain, rec))
  BY <1>1 DEF Outcome, Verdict, Verify
<1>3. rec \in Seq(Entries) /\ Len(rec) = Len(Chain)
  <2>1. rec \in Seq(Entries) /\ Len(rec) \in Nat /\ Len(Chain) \in Nat /\ Len(rec) <= Len(Chain)
    BY OnFile, Chains DEF Typed, Records
  <2> QED BY <2>1 DEF Complete, Running
<1> DEFINE S == {i \in DOMAIN rec : rec[i].answer # "ok"}
           k == Min(S)
<1>4. S # {} BY <1>2, <1>3 DEF CleanReport
<1>5. S \subseteq Nat /\ S \subseteq DOMAIN rec BY <1>3
<1>6. k \in DOMAIN rec /\ rec[k].answer # "ok" /\ \A i \in DOMAIN rec : i < k => rec[i].answer = "ok"
  <2>1. k \in S /\ \A i \in S : k <= i
    <3> HIDE DEF S
    <3> QED BY <1>4, <1>5, MinIsLeast
  <2>2. \A i \in DOMAIN rec : i < k => i \notin S
    <3> HIDE DEF S, k
    <3> QED BY <1>3, <1>5, <2>1
  <2> HIDE DEF k
  <2> QED BY <2>1, <2>2
<1> HIDE DEF S, k
<1>7. CalmBefore(rec, k) /\ \A i \in DOMAIN rec : Ends(rec[i])
  BY <1>6 DEF CalmBefore, Undisturbed
<1>8. k \in Nat /\ k # 0 /\ \A m \in DOMAIN rec : m <= k => ~DriftedBefore(rec, m)
  <2>1. ASSUME NEW m \in DOMAIN rec, m <= k, NEW i \in 1 .. (m - 1) PROVE ~Changed(rec, i)
    <3>1. rec[i].answer = "ok" BY <1>3, <1>6, <2>1
    <3> QED BY <3>1 DEF Changed
  <2>2. k \in Nat /\ k # 0 BY <1>3, <1>6
  <2> QED BY <2>1, <2>2 DEF DriftedBefore
<1>9. CASE rec[k].answer \in {"unauth", "lost", "unsent"}
  <2> DEFINE E == {i \in DOMAIN rec : rec[i].status = "error"}
  <2>1. k \in E BY <1>6, <1>7, <1>9 DEF Ends
  <2>2. E \subseteq Nat /\ \A i \in E : ~(i < k) BY <1>3, <1>6, <1>7 DEF Ends
  <2>3. Min(E) = k
    <3> HIDE DEF E
    <3> DEFINE m == Min(E)
    <3>1. m \in E /\ m <= k BY <2>1, <2>2, MinIsLeast
    <3> HIDE DEF m
    <3>2. m \in Nat /\ ~(m < k) /\ k \in Nat BY <2>1, <2>2, <3>1
    <3>3. m = k BY <3>1, <3>2
    <3> QED BY <3>3 DEF m
  <2>4. E # {} /\ UnansweredOnly(rec) = IF DriftedBefore(rec, Min(E)) THEN 0 ELSE Min(E)
    BY <2>1 DEF UnansweredOnly
  <2> HIDE DEF E
  <2> QED BY <1>2, <1>6, <1>8, <2>3, <2>4
<1>10. CASE rec[k].answer = "gone"
  <2>1. PICK n \in DOMAIN rec : n <= k /\ NoticedAt(Chain, rec, n) BY <1>6, <1>7, <1>10 DEF Undisturbed
  <2> DEFINE L == {i \in DOMAIN rec : rec[i].retry # "no" /\ (RefusedFreshToken(rec[i]) \/ AcceptedBefore(Chain, rec, i))}
  <2>2. n \in L /\ L \subseteq Nat /\ L \subseteq DOMAIN rec BY <1>3, <2>1 DEF NoticedAt
  <2>3. Min(L) \in DOMAIN rec /\ Min(L) <= k
    <3> HIDE DEF L
    <3>1. Min(L) \in L /\ Min(L) <= n BY <2>2, MinIsLeast
    <3> QED BY <1>3, <1>8, <2>1, <2>2, <3>1
  <2>4. rec[Min(L)].answer \in {"ok", "gone"}
    <3> HIDE DEF L
    <3>1. Min(L) < k \/ Min(L) = k BY <1>3, <1>8, <2>3
    <3> QED BY <1>6, <1>10, <2>3, <3>1
  <2>5. ~RefusedFreshToken(rec[Min(L)]) /\ ~RefusedEarly(rec[Min(L)])
    <3> HIDE DEF L
    <3> QED BY <1>7, <2>3, <2>4 DEF Ends, RefusedFreshToken, RefusedEarly
  <2>6. L # {} /\ (LossAt(Chain, rec) = IF RefusedFreshToken(rec[Min(L)]) \/ RefusedEarly(rec[Min(L)]) THEN 0 ELSE Min(L))
    BY <2>2 DEF LossAt
  <2> HIDE DEF L
  <2>7. Min(L) # 0 BY <1>3, <2>3
  <2> QED BY <1>2, <1>8, <2>3, <2>5, <2>6, <2>7
<1>11. rec[k].answer \in {"unauth", "lost", "unsent", "gone"}
  BY <1>6, <1>7 DEF Ends, Undisturbed
<1> QED BY <1>9, <1>10, <1>11

\* verify reports no regression for a restart: the first step that ends otherwise
\* is one that was refused or not answered, or comes after one.
THEOREM RestartIsNotJudged ==
  ASSUME Rare
  PROVE  Spec => []RestartIsNoRegression
<1> DEFINE I == Typed /\ (Healthy => Restarted) /\ (Steady => Undisturbed)
<1>1. Init => I BY InitTyped, InitRestarted, InitUndisturbed
<1>2. I /\ [Next]_vars => I'
  BY StepTyped, StepRestarted, StepUndisturbed
<1>3. I => RestartIsNoRegression
  <2> SUFFICES ASSUME I, Complete, Healthy, what = "verify", ~scn.stated,
                      \A i \in DOMAIN Chain : Chain[i].profile = Chain[1].profile
               PROVE  Outcome.code # 1
    BY DEF RestartIsNoRegression
  <2>1. Steady BY DEF Steady, Complete, OneProfile
  <2> QED BY <2>1, NotJudgedAfter
<1> HIDE DEF I
<1> QED BY <1>1, <1>2, <1>3, PTL DEF Spec

(***************************************************************************)
(* A defect of a backend that does not restart                             *)
(***************************************************************************)
\* The first command that the gate runs for the first chain, and its tries.
First == IF scn.suite[1].spot THEN "verify" ELSE "run"
Trying == phase = "steps" /\ ci = 1 /\ what = First

Ok == Entry("passed", "ok")
Omit == Entry("skipped", "none")

\* The refused call is sent again.
Resends == FirstChain[At].read \/ ~UsedBefore

\* How the step with the defect ends.
AtDefect(e) ==
  CASE scn.defect.kind = "auth" ->
         /\ e.status = "error" /\ e.answer = "unauth"
         /\ IF Resends THEN e.retry = "resent" /\ e.fresh = "relogin"
            ELSE /\ e.retry = "not_resent" /\ e.fresh = "accepted"
                 /\ e.refused # {} /\ \A x \in e.refused : x.early = scn.stated /\ ~x.first
    [] scn.defect.kind = "drop" -> e = Entry("error", "lost")
    [] OTHER -> e = Entry(IF FirstChain[At].asserts THEN "failed" ELSE "passed", "wrong")

\* How step n of the first chain ends.
EndsAt(n, e) ==
  /\ n < At => e = Ok
  /\ n = At => AtDefect(e)
  /\ n > At => e \in {Ok, Omit} /\ (FirstChain[n].reads \subseteq 1 .. (At - 1) => e = Ok)
Shows(r) == \A n \in DOMAIN r : EndsAt(n, r[n])

\* The backend has what was written.
Kept == \A k \in DOMAIN rec : ~Chain[k].read /\ rec[k].status = "passed" => k \in data

\* No token is dead, and a call at the defect that must be sent again will be.
DefectTry ==
  /\ Shows(rec)
  /\ \A p \in Profiles : token[p] # "dead"
  /\ Len(rec) < At => \A p \in Profiles : accepted[p] <=> \E k \in DOMAIN rec : Chain[k].profile = p
  /\ scn.defect.kind = "auth" /\ Resends /\ ~FirstChain[At].read =>
       token[FirstChain[At].profile] # "none" /\ (Len(rec) < At => cached[FirstChain[At].profile])

\* A try that showed the defect.
Sighted(r) == At \in DOMAIN r /\ Shows(r) /\ (First = "verify" => Len(r) = Len(FirstChain))

Lasting == restarts = 0 /\ Repeatable

DefectSeen ==
  Lasting /\ Defective =>
    /\ up
    /\ Trying => /\ Kept /\ DefectTry
                 /\ \/ try = 1 /\ hist[1] = <<>>
                    \/ try = 2 /\ \E r \in Records(FirstChain) : hist[1] = <<r>> /\ Sighted(r)
    /\ ~Trying => failed
    /\ exit # -1 => exit = 1

\* What a call can end in on a backend that does not restart.
LEMMA DefectCall ==
  ASSUME Typed, Lasting, Defective, up, Trying, Kept, DefectTry, Call, restarts' = 0
  PROVE  \E e \in Entries :
           /\ rec' = Append(rec, e) /\ EndsAt(Len(rec) + 1, e)
           /\ up' = up /\ data \subseteq data' /\ (e.status = "passed" /\ ~Step.read => Len(rec) + 1 \in data')
           /\ \A p \in Profiles : token'[p] # "dead" /\ (token'[p] = "none" => token[p] = "none" \/ ~Resends)
           /\ Len(rec) + 1 < At =>
                /\ accepted' = [accepted EXCEPT ![Step.profile] = TRUE]
                /\ \A p \in Profiles : p # Step.profile => cached'[p] = cached[p]
<1> DEFINE k == Len(rec) + 1
<1>c. ci = 1 /\ Chain = FirstChain /\ Running /\ UNCHANGED Elsewhere
  BY CallAppends DEF Trying, Chain, FirstChain
<1>k. /\ k \in 1 .. Len(Chain) /\ Len(rec) \in Nat /\ k \in Nat /\ Step.profile \in Profiles
      /\ Step.reads \subseteq 1 .. Len(rec) /\ Step = FirstChain[k] /\ Step.read \in BOOLEAN /\ Step.asserts \in BOOLEAN
  BY <1>c, StepToCome DEF Step
<1>at. At \in 1 .. Len(Chain) /\ At \in Nat
  <2>1. At \in DOMAIN Chain BY <1>c, Chains DEF Shape, Defective, At, FirstChain
  <2> QED BY <2>1, Chains
<1>r. rec \in Seq(Entries) /\ DOMAIN rec = 1 .. Len(rec) /\ Step.reads \subseteq DOMAIN rec
  BY <1>k, OnFile
<1>t. token \in [Profiles -> Tokens] /\ accepted \in [Profiles -> BOOLEAN] /\ cached \in [Profiles -> BOOLEAN]
      /\ restarts = 0 /\ \A p \in Profiles : token[p] # "dead"
  BY DEF Typed, Lasting, DefectTry
<1>e. PICK e \in Entries : rec' = Append(rec, e) BY CallAppends
<1>n. ASSUME NEW x, rec' = Append(rec, x) PROVE e = x
  BY <1>e, <1>n, <1>r, SameEntry
<1>d. /\ \A kind : Defect(kind, k) <=> k = At /\ kind = scn.defect.kind
      /\ ~ShortLived
  BY <1>c DEF Defect, At, Defective, ShortLived
<1>s. \A n \in DOMAIN rec : n < At => rec[n].status = "passed"
  BY DEF DefectTry, Shows, EndsAt, Ok, Entry
<1>b. Behind => k > At /\ ~(FirstChain[k].reads \subseteq 1 .. (At - 1))
  <2> SUFFICES ASSUME NEW r \in Step.reads, rec[r].status # "passed"
               PROVE  k > At /\ ~(FirstChain[k].reads \subseteq 1 .. (At - 1))
    BY DEF Behind
  <2>1. r \in DOMAIN rec /\ ~(r < At) BY <1>r, <1>s
  <2> QED BY <1>k, <1>at, <1>r, <2>1
<1>p. ASSUME Sending PROVE \A r \in Step.reads : rec[r].status = "passed"
  BY <1>p, <1>r DEF Sending, Running, Behind, Typed
<1>w. ASSUME Sending PROVE Step.reads \subseteq data
  <2>1. \A r \in Step.reads : ~Chain[r].read
    <3>1. Step = Chain[k] BY DEF Step
    <3> QED BY <1>k, <3>1, Chains
  <2> QED BY <1>p, <1>r, <1>w, <2>1 DEF Kept
<1>a. ASSUME Sending
      PROVE  Answer = IF k # At THEN "ok" ELSE CASE scn.defect.kind = "drop" -> "lost" [] scn.defect.kind = "wrong" -> "wrong" [] OTHER -> "ok"
  BY <1>a, <1>d, <1>w DEF Answer, Defective
<1>o. ASSUME Sending, ~(k = At /\ scn.defect.kind = "auth") PROVE EndsAt(k, Entry(StatusOf(Answer), Answer))
  <2>1. CASE k = At
    <3>1. CASE scn.defect.kind = "drop"
      <4>1. Answer = "lost" BY <1>a, <1>o, <2>1, <3>1
      <4> QED BY <1>at, <2>1, <3>1, <4>1 DEF EndsAt, AtDefect, StatusOf
    <3>2. CASE scn.defect.kind = "wrong"
      <4>1. Answer = "wrong" BY <1>a, <1>o, <2>1, <3>2
      <4>2. StatusOf("wrong") = IF FirstChain[At].asserts THEN "failed" ELSE "passed"
        BY <1>k, <2>1 DEF StatusOf
      <4> QED BY <1>at, <2>1, <3>2, <4>1, <4>2 DEF EndsAt, AtDefect
    <3> QED BY <1>o, <2>1, <3>1, <3>2 DEF Defective
  <2>2. CASE k # At
    <3>1. Answer = "ok" /\ StatusOf("ok") = "passed" BY <1>a, <1>o, <2>2 DEF StatusOf
    <3> QED BY <2>2, <3>1 DEF EndsAt, Ok
  <2> QED BY <2>1, <2>2
<1>f. ASSUME k = At, scn.defect.kind = "auth"
      PROVE  /\ accepted[Step.profile] <=> UsedBefore
             /\ ~Step.read /\ Resends => UntriedCached
             /\ Step = FirstChain[At]
  <2>1. accepted[Step.profile] <=> \E n \in DOMAIN rec : Chain[n].profile = Step.profile
    <3>1. Len(rec) < At BY <1>f, <1>k
    <3> QED BY <1>k, <3>1 DEF DefectTry
  <2>2. DOMAIN rec = 1 .. (At - 1) /\ Step = FirstChain[At] BY <1>f, <1>k, <1>r
  <2>3. accepted[Step.profile] <=> UsedBefore BY <1>c, <2>1, <2>2 DEF UsedBefore
  <2>4. ASSUME ~Step.read, Resends PROVE UntriedCached
    <3>1. ~UsedBefore BY <2>2, <2>4 DEF Resends
    <3>2. token[Step.profile] # "none" /\ cached[Step.profile]
      BY <1>f, <1>k, <2>2, <2>4 DEF DefectTry
    <3> QED BY <2>3, <3>1, <3>2 DEF UntriedCached, FromCache
  <2> QED BY <2>2, <2>3, <2>4
<1>1. CASE Skip
  <2>1. e = Omit BY <1>1, <1>n DEF Skip, Omit
  <2>2. ~Unreached
    <3>1. \A n \in DOMAIN rec : rec[n].answer # "unsent"
      <4>1. \A n \in DOMAIN rec : n < At \/ n = At \/ n > At BY <1>r, <1>at
      <4> QED BY <4>1 DEF DefectTry, Shows, EndsAt, AtDefect, Ok, Omit, Entry, Defective
    <3> QED BY <3>1 DEF Unreached
  <2>3. Behind BY <1>1, <2>2 DEF Skip
  <2>4. EndsAt(k, e) BY <1>b, <1>at, <1>k, <2>1, <2>3 DEF EndsAt
  <2>5. e.status # "passed" /\ k > At BY <1>b, <2>1, <2>3 DEF Omit, Entry
  <2> QED BY <1>1, <1>e, <1>t, <1>at, <1>k, <2>4, <2>5 DEF Skip, backend
<1>2. CASE Unreachable BY <1>2 DEF Unreachable
<1>3. CASE CutOff BY <1>3, <1>t DEF CutOff, Wiped
<1>4. CASE Accepted
  <2>1. Sending /\ ~(k = At /\ scn.defect.kind = "auth") BY <1>4, <1>d DEF Accepted, Accepts
  <2>2. e = Entry(StatusOf(Answer), Answer) BY <1>4, <1>n DEF Accepted
  <2>3. EndsAt(k, e) BY <1>o, <2>1, <2>2
  <2>4. /\ up' = up /\ data' = Written(Answer) /\ token' = [token EXCEPT ![Step.profile] = "good"]
        /\ accepted' = [accepted EXCEPT ![Step.profile] = @ \/ Answer # "lost"]
        /\ cached' = [cached EXCEPT ![Step.profile] = @ /\ token[Step.profile] # "none"]
    BY <1>4, <1>d, Zenon DEF Accepted, Used
  <2>5. data \subseteq data' /\ (e.status = "passed" /\ ~Step.read => k \in data')
    <3>1. e.status = "passed" => Answer \in {"ok", "wrong"} BY <2>2 DEF Entry, StatusOf
    <3> QED BY <2>4, <3>1 DEF Written
  <2>6. k < At => accepted' = [accepted EXCEPT ![Step.profile] = TRUE]
    <3> SUFFICES ASSUME k < At PROVE accepted' = [accepted EXCEPT ![Step.profile] = TRUE] OBVIOUS
    <3>1. Answer # "lost" BY <1>a, <1>at, <1>k, <2>1
    <3> QED BY <2>4, <3>1, Zenon
  <2>7. \A p \in Profiles : token'[p] # "dead" /\ (token'[p] = "none" => token[p] = "none" \/ ~Resends)
    BY <1>t, <1>k, <2>4
  <2>8. \A p \in Profiles : p # Step.profile => cached'[p] = cached[p] BY <1>t, <2>4
  <2> QED BY <1>e, <2>3, <2>4, <2>5, <2>6, <2>7, <2>8
<1>5. CASE RefusedNotResent
  <2>1. k = At /\ scn.defect.kind = "auth" /\ ~Step.read /\ ~UntriedCached
    BY <1>5, <1>d, <1>k, <1>t DEF RefusedNotResent, Accepts
  <2>2. e = [status |-> "error", answer |-> "unauth", retry |-> "not_resent", refused |-> {Refusal},
             fresh |-> IF accepted[Step.profile] THEN "accepted" ELSE "minted"]
    BY <1>5, <1>n, Zenon DEF RefusedNotResent
  <2>3. ~Resends /\ accepted[Step.profile] BY <1>f, <2>1 DEF Resends
  <2>4. AtDefect(e)
    <3>1. Refusal.early = scn.stated /\ ~Refusal.first BY <2>3 DEF Refusal
    <3> QED BY <2>1, <2>2, <2>3, <3>1 DEF AtDefect
  <2>5. EndsAt(k, e) BY <1>at, <2>1, <2>4 DEF EndsAt
  <2>6. up' = up /\ data' = data /\ token' = [token EXCEPT ![Step.profile] = "none"] /\ e.status # "passed" /\ ~(k < At)
    BY <1>5, <1>at, <2>1, <2>2 DEF RefusedNotResent
  <2> QED BY <1>e, <1>t, <2>3, <2>5, <2>6
<1>6. ASSUME NEW restart \in BOOLEAN, RefusedResent(restart)
      PROVE  /\ EndsAt(k, e) /\ up' = up /\ data' = data /\ e.status # "passed" /\ ~(k < At)
             /\ token' = [token EXCEPT ![Step.profile] = "good"]
  <2>1. k = At /\ scn.defect.kind = "auth" /\ (Step.read \/ UntriedCached)
    BY <1>6, <1>d, <1>k, <1>t DEF RefusedResent, Accepts
  <2>2. ~restart BY <1>6, <1>t DEF RefusedResent, Wiped
  <2>3. Defect("auth", k) BY <1>d, <2>1
  <2>4. /\ e.status = StatusOf("unauth") /\ e.answer = "unauth" /\ e.retry = "resent" /\ e.fresh = "relogin"
        /\ token' = [token EXCEPT ![Step.profile] = "good"] /\ data' = Written("unauth") /\ up' = up
    BY <1>6, <1>n, <2>2, <2>3 DEF RefusedResent
  <2>5. Resends
    <3>1. CASE Step.read BY <1>f, <2>1, <3>1 DEF Resends
    <3>2. CASE UntriedCached BY <1>f, <2>1, <3>2 DEF Resends, UntriedCached
    <3> QED BY <2>1, <3>1, <3>2
  <2>6. AtDefect(e) BY <2>1, <2>4, <2>5 DEF AtDefect, StatusOf
  <2>7. EndsAt(k, e) BY <1>at, <2>1, <2>6 DEF EndsAt
  <2> QED BY <1>at, <2>1, <2>4, <2>7 DEF StatusOf, Written
<1>7. ASSUME NEW restart \in BOOLEAN, RefusedResent(restart)
      PROVE  \A p \in Profiles : token'[p] # "dead" /\ (token'[p] = "none" => token[p] = "none" \/ ~Resends)
  <2>1. token' = [token EXCEPT ![Step.profile] = "good"] BY <1>6, <1>7
  <2> QED BY <1>t, <2>1
<1> QED BY <1>1, <1>2, <1>3, <1>4, <1>5, <1>6, <1>7, <1>e DEF Call

\* A call keeps what the try shows.
LEMMA CallShows ==
  ASSUME Typed, Lasting, Defective, up, Trying, Kept, DefectTry, Call, restarts' = 0
  PROVE  up' /\ Kept' /\ DefectTry'
<1> DEFINE k == Len(rec) + 1
<1>1. PICK e \in Entries :
           /\ rec' = Append(rec, e) /\ EndsAt(k, e)
           /\ up' = up /\ data \subseteq data' /\ (e.status = "passed" /\ ~Step.read => k \in data')
           /\ \A p \in Profiles : token'[p] # "dead" /\ (token'[p] = "none" => token[p] = "none" \/ ~Resends)
           /\ k < At =>
                /\ accepted' = [accepted EXCEPT ![Step.profile] = TRUE]
                /\ \A p \in Profiles : p # Step.profile => cached'[p] = cached[p]
  BY DefectCall
<1>2. UNCHANGED Elsewhere /\ Running BY CallAppends
<1>3. /\ UNCHANGED <<scn, ci>> /\ Chain' = Chain /\ FirstChain' = FirstChain /\ At' = At /\ (Resends <=> Resends') /\ Chain = FirstChain
  BY <1>2 DEF Elsewhere, Chain, FirstChain, At, Resends, UsedBefore, Trying
<1>4. rec \in Seq(Entries) BY OnFile
<1>5. /\ DOMAIN rec' = 1 .. k /\ DOMAIN rec = 1 .. Len(rec) /\ Len(rec) \in Nat /\ Len(rec') = k /\ k \in Nat
      /\ rec'[k] = e /\ \A i \in DOMAIN rec : rec'[i] = rec[i]
  BY <1>1, <1>4
<1>6. \A i : i \in DOMAIN rec' <=> i \in DOMAIN rec \/ i = k BY <1>5
<1>7. Step = Chain[k] /\ Step.profile \in Profiles /\ accepted \in [Profiles -> BOOLEAN]
  BY <1>2, StepToCome DEF Step, Typed
<1> HIDE DEF k
<1>8. Kept'
  <2>1. \A i \in DOMAIN rec' : ~Chain[i].read /\ rec'[i].status = "passed" => i \in data'
    BY <1>1, <1>5, <1>6, <1>7 DEF Kept
  <2> QED BY <1>3, <2>1 DEF Kept
<1>9. \A i \in DOMAIN rec' : EndsAt(i, rec'[i])
  BY <1>1, <1>5, <1>6 DEF DefectTry, Shows
<1>10. Shows(rec)'
  BY <1>3, <1>9 DEF Shows, EndsAt, AtDefect
<1>11. At \in Nat BY Chains DEF At, Shape, Defective
<1>12. ASSUME k < At, NEW p \in Profiles
       PROVE  accepted'[p] <=> \E i \in DOMAIN rec' : Chain[i].profile = p
  <2>1. accepted[p] <=> \E i \in DOMAIN rec : Chain[i].profile = p
    <3>1. Len(rec) < At BY <1>5, <1>11, <1>12 DEF k
    <3> QED BY <3>1 DEF DefectTry
  <2>2. (\E i \in DOMAIN rec' : Chain[i].profile = p) <=> (\E i \in DOMAIN rec : Chain[i].profile = p) \/ Step.profile = p
    BY <1>6, <1>7
  <2>3. accepted' = [accepted EXCEPT ![Step.profile] = TRUE] BY <1>1, <1>12
  <2>4. accepted'[p] <=> accepted[p] \/ Step.profile = p BY <1>7, <2>3, Zenon
  <2> QED BY <2>1, <2>2, <2>4
<1>13. scn.defect.kind = "auth" /\ Resends /\ ~FirstChain[At].read =>
         token'[FirstChain[At].profile] # "none" /\ (k < At => cached'[FirstChain[At].profile])
  <2> SUFFICES ASSUME scn.defect.kind = "auth", Resends, ~FirstChain[At].read
               PROVE  token'[FirstChain[At].profile] # "none" /\ (k < At => cached'[FirstChain[At].profile])
    OBVIOUS
  <2> DEFINE p == FirstChain[At].profile
  <2>1. At \in DOMAIN Chain BY <1>3, Chains DEF Shape, Defective, At, FirstChain
  <2>2. p \in Profiles BY <1>3, <2>1, Chains
  <2>3. token[p] # "none" /\ (Len(rec) < At => cached[p]) BY DEF DefectTry
  <2>4. token'[p] # "none" BY <1>1, <2>2, <2>3
  <2>5. ASSUME k < At PROVE cached'[p]
    <3>1. Step.profile # p
      <4>1. k \in 1 .. (At - 1) BY <1>5, <1>11, <2>5 DEF k
      <4> QED BY <1>3, <1>7, <4>1 DEF Resends, UsedBefore
    <3>2. Len(rec) < At BY <1>5, <1>11, <2>5 DEF k
    <3> QED BY <1>1, <2>2, <2>3, <2>5, <3>1, <3>2
  <2> QED BY <2>4, <2>5
<1>14. DefectTry'
  <2>1. \A p \in Profiles : token'[p] # "dead" BY <1>1
  <2> QED BY <1>3, <1>5, <1>10, <1>12, <1>13, <2>1 DEF DefectTry
<1> QED BY <1>1, <1>8, <1>14

(***************************************************************************)
(* What two tries show of it                                               *)
(***************************************************************************)
\* All went well but at step k, or was left out after it.
Solo(r, k) ==
  /\ k \in DOMAIN r
  /\ \A n \in DOMAIN r : n # k => r[n] \in {Ok, Omit} /\ (n < k => r[n] = Ok)

\* The least element of a set of one.
LEMMA MinOfOne ==
  ASSUME NEW k \in Nat
  PROVE  Min({k}) = k
BY MinIsLeast

\* What is concluded of a record in which one step did not end well.
LEMMA SoloShows ==
  ASSUME NEW c, NEW r \in Seq(Entries), NEW k \in Nat, Solo(r, k)
  PROVE  /\ ~DriftedBefore(r, k) /\ ~SessionRestartEvidence(c, r, k)
         /\ Early(r) = (IF RefusedEarly(r[k]) THEN {k} ELSE {})
         /\ UnansweredOnly(r) = IF r[k].status = "error" THEN k ELSE 0
         /\ LossAt(c, r) = IF /\ r[k].retry # "no" /\ AcceptedBefore(c, r, k)
                              /\ ~RefusedFreshToken(r[k]) /\ ~RefusedEarly(r[k]) THEN k ELSE 0
         /\ {i \in DOMAIN r : RefusedFreshToken(r[i])} = IF RefusedFreshToken(r[k]) THEN {k} ELSE {}
<1>1. /\ \A n \in DOMAIN r : n # k => /\ r[n].retry = "no" /\ r[n].status # "error" /\ r[n].refused = {}
                                      /\ r[n].answer \in {"ok", "none"} /\ (n < k => r[n].answer = "ok")
      /\ k \in DOMAIN r
  BY DEF Solo, Ok, Omit, Entry
<1>2. ~DriftedBefore(r, k)
  <2>1. \A i \in 1 .. (k - 1) : i \in DOMAIN r /\ i # k /\ i < k BY <1>1
  <2> QED BY <1>1, <2>1 DEF DriftedBefore, Changed
<1>3. ~SessionRestartEvidence(c, r, k)
  <2>1. \A i \in 1 .. (k - 1) : i \in DOMAIN r /\ i # k BY <1>1
  <2>2. \A i \in (k + 1) .. Len(r) : i \in DOMAIN r /\ i # k BY <1>1
  <2> QED BY <1>1, <2>1, <2>2 DEF SessionRestartEvidence, UnansweredCall, Gone
<1>4. Early(r) = IF RefusedEarly(r[k]) THEN {k} ELSE {}
  BY <1>1 DEF Early, RefusedEarly
<1>5. UnansweredOnly(r) = IF r[k].status = "error" THEN k ELSE 0
  <2> DEFINE S == {i \in DOMAIN r : r[i].status = "error"}
  <2>1. S = IF r[k].status = "error" THEN {k} ELSE {} BY <1>1
  <2>2. UnansweredOnly(r) = IF S = {} \/ DriftedBefore(r, Min(S)) THEN 0 ELSE Min(S) BY DEF UnansweredOnly
  <2> HIDE DEF S
  <2> QED BY <1>2, <2>1, <2>2, MinOfOne
<1>6. LossAt(c, r) = IF /\ r[k].retry # "no" /\ AcceptedBefore(c, r, k)
                        /\ ~RefusedFreshToken(r[k]) /\ ~RefusedEarly(r[k]) THEN k ELSE 0
  <2> DEFINE S == {i \in DOMAIN r : r[i].retry # "no" /\ (RefusedFreshToken(r[i]) \/ AcceptedBefore(c, r, i))}
  <2>1. S = IF r[k].retry # "no" /\ (RefusedFreshToken(r[k]) \/ AcceptedBefore(c, r, k)) THEN {k} ELSE {} BY <1>1
  <2>2. LossAt(c, r) = IF S = {} THEN 0 ELSE IF RefusedFreshToken(r[Min(S)]) \/ RefusedEarly(r[Min(S)]) THEN 0 ELSE Min(S)
    BY DEF LossAt
  <2> HIDE DEF S
  <2> QED BY <2>1, <2>2, MinOfOne
<1>7. {i \in DOMAIN r : RefusedFreshToken(r[i])} = IF RefusedFreshToken(r[k]) THEN {k} ELSE {}
  BY <1>1 DEF RefusedFreshToken
<1> QED BY <1>2, <1>3, <1>4, <1>5, <1>6, <1>7

\* A record of a try with the defect has one such step.
LEMMA ShowsSolo ==
  ASSUME NEW r \in Seq(Entries), Shows(r), At \in DOMAIN r
  PROVE  Solo(r, At) /\ AtDefect(r[At])
<1>1. \A n \in DOMAIN r : n # At => n < At \/ n > At OBVIOUS
<1> QED BY <1>1 DEF Shows, EndsAt, Solo

\* The only run on file is the one that a finding is compared with.
LEMMA OnlyRun ==
  ASSUME NEW r \in Seq(Entries), NEW k \in DOMAIN r
  PROVE  /\ Answered(r[k]) => PreviousRunSending(<<r>>, k) = r
         /\ Attempted(r[k]) => PreviousRunAttempting(<<r>>, k) = r
<1>1. \A S : S = {1} => Latest(<<r>>, S) = r
  <2>1. Max({1}) = 1
    <3>1. {1} \subseteq 1 .. 1 /\ {1} # {} /\ 1 \in Nat OBVIOUS
    <3>2. Max({1}) \in {1} BY <3>1, MaxIsGreatest
    <3> QED BY <3>2
  <2> QED BY <2>1 DEF Latest
<1>2. Answered(r[k]) => {n \in DOMAIN <<r>> : k \in DOMAIN <<r>>[n] /\ Answered(<<r>>[n][k])} = {1}
  OBVIOUS
<1>3. Attempted(r[k]) => {n \in DOMAIN <<r>> : k \in DOMAIN <<r>>[n] /\ Attempted(<<r>>[n][k])} = {1}
  OBVIOUS
<1> QED BY <1>1, <1>2, <1>3 DEF PreviousRunSending, PreviousRunAttempting

\* What points at the rpc, not at a restart.
Found(c, r, h) ==
  \/ TokenLifetime(c, r, h).finding \/ LossFinding(c, r, h)
  \/ LossAt(c, r) = 0 /\ FreshAt(r, h) # 0

\* One error is a finding or asks for a repetition.
LEMMA ErrorJudged ==
  ASSUME NEW c, NEW r \in Seq(Entries), NEW h, NEW k \in Nat, k # 0, Solo(r, k), r[k].status = "error"
  PROVE  /\ Verify(c, r, h).code \in {1, 3} /\ (k = Len(r) => Run(c, r, h).code \in {1, 3})
         /\ Found(c, r, h) => Verify(c, r, h).code = 1 /\ Run(c, r, h).code = 1
         /\ LossAt(c, r) = 0 /\ DroppedAt(r, h) # 0 => Verify(c, r, h).code = 1
<1>1. /\ ~DriftedBefore(r, k) /\ UnansweredOnly(r) = k /\ LossAt(c, r) \in {0, k}
      /\ Early(r) \subseteq {k}
  BY SoloShows
<1>2. TokenLifetime(c, r, h).at \in {0, k} /\ (TokenLifetime(c, r, h).finding => TokenLifetime(c, r, h).at = k)
  <2>1. TokenLifetime(c, r, h).at # 0 => TokenLifetime(c, r, h).at \in Early(r) BY LifetimeIs
  <2>2. TokenLifetime(c, r, h).finding => TokenLifetime(c, r, h).at # 0
    <3>1. TokenLifetime(c, r, h).finding => Early(r) # {} BY DEF TokenLifetime
    <3>2. Early(r) # {} => Early(r) = {k} BY <1>1
    <3>3. Early(r) = {k} => TokenLifetime(c, r, h).at # 0
      <4> SUFFICES ASSUME Early(r) = {k} PROVE TokenLifetime(c, r, h).at # 0 OBVIOUS
      <4>1. Min(Early(r)) = k BY MinOfOne
      <4>2. \A j \in Early(r) \ {Min(Early(r))} : FALSE BY <4>1
      <4> DEFINE held == {i \in Early(r) : RefusedInRun(r[i])}
      <4>3. held # {} => Min(held) = k
        <5>1. held # {} => held = {k} OBVIOUS
        <5> HIDE DEF held
        <5> QED BY <5>1, MinOfOne
      <4>4. TokenLifetime(c, r, h).at = Min(Early(r)) \/ (held # {} /\ TokenLifetime(c, r, h).at = Min(held))
        BY DEF TokenLifetime
      <4> HIDE DEF held
      <4> QED BY <4>1, <4>3, <4>4
    <3> QED BY <3>1, <3>2, <3>3
  <2> QED BY <1>1, <2>1, <2>2
<1>3. FreshAt(r, h) \in {0, k}
  <2> DEFINE S == {i \in DOMAIN r : RefusedFreshToken(r[i])}
  <2>1. S = {} \/ S = {k} BY SoloShows
  <2>2. FreshAt(r, h) = 0 \/ (S # {} /\ FreshAt(r, h) = Min(S)) BY DEF FreshAt
  <2> HIDE DEF S
  <2> QED BY <2>1, <2>2, MinOfOne
<1>4. LossFinding(c, r, h) => LossAt(c, r) = k BY <1>1 DEF LossFinding
<1>5. /\ Verify(c, r, h).code \in {1, 3}
      /\ Found(c, r, h) => Verify(c, r, h).code = 1
      /\ LossAt(c, r) = 0 /\ DroppedAt(r, h) # 0 => Verify(c, r, h).code = 1
  BY <1>1, <1>2, <1>3, <1>4 DEF Verify, Found
<1>6. k = Len(r) => Run(c, r, h).code \in {1, 3} BY DEF Run, Last
<1>7. Found(c, r, h) => Run(c, r, h).code = 1 BY DEF Run, Found
<1> QED BY <1>5, <1>6, <1>7

\* Another value that is compared or asserted is a regression at once.
LEMMA WrongJudged ==
  ASSUME NEW c, NEW r \in Seq(Entries), NEW h, NEW k \in Nat, Solo(r, k), r[k].answer = "wrong",
         r[k].retry = "no", r[k].refused = {}, r[k].status # "error"
  PROVE  /\ Verify(c, r, h).code = 1
         /\ k = Len(r) /\ r[k].status = "failed" => Run(c, r, h).code = 1
<1>1. /\ UnansweredOnly(r) = 0 /\ LossAt(c, r) = 0 /\ Early(r) = {} /\ ~RefusedFreshToken(r[k])
  BY SoloShows DEF RefusedEarly, RefusedFreshToken
<1>2. FreshAt(r, h) = 0
  <2> DEFINE S == {i \in DOMAIN r : RefusedFreshToken(r[i])}
  <2>1. S = {} BY <1>1, SoloShows
  <2> QED BY <2>1 DEF FreshAt
<1>3. TokenLifetime(c, r, h) = [at |-> 0, finding |-> FALSE]
  BY <1>1 DEF TokenLifetime
<1>4. ~CleanReport(c, r) BY DEF CleanReport, Solo
<1>5. Verify(c, r, h).code = 1
  BY <1>1, <1>2, <1>3, <1>4 DEF Verify
<1>6. k = Len(r) /\ r[k].status = "failed" => Run(c, r, h).code = 1 BY DEF Run, Last
<1> QED BY <1>5, <1>6

\* A fresh token refused in two tries.
LEMMA FreshTwice ==
  ASSUME NEW c, NEW r \in Seq(Entries), NEW q \in Seq(Entries), NEW k \in Nat, k # 0, Solo(r, k), Solo(q, k),
         \A x \in {r[k], q[k]} : /\ x.status = "error" /\ x.answer = "unauth"
                                 /\ x.retry = "resent" /\ x.fresh = "relogin"
  PROVE  Found(c, r, <<q>>)
<1>1. /\ RefusedFreshToken(r[k]) /\ RefusedFreshToken(q[k]) /\ RefusalKind(r[k]) = RefusalKind(q[k])
      /\ Answered(q[k]) /\ r[k].retry = "resent" /\ q[k].retry = "resent"
  BY DEF RefusedFreshToken, RefusalKind, AnsweredCleanly, Answered
<1>2. LossAt(c, r) = 0 BY <1>1, SoloShows
<1>3. PreviousRunSending(<<q>>, k) = q /\ q # <<>> BY <1>1, OnlyRun DEF Solo
<1>4. FreshAt(r, <<q>>) = k
  <2> DEFINE S == {i \in DOMAIN r : RefusedFreshToken(r[i])}
  <2>1. S = {k} BY <1>1, SoloShows
  <2>2. Min(S) = k
    <3> HIDE DEF S
    <3> QED BY <2>1, MinOfOne
  <2> QED BY <1>1, <1>3, <2>1, <2>2 DEF FreshAt
<1> QED BY <1>2, <1>4 DEF Found

\* A token refused early in two tries after it was accepted.
LEMMA EarlyTwice ==
  ASSUME NEW c, NEW r \in Seq(Entries), NEW q \in Seq(Entries), NEW k \in Nat, k # 0, Solo(r, k), Solo(q, k),
         \A x \in {r[k], q[k]} : RefusedEarly(x) /\ RefusedInRun(x)
  PROVE  Found(c, r, <<q>>)
<1>1. Early(r) = {k} /\ Early(q) = {k} BY SoloShows
<1>2. ~SessionRestartEvidence(c, r, k) /\ ~SessionRestartEvidence(c, q, k) BY SoloShows
<1>3. Min({k}) = k BY MinOfOne
<1>4. {i \in Early(r) : RefusedInRun(r[i])} = {k} BY <1>1
<1>5. Last(<<q>>) = q /\ <<q>> # <<>> BY DEF Last
<1>6. TokenLifetime(c, r, <<q>>).finding
  BY <1>1, <1>2, <1>3, <1>4, <1>5 DEF TokenLifetime
<1> QED BY <1>6 DEF Found

\* A session lost at one step in two tries, and nothing in either shows a restart.
LEMMA LossTwice ==
  ASSUME NEW c, NEW r \in Seq(Entries), NEW q \in Seq(Entries), NEW k \in Nat, k # 0, Solo(r, k), Solo(q, k),
         \A x \in {r[k], q[k]} : /\ x.status = "error" /\ x.answer = "unauth"
                                 /\ x.retry = "not_resent" /\ x.fresh = "accepted" /\ ~RefusedEarly(x),
         \E j \in 1 .. (k - 1) : c[j].profile = c[k].profile,
         \A s \in {r, q} : \A j \in (k + 1) .. Len(s) : c[j].call # c[k].call \/ c[j].profile # c[k].profile
  PROVE  Found(c, r, <<q>>)
<1>1. ASSUME NEW s \in {r, q} PROVE LossAt(c, s) = k /\ ~RestartEvidence(c, s, k)
  <2>1. /\ s \in Seq(Entries) /\ Solo(s, k) /\ s[k].status = "error" /\ s[k].answer = "unauth"
        /\ s[k].retry = "not_resent" /\ s[k].fresh = "accepted" /\ ~RefusedEarly(s[k])
        /\ \A j \in (k + 1) .. Len(s) : c[j].call # c[k].call \/ c[j].profile # c[k].profile
    OBVIOUS
  <2>2. \A n \in DOMAIN s : n # k => s[n].retry = "no" /\ s[n].answer \in {"ok", "none"} /\ (n < k => s[n].answer = "ok")
    BY <2>1 DEF Solo, Ok, Omit, Entry
  <2>3. \A i \in 1 .. (k - 1) : i \in DOMAIN s /\ i # k /\ i < k BY <2>1 DEF Solo
  <2>4. \A i \in (k + 1) .. Len(s) : i \in DOMAIN s /\ i # k BY <2>1
  <2>5. AcceptedBefore(c, s, k) BY <2>2, <2>3 DEF AcceptedBefore, Answered
  <2>6. LossAt(c, s) = k
    BY <2>1, <2>5, SoloShows DEF RefusedFreshToken
  <2>7. ~RestartEvidence(c, s, k)
    <3>1. \A j \in DOMAIN s : ~ResentAccepted(s[j])
      BY <2>1, <2>2 DEF ResentAccepted
    <3>2. \A j \in 1 .. (k - 1) : ~UnansweredCall(s[j]) BY <2>2, <2>3 DEF UnansweredCall
    <3>3. \A j \in (k + 1) .. Len(s) : ~Gone(c, s, k, j) BY <2>2, <2>4 DEF Gone
    <3> QED BY <2>1, <3>1, <3>2, <3>3 DEF RestartEvidence
  <2> QED BY <2>6, <2>7
<1>2. Answered(q[k]) /\ RefusalKind(q[k]) = RefusalKind(r[k])
  BY DEF Answered, RefusalKind, AnsweredCleanly
<1>3. PreviousRunSending(<<q>>, k) = q BY <1>2, OnlyRun DEF Solo
<1>4. LossFinding(c, r, <<q>>) BY <1>1, <1>2, <1>3 DEF LossFinding
<1> QED BY <1>4 DEF Found

\* A request that got no answer in two tries, and others after it did.
LEMMA DroppedTwice ==
  ASSUME NEW r \in Seq(Entries), NEW q \in Seq(Entries), NEW k \in Nat, k # 0, Solo(r, k), Solo(q, k),
         r[k] = Entry("error", "lost"), q[k] = Entry("error", "lost"),
         \A s \in {r, q} : \E j \in DOMAIN s : j > k /\ s[j] = Ok
  PROVE  DroppedAt(r, <<q>>) # 0
<1>1. r[k].status = "error" /\ r[k].answer = "lost" /\ q[k].answer = "lost" BY DEF Entry
<1>2. UnansweredOnly(r) = k BY <1>1, SoloShows
<1>3. PreviousRunAttempting(<<q>>, k) = q /\ q # <<>> BY <1>1, OnlyRun DEF Solo, Attempted
<1>4. ASSUME NEW s \in {r, q} PROVE AnsweredAfter(s, k)
  <2>1. s \in Seq(Entries) OBVIOUS
  <2>2. PICK j \in DOMAIN s : j > k /\ s[j] = Ok OBVIOUS
  <2>3. j \in (k + 1) .. Len(s) BY <2>1, <2>2
  <2> QED BY <2>2, <2>3 DEF AnsweredAfter, Answered, Ok, Entry
<1> QED BY <1>1, <1>2, <1>3, <1>4 DEF DroppedAt

\* A try that has ended showed the defect.
LEMMA TryEnds ==
  ASSUME Typed, Green, Lasting, Defective, Trying, DefectTry, Complete
  PROVE  /\ Sighted(rec) /\ Chain = FirstChain /\ At \in Nat /\ At # 0
         /\ what = "run" => At = Len(rec) /\ (scn.defect.kind = "wrong" => rec[At].status = "failed")
         /\ scn.defect.kind = "drop" => what = "verify"
         /\ scn.defect.kind = "wrong" => rec[At].answer = "wrong" /\ rec[At].retry = "no" /\ rec[At].refused = {}
                                         /\ rec[At].status # "error"
         /\ scn.defect.kind # "wrong" => rec[At].status = "error"
<1>1. Chain = FirstChain /\ ci = 1 /\ what = First BY DEF Trying, Chain, FirstChain
<1>2. /\ rec \in Seq(Entries) /\ Len(rec) \in Nat /\ Len(Chain) \in Nat
      /\ At \in 1 .. Len(Chain) /\ Len(rec) <= Len(Chain) /\ DOMAIN rec = 1 .. Len(rec)
  <2>1. At \in DOMAIN Chain BY <1>1, Chains DEF Shape, Defective, At, FirstChain
  <2>2. rec \in Records(Chain) BY DEF Typed
  <2> QED BY <2>1, <2>2, Chains, OnFile DEF Records
<1>3. At \in DOMAIN rec
  <2>1. CASE Len(rec) = Len(Chain) BY <1>2, <2>1
  <2>2. CASE Len(rec) # Len(Chain)
    <3>1. what = "run" /\ \E i \in DOMAIN rec : rec[i].status # "passed"
      BY <1>2, <2>2 DEF Complete, Running
    <3>2. PICK i \in DOMAIN rec : rec[i].status # "passed" BY <3>1
    <3>3. ~(i < At) BY <3>2 DEF DefectTry, Shows, EndsAt, Ok, Entry
    <3> QED BY <1>2, <3>3
  <2> QED BY <2>1, <2>2
<1>4. Sighted(rec)
  <2>1. First = "verify" => Len(rec) = Len(FirstChain) BY <1>1, <1>2 DEF Complete, Running
  <2> QED BY <1>3, <2>1 DEF Sighted, DefectTry
<1>5. AtDefect(rec[At]) BY <1>2, <1>3, ShowsSolo DEF DefectTry
<1>6. scn.defect.kind = "wrong" => /\ rec[At].answer = "wrong" /\ rec[At].retry = "no" /\ rec[At].refused = {}
                                   /\ rec[At].status = IF FirstChain[At].asserts THEN "failed" ELSE "passed"
  BY <1>5 DEF AtDefect, Entry
<1>7. scn.defect.kind # "wrong" => rec[At].status = "error" BY <1>5 DEF AtDefect, Entry, Defective
<1>8. scn.defect.kind = "drop" => what = "verify" BY <1>1 DEF Lasting, Repeatable, First
<1>9. what = "run" /\ scn.defect.kind = "wrong" => FirstChain[At].asserts
  BY <1>1 DEF Lasting, Repeatable, First, Visible, ShortLived
<1>10. what = "run" => rec[At].status # "passed" BY <1>6, <1>7, <1>9
<1>11. what = "run" => At = Len(rec) BY <1>3, <1>10 DEF Green
<1>12. At \in Nat /\ At # 0 BY <1>2
<1>13. /\ scn.defect.kind = "wrong" => rec[At].status # "error"
       /\ what = "run" /\ scn.defect.kind = "wrong" => rec[At].status = "failed"
  BY <1>6, <1>9
<1> QED BY <1>1, <1>4, <1>6, <1>7, <1>8, <1>11, <1>12, <1>13

\* The first try has no verdict or finds the defect, and the second finds it.
LEMMA DefectJudged ==
  ASSUME Typed, Green, Lasting, Defective, Trying, DefectTry, Complete
  PROVE  /\ Sighted(rec) /\ Outcome.code \in {1, 3}
         /\ \A q \in Records(FirstChain) : hist[1] = <<q>> /\ Sighted(q) => Outcome.code = 1
<1> DEFINE c == FirstChain
           k == At
<1>1. /\ Sighted(rec) /\ Chain = c /\ k \in Nat /\ k # 0
      /\ what = "run" => k = Len(rec) /\ (scn.defect.kind = "wrong" => rec[k].status = "failed")
      /\ scn.defect.kind = "drop" => what = "verify"
      /\ scn.defect.kind = "wrong" => rec[k].answer = "wrong" /\ rec[k].retry = "no" /\ rec[k].refused = {}
                                      /\ rec[k].status # "error"
      /\ scn.defect.kind # "wrong" => rec[k].status = "error"
  BY TryEnds
<1>2. /\ rec \in Seq(Entries) /\ ci = 1 /\ what \in {"verify", "run"} /\ what = First
      /\ Outcome = IF what = "verify" THEN Verify(c, rec, hist[1]) ELSE Run(c, rec, hist[1])
  BY <1>1, OnFile DEF Trying, Typed, Outcome, Verdict
<1>3. ASSUME NEW r \in Seq(Entries), Sighted(r) PROVE Solo(r, k) /\ AtDefect(r[k])
  BY <1>3, ShowsSolo DEF Sighted
<1>4. CASE scn.defect.kind = "wrong"
  <2>1. Outcome.code = 1 BY <1>1, <1>2, <1>3, <1>4, WrongJudged
  <2> QED BY <1>1, <2>1
<1>5. CASE scn.defect.kind # "wrong"
  <2>1. /\ Outcome.code \in {1, 3}
        /\ Found(c, rec, hist[1]) => Outcome.code = 1
        /\ scn.defect.kind = "drop" /\ LossAt(c, rec) = 0 /\ DroppedAt(rec, hist[1]) # 0 => Outcome.code = 1
    BY <1>1, <1>2, <1>3, <1>5, ErrorJudged
  <2>2. ASSUME NEW q \in Records(c), hist[1] = <<q>>, Sighted(q) PROVE Outcome.code = 1
    <3>1. q \in Seq(Entries) BY DEF Records
    <3>2. /\ Solo(rec, k) /\ Solo(q, k) /\ AtDefect(rec[k]) /\ AtDefect(q[k]) BY <1>1, <1>2, <1>3, <2>2, <3>1
    <3>3. CASE scn.defect.kind = "drop"
      <4>1. rec[k] = Entry("error", "lost") /\ q[k] = Entry("error", "lost") BY <3>2, <3>3 DEF AtDefect
      <4>2. what = "verify" /\ First = "verify" BY <1>1, <1>2, <3>3
      <4>3. PICK j \in (k + 1) .. Len(c) : c[j].reads \subseteq 1 .. (k - 1)
        BY <3>3 DEF Lasting, Repeatable
      <4>4. ASSUME NEW s \in {rec, q} PROVE \E n \in DOMAIN s : n > k /\ s[n] = Ok
        <5>1. s \in Seq(Entries) /\ Len(s) = Len(c) /\ Shows(s) BY <1>1, <1>2, <2>2, <3>1, <4>2 DEF Sighted
        <5>2. Len(c) \in Nat BY <1>1, Chains
        <5>3. j \in DOMAIN s /\ j > k BY <1>1, <5>1, <5>2
        <5>4. s[j] = Ok BY <4>3, <5>1, <5>3 DEF Shows, EndsAt
        <5> QED BY <5>3, <5>4
      <4>5. DroppedAt(rec, <<q>>) # 0 BY <1>1, <1>2, <3>1, <3>2, <4>1, <4>4, DroppedTwice
      <4>6. LossAt(c, rec) = 0
        <5>1. rec[k].retry = "no" BY <4>1 DEF Entry
        <5> QED BY <1>1, <1>2, <3>2, <5>1, SoloShows
      <4> QED BY <2>1, <2>2, <3>3, <4>5, <4>6
    <3>4. CASE scn.defect.kind = "auth"
      <4>1. \A x \in {rec[k], q[k]} :
              /\ x.status = "error" /\ x.answer = "unauth"
              /\ IF Resends THEN x.retry = "resent" /\ x.fresh = "relogin"
                 ELSE /\ x.retry = "not_resent" /\ x.fresh = "accepted"
                      /\ x.refused # {} /\ \A y \in x.refused : y.early = scn.stated /\ ~y.first
        BY <3>2, <3>4 DEF AtDefect
      <4>2. CASE Resends
        <5>1. Found(c, rec, <<q>>) BY <1>1, <1>2, <3>1, <3>2, <4>1, <4>2, FreshTwice
        <5> QED BY <2>1, <2>2, <5>1
      <4>3. CASE ~Resends /\ scn.stated
        <5>1. \A x \in {rec[k], q[k]} : RefusedEarly(x) /\ RefusedInRun(x)
          BY <4>1, <4>3 DEF RefusedEarly, RefusedInRun
        <5>2. Found(c, rec, <<q>>) BY <1>1, <1>2, <3>1, <3>2, <5>1, EarlyTwice
        <5> QED BY <2>1, <2>2, <5>2
      <4>4. CASE ~Resends /\ ~scn.stated
        <5>1. \A x \in {rec[k], q[k]} : ~RefusedEarly(x) BY <4>1, <4>4 DEF RefusedEarly
        <5>2. UsedBefore /\ ~FirstChain[At].read BY <4>4 DEF Resends
        <5>3. \E j \in 1 .. (k - 1) : c[j].profile = c[k].profile BY <5>2 DEF UsedBefore
        <5>4. \A j \in (k + 1) .. Len(c) : c[j].call # c[k].call \/ c[j].profile # c[k].profile
          BY <3>4, <4>4, <5>2 DEF Lasting, Repeatable
        <5>5. ASSUME NEW s \in {rec, q}, NEW j \in (k + 1) .. Len(s) PROVE j \in (k + 1) .. Len(c)
          <6>1. Len(c) \in Nat BY <1>1, Chains
          <6>2. Len(rec) <= Len(c) /\ Len(q) <= Len(c) BY <1>1 DEF Typed, Records
          <6> QED BY <1>1, <1>2, <3>1, <6>1, <6>2
        <5>6. \A s \in {rec, q} : \A j \in (k + 1) .. Len(s) : c[j].call # c[k].call \/ c[j].profile # c[k].profile
          BY <5>4, <5>5
        <5>7. Found(c, rec, <<q>>) BY <1>1, <1>2, <3>1, <3>2, <4>1, <4>4, <5>1, <5>3, <5>6, LossTwice
        <5> QED BY <2>1, <2>2, <5>7
      <4> QED BY <4>2, <4>3, <4>4
    <3> QED BY <1>5, <3>3, <3>4 DEF Defective
  <2> QED BY <1>1, <2>1, <2>2
<1> QED BY <1>4, <1>5

\* A gate starts with the first try.
LEMMA InitDefectSeen == Init => DefectSeen
<1> SUFFICES ASSUME Init, Lasting, Defective PROVE DefectSeen BY DEF DefectSeen
<1>1. Shape(scn) BY ScenariosAssumption DEF Init
<1>2. /\ rec = <<>> /\ DOMAIN rec = {} /\ up = TRUE /\ exit = -1 /\ ci = 1 /\ try = 1 /\ phase = "steps"
      /\ what = First /\ Chain = FirstChain /\ FirstChain \in Seq(Range(FirstChain))
  <2>1. 1 \in DOMAIN scn.suite BY <1>1 DEF Shape
  <2> QED BY <1>1, <2>1 DEF Init, First, Chain, FirstChain, Shape
<1>3. hist[1] = <<>> BY <1>1 DEF Init, Shape
<1>4. scn.token \in {"none", "good"} /\ token = [p \in Profiles |-> scn.token]
  BY <1>1 DEF Init, Lasting, Shape
<1>5. \A p \in Profiles : accepted[p] = FALSE BY DEF Init
<1>6. At \in DOMAIN FirstChain BY <1>1 DEF Shape, Defective, At, FirstChain
<1>7. FirstChain[At].profile \in Profiles /\ (FirstChain[At].read \in BOOLEAN)
  <2>1. 1 \in DOMAIN scn.suite BY <1>1 DEF Shape
  <2> QED BY <1>1, <1>6, <2>1 DEF Shape, FirstChain
<1>8. scn.defect.kind = "auth" /\ Resends /\ ~FirstChain[At].read => scn.token # "none"
  BY DEF Lasting, Repeatable, Resends
<1>9. scn.token # "none" => cached[FirstChain[At].profile]
  <2>1. cached = [p \in Profiles |-> scn.token # "none"] BY DEF Init
  <2>2. cached[FirstChain[At].profile] <=> scn.token # "none" BY <1>7, <2>1, Zenon
  <2> QED BY <2>2
<1>10. Kept BY <1>2 DEF Kept
<1>11. Shows(rec) BY <1>2 DEF Shows
<1>12. DefectTry
  <2>1. \A p \in Profiles : token[p] # "dead" BY <1>4
  <2>2. scn.token # "none" => token[FirstChain[At].profile] # "none" BY <1>4, <1>7
  <2> QED BY <1>2, <1>5, <1>8, <1>9, <1>11, <2>1, <2>2 DEF DefectTry
<1> QED BY <1>2, <1>3, <1>10, <1>12 DEF DefectSeen, Trying

\* The backend does not restart if it did not later; the scenario is given.
LEMMA LastingBack ==
  ASSUME Typed, [Next]_vars
  PROVE  /\ scn' = scn /\ (restarts' = 0 => restarts = 0) /\ (failed => failed')
         /\ First' = First /\ FirstChain' = FirstChain /\ At' = At /\ (ShortLived' <=> ShortLived)
         /\ (Defective' <=> Defective) /\ (Repeatable' <=> Repeatable) /\ (Lasting' => Lasting)
<1>1. scn' = scn /\ (restarts' = 0 => restarts = 0) /\ (failed => failed')
  <2>1. CASE Call
    <3>1. scn' = scn /\ failed' = failed BY <2>1, CallAppends DEF Elsewhere, verdicts
    <3>2. restarts' = 0 => restarts = 0
      <4>1. restarts' = restarts \/ restarts' = restarts + 1
        BY <2>1 DEF Call, Skip, Unreachable, CutOff, Accepted, RefusedNotResent, RefusedResent, Wiped, backend
      <4> QED BY <4>1 DEF Typed
    <3> QED BY <3>1, <3>2
  <2>2. CASE Stop
    <3>1. restarts' = restarts + 1 BY <2>2 DEF Stop, Wiped
    <3> QED BY <2>2, <3>1 DEF Stop, Typed, verdicts
  <2>3. Absorb => (failed => failed') BY Zenon DEF Absorb
  <2>4. CASE AnAttempt
    <3>1. UNCHANGED <<scn, restarts>> /\ (UNCHANGED verdicts \/ Absorb) BY <2>4, AttemptEnds
    <3> QED BY <2>3, <3>1 DEF verdicts
  <2>5. CASE LastChain BY <2>3, <2>5 DEF LastChain, backend
  <2>6. CASE Start \/ Exit \/ UNCHANGED vars
    <3>1. UNCHANGED <<scn, restarts, failed>> BY <2>6 DEF Start, Exit, vars, backend, verdicts
    <3> QED BY <3>1
  <2>7. CASE Probing
    <3>1. UNCHANGED <<scn, restarts, failed>>
      BY <2>7 DEF Probing, HoldFirst, ProbeFirst, ProbeHalf, ProbeFull, backend, verdicts
    <3> QED BY <3>1
  <2> QED BY <2>1, <2>2, <2>4, <2>5, <2>6, <2>7, Kinds
<1>2. /\ First' = First /\ FirstChain' = FirstChain /\ At' = At /\ (ShortLived' <=> ShortLived)
      /\ (Defective' <=> Defective)
  BY <1>1 DEF First, FirstChain, At, ShortLived, Defective
<1>3. (Visible' <=> Visible) /\ (UsedBefore' <=> UsedBefore)
  BY <1>1, <1>2 DEF Visible, UsedBefore
<1>4. Repeatable' <=> Repeatable
  BY <1>1, <1>2, <1>3 DEF Repeatable
<1> QED BY <1>1, <1>2, <1>4 DEF Lasting

\* The gate runs shrt verify on the first chain only when it has a safe spot.
Opening == ci = 1 /\ what = "verify" => First = "verify"

\* It does so from the first step on.
LEMMA InitOpening == Init => Opening
BY DEF Init, Opening, First

\* Every step of a gate keeps it.
LEMMA StepOpening ==
  ASSUME Typed, Opening, [Next]_vars
  PROVE  Opening'
<1>1. First' = First BY LastingBack
<1>2. CASE Call BY <1>1, <1>2, CallAppends DEF Elsewhere, Opening
<1>3. CASE AnAttempt
  <2>1. CASE Retry BY <1>1, <2>1 DEF Retry, Begin, Opening
  <2>2. CASE RunToo BY <2>2 DEF RunToo, Begin, Opening
  <2>3. CASE NextChain
    <3>1. ci' = ci + 1 /\ ci \in Nat /\ ci # 0 BY <2>3, Chains DEF NextChain, Begin
    <3> QED BY <3>1 DEF Opening
  <2> QED BY <1>3, <2>1, <2>2, <2>3 DEF AnAttempt
<1>4. CASE Probing
  <2>1. UNCHANGED <<ci, what>>
    BY <1>4 DEF Probing, HoldFirst, ProbeFirst, ProbeHalf, ProbeFull, attempt
  <2> QED BY <1>1, <2>1 DEF Opening
<1>5. CASE Stop \/ Start \/ LastChain \/ Exit \/ UNCHANGED vars
  <2>1. UNCHANGED <<ci, what>> BY <1>5 DEF Stop, Start, LastChain, Exit, vars, attempt
  <2> QED BY <1>1, <2>1 DEF Opening
<1> QED BY <1>2, <1>3, <1>4, <1>5, Kinds

\* Once the first command is over it is over.
LEMMA TryingIsOver ==
  ASSUME Typed, Opening, AnAttempt, ~Trying
  PROVE  ~Trying'
<1>1. First' = First
  <2>1. [Next]_vars BY DEF AnAttempt, Next
  <2> QED BY <2>1, LastingBack
<1>2. phase = "steps" BY AttemptEnds DEF Complete
<1>3. CASE Retry BY <1>1, <1>2, <1>3 DEF Retry, Begin, Trying
<1>4. CASE RunToo
  <2>1. ci' = ci /\ what = "verify" /\ what' = "run" BY <1>4 DEF RunToo, Begin
  <2>2. ci' # 1 \/ First = "verify" BY <2>1 DEF Opening
  <2> QED BY <1>1, <2>1, <2>2 DEF Trying
<1>5. CASE NextChain
  <2>1. ci' = ci + 1 /\ ci \in Nat /\ ci # 0 BY <1>5, Chains DEF NextChain, Begin
  <2> QED BY <2>1 DEF Trying
<1> QED BY <1>3, <1>4, <1>5 DEF AnAttempt

\* Every step of a gate keeps it.
LEMMA StepDefectSeen ==
  ASSUME Typed, Green, Opening, DefectSeen, [Next]_vars
  PROVE  DefectSeen'
<1> SUFFICES ASSUME Lasting', Defective' PROVE DefectSeen' BY DEF DefectSeen
<1>a. /\ Lasting /\ Defective /\ scn' = scn /\ restarts = 0 /\ restarts' = 0 /\ (failed => failed')
      /\ First' = First /\ FirstChain' = FirstChain /\ At' = At
  BY LastingBack DEF Lasting
<1>b. /\ up /\ (~Trying => failed) /\ (exit # -1 => exit = 1)
      /\ Trying => /\ Kept /\ DefectTry
                   /\ \/ try = 1 /\ hist[1] = <<>>
                      \/ try = 2 /\ \E r \in Records(FirstChain) : hist[1] = <<r>> /\ Sighted(r)
  BY <1>a DEF DefectSeen
<1>s. (\A r : Sighted(r)' <=> Sighted(r)) /\ Records(FirstChain)' = Records(FirstChain)
  BY <1>a DEF Sighted, Shows, EndsAt, AtDefect, Resends, UsedBefore, Records
<1>1. CASE Call
  <2>1. UNCHANGED Elsewhere BY <1>1, CallAppends
  <2>2. UNCHANGED <<phase, ci, what, try, hist, failed, exit>> BY <2>1 DEF Elsewhere, verdicts
  <2>3. Trying' <=> Trying BY <1>a, <2>2 DEF Trying
  <2>4. up'
    <3>1. up' = up \/ CutOff
      BY <1>1 DEF Call, Skip, Unreachable, Accepted, RefusedNotResent, RefusedResent, backend
    <3>2. ~CutOff BY <1>a DEF CutOff, Wiped
    <3> QED BY <1>b, <3>1, <3>2
  <2>5. Trying => Kept' /\ DefectTry' BY <1>1, <1>a, <1>b, CallShows
  <2> QED BY <1>b, <1>s, <2>2, <2>3, <2>4, <2>5 DEF DefectSeen
<1>2. CASE Stop BY <1>2, <1>a DEF Stop, Wiped
<1>3. CASE Start \/ UNCHANGED vars
  <2>1. UNCHANGED <<scn, up, data, token, ci, what, try, rec, accepted, cached, hist, failed, phase, exit>>
    BY <1>3, <1>b DEF Start, vars, backend, attempt, verdicts
  <2>2. (Trying' <=> Trying) /\ (Kept' <=> Kept) BY <1>a, <2>1 DEF Trying, Kept, Chain
  <2>3. DefectTry' <=> DefectTry
    BY <1>a, <2>1 DEF DefectTry, Shows, EndsAt, AtDefect, Resends, UsedBefore, Chain
  <2> QED BY <1>b, <1>s, <2>1, <2>2, <2>3 DEF DefectSeen
<1>4. CASE AnAttempt
  <2>1. /\ Complete /\ phase = "steps" /\ UNCHANGED <<up, token, exit>> /\ rec' = <<>> /\ DOMAIN rec' = {}
        /\ hist' = [hist EXCEPT ![ci] = Append(@, rec)] /\ phase' = "steps"
        /\ accepted' = [p \in Profiles |-> FALSE] /\ cached' = [p \in Profiles |-> token[p] # "none"]
    BY <1>4, AttemptEnds DEF Complete
  <2>2. CASE ~Trying
    <3>1. failed' BY <1>a, <1>b, <2>2
    <3>2. ~Trying' BY <1>4, <2>2, TryingIsOver
    <3> QED BY <1>b, <2>1, <3>1, <3>2 DEF DefectSeen
  <2>3. CASE Trying
    <3>1. /\ Sighted(rec) /\ Outcome.code \in {1, 3}
          /\ try = 2 => Outcome.code = 1
      BY <1>a, <1>b, <2>1, <2>3, DefectJudged
    <3>2. CASE Retry
      <4>1. try = 1 /\ ci = 1 /\ ci' = ci /\ what' = what /\ try' = 2 /\ UNCHANGED failed /\ hist[1] = <<>>
        BY <1>b, <2>3, <3>2 DEF Retry, Begin, Trying, verdicts, Tries
      <4>2. rec \in Records(FirstChain) /\ 1 \in DOMAIN hist BY <4>1 DEF Typed, Chain, FirstChain
      <4>3. hist'[1] = <<rec>> BY <2>1, <4>1, <4>2
      <4>4. Trying' BY <1>a, <2>1, <2>3, <4>1 DEF Trying
      <4>5. Kept' BY <2>1 DEF Kept
      <4>6. DefectTry'
        <5>1. Shows(rec)' BY <2>1 DEF Shows
        <5>2. \A p \in Profiles : token'[p] # "dead" /\ ~accepted'[p] BY <1>b, <2>1, <2>3 DEF DefectTry
        <5>3. ASSUME scn'.defect.kind = "auth", Resends', ~(FirstChain[At].read)'
              PROVE  token'[FirstChain[At].profile] # "none" /\ cached'[FirstChain[At].profile]
          <6> DEFINE p == FirstChain[At].profile
          <6>1. p \in Profiles
            <7>1. At \in DOMAIN FirstChain /\ Chain = FirstChain
              BY <1>a, <4>1, Chains DEF Shape, Defective, At, FirstChain, Chain
            <7> QED BY <7>1, Chains
          <6>2. token[p] # "none"
            BY <1>a, <1>b, <2>3, <5>3 DEF DefectTry, Resends, UsedBefore
          <6> HIDE DEF p
          <6>3. cached'[p] <=> token[p] # "none" BY <2>1, <6>1, Zenon
          <6> QED BY <2>1, <6>2, <6>3 DEF p
        <5> QED BY <1>a, <2>1, <5>1, <5>2, <5>3 DEF DefectTry
      <4> QED BY <1>b, <1>s, <2>1, <3>1, <4>1, <4>2, <4>3, <4>4, <4>5, <4>6 DEF DefectSeen
    <3>3. CASE RunToo \/ NextChain
      <4>1. Final /\ Absorb BY <3>3 DEF RunToo, NextChain, Done
      <4>2. Outcome.code = 1
        <5>1. try = 1 \/ try = 2 BY <1>b, <2>3
        <5>2. Outcome.code = 3 => try # 1 BY <4>1 DEF Final, Tries
        <5> QED BY <3>1, <5>1, <5>2
      <4>3. failed' BY <4>1, <4>2 DEF Absorb
      <4>4. ~Trying'
        <5>1. CASE RunToo BY <1>a, <2>3, <5>1 DEF RunToo, Begin, Trying
        <5>2. CASE NextChain BY <2>3, <5>2 DEF NextChain, Begin, Trying
        <5> QED BY <3>3, <5>1, <5>2
      <4> QED BY <1>b, <2>1, <4>3, <4>4 DEF DefectSeen
    <3> QED BY <1>4, <3>2, <3>3 DEF AnAttempt
  <2> QED BY <2>2, <2>3
<1>5. CASE LastChain
  <2>1. Final /\ Complete /\ Absorb /\ phase' = "check" /\ UNCHANGED <<up, exit>>
    BY <1>5 DEF LastChain, Done, Final, backend
  <2>2. failed'
    <3>1. CASE ~Trying BY <1>a, <1>b, <3>1
    <3>2. CASE Trying
      <4>1. /\ Outcome.code \in {1, 3}
            /\ try = 2 => Outcome.code = 1
        BY <1>a, <1>b, <2>1, <3>2, DefectJudged
      <4>2. try = 1 \/ try = 2 BY <1>b, <3>2
      <4>3. Outcome.code = 3 => try # 1 BY <2>1 DEF Final, Tries
      <4>4. Outcome.code = 1 BY <4>1, <4>2, <4>3
      <4> QED BY <2>1, <4>4 DEF Absorb
    <3> QED BY <3>1, <3>2
  <2>3. ~Trying' BY <2>1 DEF Trying
  <2> QED BY <1>b, <2>1, <2>2, <2>3 DEF DefectSeen
<1>6. CASE Probing
  <2>1. phase # "steps" /\ UNCHANGED <<up, phase, exit>>
    BY <1>6 DEF Probing, HoldFirst, ProbeFirst, ProbeHalf, ProbeFull, backend
  <2>2. ~Trying /\ ~Trying' BY <2>1 DEF Trying
  <2> QED BY <1>a, <1>b, <2>1, <2>2 DEF DefectSeen
<1>7. CASE Exit
  <2>1. phase = "check" /\ phase' = "done" /\ up' = up BY <1>7 DEF Exit, backend
  <2>2. ~Trying /\ ~Trying' BY <2>1 DEF Trying
  <2>3. exit' = 1 BY <1>7, <1>b, <2>2 DEF Exit
  <2> QED BY <1>a, <1>b, <2>1, <2>2, <2>3 DEF DefectSeen
<1> QED BY <1>1, <1>2, <1>3, <1>4, <1>5, <1>6, <1>7, Kinds

(***************************************************************************)
(* Sessions that are good for one call                                     *)
(***************************************************************************)
\* A token of profile p was accepted before step n, and not refused since.
HeldBefore(r, n, p) ==
  \E i \in 1 .. (n - 1) : /\ FirstChain[i].profile = p /\ r[i].status = "passed"
                          /\ \A j \in (i + 1) .. (n - 1) : FirstChain[j].profile = p => r[j].status # "error"

\* How step n of the first chain ends when a session is good for one call: the
\* token held is refused, early, and only a read is sent again.
RuledAs(r, n, e) ==
  IF \E q \in FirstChain[n].reads : r[q].status # "passed" THEN e = Omit
  ELSE /\ e.status = IF HeldBefore(r, n, FirstChain[n].profile) /\ ~FirstChain[n].read THEN "error" ELSE "passed"
       /\ e.answer = IF e.status = "passed" THEN "ok" ELSE "unauth"
       /\ RefusedInRun(e) <=> HeldBefore(r, n, FirstChain[n].profile)
Ruled(r) == \A n \in DOMAIN r : RuledAs(r, n, r[n])

\* A token accepted in this process is dead, and in the first try no other is.
ShortTry ==
  /\ Ruled(rec) /\ (try = 1 => \A n \in DOMAIN rec : RefusedEarly(rec[n]) => RefusedInRun(rec[n]))
  /\ \A p \in Profiles :
       /\ accepted[p] <=> HeldBefore(rec, Len(rec) + 1, p)
       /\ accepted[p] => token[p] = "dead"
       /\ token[p] = "dead" => accepted[p] \/ (cached[p] /\ try = 2)

\* A try in which a call that is not sent again was refused.
Refuses(r) == Ruled(r) /\ \E n \in DOMAIN r : r[n].status = "error"

\* A profile was refused early, and a read is known to hold a token with.
Evident == \E p \in Profiles : early[p] > 0 /\ p \in readable

ShortSeen ==
  Lasting /\ ShortLived =>
    /\ up
    /\ Trying => /\ Kept /\ ShortTry
                 /\ \/ try = 1 /\ hist[1] = <<>>
                    \/ try = 2 /\ \E r \in Records(FirstChain) : hist[1] = <<r>> /\ Refuses(r)
    /\ ~Trying => failed \/ Evident
    /\ \A p \in Profiles : check[p].stage = "over" => causes # {}
    /\ exit # -1 => exit = 1

\* Which tokens are held looks at what came before only.
LEMMA HeldSame ==
  ASSUME NEW r, NEW s, NEW n \in Nat, \A i \in 1 .. (n - 1) : r[i].status = s[i].status, NEW p
  PROVE  HeldBefore(r, n, p) <=> HeldBefore(s, n, p)
<1>1. \A i \in 1 .. (n - 1) : \A j \in (i + 1) .. (n - 1) : j \in 1 .. (n - 1) OBVIOUS
<1> QED BY <1>1 DEF HeldBefore

\* What step n adds to it.
LEMMA HeldNext ==
  ASSUME NEW r, NEW n \in Nat, n # 0, NEW p
  PROVE  HeldBefore(r, n + 1, p) <=>
           IF FirstChain[n].profile = p /\ r[n].status \in {"passed", "error"} THEN r[n].status = "passed"
           ELSE HeldBefore(r, n, p)
<1>1. HeldBefore(r, n + 1, p) <=>
        \E i \in 1 .. n : /\ FirstChain[i].profile = p /\ r[i].status = "passed"
                          /\ \A j \in (i + 1) .. n : FirstChain[j].profile = p => r[j].status # "error"
  <2>1. (n + 1) - 1 = n OBVIOUS
  <2> QED BY <2>1 DEF HeldBefore
<1>2. \A i : i \in 1 .. n <=> i \in 1 .. (n - 1) \/ i = n OBVIOUS
<1>3. \A i \in 1 .. (n - 1) : \A j : j \in (i + 1) .. n <=> j \in (i + 1) .. (n - 1) \/ j = n OBVIOUS
<1>4. \A j : j \notin (n + 1) .. n OBVIOUS
<1>5. CASE FirstChain[n].profile = p /\ r[n].status = "passed"
  BY <1>1, <1>2, <1>4, <1>5
<1>6. CASE FirstChain[n].profile = p /\ r[n].status = "error"
  <2>1. \A i \in 1 .. (n - 1) : n \in (i + 1) .. n OBVIOUS
  <2> QED BY <1>1, <1>2, <1>6, <2>1
<1>7. CASE ~(FirstChain[n].profile = p /\ r[n].status \in {"passed", "error"})
  <2>1. \A i \in 1 .. (n - 1) :
          (\A j \in (i + 1) .. n : FirstChain[j].profile = p => r[j].status # "error")
            <=> \A j \in (i + 1) .. (n - 1) : FirstChain[j].profile = p => r[j].status # "error"
    BY <1>3, <1>7
  <2>2. HeldBefore(r, n + 1, p) <=>
        \E i \in 1 .. (n - 1) : /\ FirstChain[i].profile = p /\ r[i].status = "passed"
                                /\ \A j \in (i + 1) .. n : FirstChain[j].profile = p => r[j].status # "error"
    BY <1>1, <1>2, <1>7
  <2> QED BY <1>7, <2>1, <2>2 DEF HeldBefore
<1> QED BY <1>5, <1>6, <1>7

\* Nor does how a step ends.
LEMMA RuledSame ==
  ASSUME NEW r, NEW s, NEW n \in Nat, \A i \in 1 .. (n - 1) : r[i].status = s[i].status,
         FirstChain[n].reads \subseteq 1 .. (n - 1), NEW e
  PROVE  RuledAs(r, n, e) <=> RuledAs(s, n, e)
<1>1. HeldBefore(r, n, FirstChain[n].profile) <=> HeldBefore(s, n, FirstChain[n].profile) BY HeldSame
<1>2. (\E q \in FirstChain[n].reads : r[q].status # "passed") <=> \E q \in FirstChain[n].reads : s[q].status # "passed"
  OBVIOUS
<1> QED BY <1>1, <1>2 DEF RuledAs

\* What a call can end in when a session is good for one call.
LEMMA ShortCall ==
  ASSUME Typed, Lasting, ShortLived, up, Trying, Kept, ShortTry, Call, restarts' = 0
  PROVE  \E e \in Entries :
           /\ rec' = Append(rec, e) /\ RuledAs(rec, Len(rec) + 1, e)
           /\ try = 1 /\ RefusedEarly(e) => RefusedInRun(e)
           /\ up' = up /\ data \subseteq data' /\ (e.status = "passed" /\ ~Step.read => Len(rec) + 1 \in data')
           /\ e.status \in {"passed", "error", "skipped"}
           /\ \A p \in Profiles : p # Step.profile => /\ token'[p] = token[p] /\ (accepted'[p] <=> accepted[p])
                                                      /\ (cached'[p] <=> cached[p])
           /\ e.status = "skipped" => UNCHANGED <<token, accepted, cached>>
           /\ e.status = "passed" => token'[Step.profile] = "dead" /\ accepted'[Step.profile]
           /\ e.status = "error" => token'[Step.profile] = "none" /\ ~accepted'[Step.profile]
<1> DEFINE k == Len(rec) + 1
           p == Step.profile
<1>c. ci = 1 /\ Chain = FirstChain /\ Running /\ UNCHANGED Elsewhere
  BY CallAppends DEF Trying, Chain, FirstChain
<1>k. /\ k \in 1 .. Len(Chain) /\ Len(rec) \in Nat /\ k \in Nat /\ p \in Profiles
      /\ Step.reads \subseteq 1 .. Len(rec) /\ Step = FirstChain[k] /\ Step.read \in BOOLEAN
  BY <1>c, StepToCome DEF Step
<1>r. rec \in Seq(Entries) /\ DOMAIN rec = 1 .. Len(rec) /\ Step.reads \subseteq DOMAIN rec
  BY <1>k, OnFile
<1>t. token \in [Profiles -> Tokens] /\ accepted \in [Profiles -> BOOLEAN] /\ cached \in [Profiles -> BOOLEAN]
      /\ restarts = 0 /\ scn.stated = TRUE
  <2>1. scn.stated BY DEF Lasting, Repeatable, Visible, ShortLived
  <2>2. scn.stated \in BOOLEAN BY Chains DEF Shape
  <2> QED BY <2>1, <2>2 DEF Typed, Lasting
<1>h. /\ accepted[p] <=> HeldBefore(rec, k, p)
      /\ accepted[p] => token[p] = "dead"
      /\ token[p] = "dead" => accepted[p] \/ (cached[p] /\ try = 2)
  BY <1>k DEF ShortTry
<1>e. PICK e \in Entries : rec' = Append(rec, e) BY CallAppends
<1>n. ASSUME NEW x, rec' = Append(rec, x) PROVE e = x
  BY <1>e, <1>n, <1>r, SameEntry
<1>d. \A kind \in {"auth", "drop", "wrong"} : ~Defect(kind, k)
  BY DEF Defect, ShortLived
<1>p. ASSUME Sending PROVE \A r \in Step.reads : rec[r].status = "passed"
  BY <1>p, <1>r DEF Sending, Running, Behind, Typed
<1>w. ASSUME Sending PROVE Answer = "ok"
  <2>1. \A r \in Step.reads : ~Chain[r].read
    <3>1. Step = Chain[k] BY DEF Step
    <3> QED BY <1>k, <3>1, Chains
  <2>2. Step.reads \subseteq data BY <1>p, <1>r, <1>w, <2>1 DEF Kept
  <2> QED BY <1>d, <2>2 DEF Answer
<1>u. ASSUME Sending PROVE ~\E q \in FirstChain[k].reads : rec[q].status # "passed"
  BY <1>k, <1>p, <1>u
<1>1. CASE Skip
  <2>1. e = Omit BY <1>1, <1>n DEF Skip, Omit
  <2>2. ~Unreached
    <3>1. \A n \in DOMAIN rec : rec[n].answer # "unsent"
      BY DEF ShortTry, Ruled, RuledAs, Omit, Entry
    <3> QED BY <3>1 DEF Unreached
  <2>3. Behind BY <1>1, <2>2 DEF Skip
  <2>4. RuledAs(rec, k, e) BY <1>k, <2>1, <2>3 DEF Behind, RuledAs
  <2>5. e.status = "skipped" /\ ~RefusedEarly(e) BY <2>1 DEF Omit, Entry, RefusedEarly
  <2> QED BY <1>1, <1>e, <2>4, <2>5 DEF Skip, backend
<1>2. CASE Unreachable BY <1>2 DEF Unreachable
<1>3. CASE CutOff BY <1>3, <1>t DEF CutOff, Wiped
<1>4. CASE Accepted
  <2>1. Sending /\ token[p] # "dead" /\ up' = up BY <1>4 DEF Accepted, Accepts
  <2>2. e = Ok
    <3>1. StatusOf("ok") = "passed" BY DEF StatusOf
    <3> QED BY <1>4, <1>n, <1>w, <2>1, <3>1 DEF Accepted, Ok
  <2>3. /\ data' = Written("ok") /\ token' = [token EXCEPT ![p] = "dead"]
        /\ accepted' = [accepted EXCEPT ![p] = @ \/ Answer # "lost"]
        /\ cached' = [cached EXCEPT ![p] = @ /\ token[p] # "none"]
    BY <1>4, <1>w, <2>1 DEF Accepted, Used
  <2>4. ~RefusedEarly(e) /\ ~RefusedInRun(e) /\ e.status = "passed" /\ e.answer = "ok"
    BY <2>2 DEF Ok, Entry, RefusedEarly, RefusedInRun
  <2>5. RuledAs(rec, k, e) BY <1>h, <1>k, <1>u, <2>1, <2>4 DEF RuledAs
  <2>6. accepted'[p] BY <1>k, <1>t, <1>w, <2>1, <2>3
  <2>7. \A q \in Profiles : q # p => token'[q] = token[q] /\ (accepted'[q] <=> accepted[q]) /\ (cached'[q] <=> cached[q])
    BY <1>t, <2>3
  <2>8. data \subseteq data' /\ (~Step.read => k \in data') BY <2>3 DEF Written
  <2>9. token'[p] = "dead" BY <1>k, <1>t, <2>3
  <2> QED BY <1>e, <2>1, <2>4, <2>5, <2>6, <2>7, <2>8, <2>9
<1>5. CASE RefusedNotResent
  <2>1. Sending /\ token[p] = "dead" /\ ~Step.read /\ ~UntriedCached
    BY <1>5, <1>d DEF RefusedNotResent, Accepts
  <2>2. e = [status |-> "error", answer |-> "unauth", retry |-> "not_resent", refused |-> {Refusal},
             fresh |-> IF accepted[p] THEN "accepted" ELSE "minted"]
    BY <1>5, <1>n, Zenon DEF RefusedNotResent
  <2>3. accepted[p] BY <1>h, <2>1 DEF UntriedCached, FromCache
  <2>4. Refusal.early /\ ~Refusal.first BY <1>t, <2>3 DEF Refusal
  <2>5. RefusedInRun(e) /\ e.status = "error" /\ e.answer = "unauth" BY <2>2, <2>4 DEF RefusedInRun
  <2>6. RuledAs(rec, k, e) BY <1>h, <1>k, <1>u, <2>1, <2>3, <2>5 DEF RuledAs
  <2>7. /\ up' = up /\ data' = data /\ token' = [token EXCEPT ![p] = "none"]
        /\ accepted' = [accepted EXCEPT ![p] = FALSE] /\ cached' = [cached EXCEPT ![p] = FALSE]
    BY <1>5 DEF RefusedNotResent
  <2> QED BY <1>e, <1>k, <1>t, <2>5, <2>6, <2>7
<1>6. ASSUME NEW restart \in BOOLEAN, RefusedResent(restart)
      PROVE  /\ RuledAs(rec, k, e) /\ (try = 1 /\ RefusedEarly(e) => RefusedInRun(e))
             /\ up' = up /\ data \subseteq data' /\ (~Step.read => k \in data') /\ e.status = "passed"
             /\ token' = [token EXCEPT ![p] = "dead"]
             /\ accepted' = [accepted EXCEPT ![p] = TRUE] /\ cached' = [cached EXCEPT ![p] = FALSE]
  <2>1. Sending /\ token[p] = "dead" /\ (Step.read \/ UntriedCached)
    BY <1>6, <1>d DEF RefusedResent, Accepts
  <2>2. ~restart BY <1>6, <1>t DEF RefusedResent, Wiped
  <2>3. ~Defect("auth", k) /\ Answer = "ok" BY <1>d, <1>w, <2>1
  <2>4. /\ e.status = StatusOf("ok") /\ e.answer = "ok" /\ e.refused = {Refusal}
        /\ token' = [token EXCEPT ![p] = "dead"] /\ data' = Written("ok") /\ up' = up
    BY <1>6, <1>n, <2>2, <2>3 DEF RefusedResent, Used
  <2>5. accepted' = [accepted EXCEPT ![p] = TRUE] /\ cached' = [cached EXCEPT ![p] = FALSE]
    BY <1>6, <2>2, <2>3 DEF RefusedResent
  <2>6. e.status = "passed" /\ data \subseteq data' /\ (~Step.read => k \in data') BY <2>4 DEF StatusOf, Written
  <2>7. Refusal.early /\ (Refusal.first <=> ~accepted[p]) BY <1>k, <1>t DEF Refusal
  <2>8. RefusedInRun(e) <=> accepted[p] BY <2>4, <2>7 DEF RefusedInRun
  <2>9. ~Step.read => ~accepted[p] BY <2>1 DEF UntriedCached
  <2>10. RuledAs(rec, k, e) BY <1>h, <1>k, <1>u, <2>1, <2>4, <2>6, <2>8, <2>9 DEF RuledAs
  <2>11. try = 1 => RefusedInRun(e) BY <1>h, <2>1, <2>8
  <2> QED BY <2>4, <2>5, <2>6, <2>10, <2>11
<1>7. ASSUME NEW restart \in BOOLEAN, RefusedResent(restart)
      PROVE  /\ \A q \in Profiles : q # p => token'[q] = token[q] /\ (accepted'[q] <=> accepted[q]) /\ (cached'[q] <=> cached[q])
             /\ token'[p] = "dead" /\ accepted'[p]
  <2>1. /\ token' = [token EXCEPT ![p] = "dead"] /\ accepted' = [accepted EXCEPT ![p] = TRUE]
        /\ cached' = [cached EXCEPT ![p] = FALSE]
    BY <1>6, <1>7
  <2> QED BY <1>k, <1>t, <2>1
<1> QED BY <1>1, <1>2, <1>3, <1>4, <1>5, <1>6, <1>7, <1>e DEF Call

\* A call keeps it.
LEMMA CallShort ==
  ASSUME Typed, Lasting, ShortLived, up, Trying, Kept, ShortTry, Call, restarts' = 0
  PROVE  up' /\ Kept' /\ ShortTry'
<1> DEFINE k == Len(rec) + 1
           p == Step.profile
<1>1. PICK e \in Entries :
           /\ rec' = Append(rec, e) /\ RuledAs(rec, k, e)
           /\ try = 1 /\ RefusedEarly(e) => RefusedInRun(e)
           /\ up' = up /\ data \subseteq data' /\ (e.status = "passed" /\ ~Step.read => k \in data')
           /\ e.status \in {"passed", "error", "skipped"}
           /\ \A q \in Profiles : q # p => /\ token'[q] = token[q] /\ (accepted'[q] <=> accepted[q])
                                           /\ (cached'[q] <=> cached[q])
           /\ e.status = "skipped" => UNCHANGED <<token, accepted, cached>>
           /\ e.status = "passed" => token'[p] = "dead" /\ accepted'[p]
           /\ e.status = "error" => token'[p] = "none" /\ ~accepted'[p]
  BY ShortCall
<1>2. UNCHANGED Elsewhere /\ Running BY CallAppends
<1>3. UNCHANGED <<scn, ci, try>> /\ Chain' = Chain /\ FirstChain' = FirstChain /\ Chain = FirstChain
  BY <1>2 DEF Elsewhere, Chain, FirstChain, Trying
<1>4. rec \in Seq(Entries) BY OnFile
<1>5. /\ DOMAIN rec' = 1 .. k /\ DOMAIN rec = 1 .. Len(rec) /\ Len(rec) \in Nat /\ Len(rec') = k /\ k \in Nat
      /\ rec'[k] = e /\ \A i \in DOMAIN rec : rec'[i] = rec[i]
  BY <1>1, <1>4
<1>6. \A i : i \in DOMAIN rec' <=> i \in DOMAIN rec \/ i = k BY <1>5
<1>7. Step = Chain[k] /\ p \in Profiles /\ k \in DOMAIN Chain /\ k # 0
  <2>1. k \in 1 .. Len(Chain) BY <1>2, StepToCome
  <2> QED BY <1>2, <2>1, StepToCome, Chains DEF Step
<1>8. Kept'
  <2>1. \A i \in DOMAIN rec' : ~Chain[i].read /\ rec'[i].status = "passed" => i \in data'
    <3> HIDE DEF k
    <3> QED BY <1>1, <1>5, <1>6, <1>7 DEF Kept
  <2> QED BY <1>3, <2>1 DEF Kept
<1>9. \A n \in DOMAIN rec' : FirstChain[n].reads \subseteq 1 .. (n - 1) /\ n \in Nat
                            /\ \A i \in 1 .. (n - 1) : i \in DOMAIN rec
  <2>1. \A n \in DOMAIN rec' : n \in 1 .. Len(Chain)
    <3>1. k \in 1 .. Len(Chain) /\ Len(Chain) \in Nat BY <1>2, StepToCome
    <3> QED BY <1>5, <3>1
  <2> QED BY <1>3, <1>5, <2>1, Chains
<1>10. \A n \in DOMAIN rec' : RuledAs(rec', n, rec'[n])
  <2>1. ASSUME NEW n \in DOMAIN rec' PROVE RuledAs(rec', n, rec'[n]) <=> RuledAs(rec, n, rec'[n])
    <3>1. \A i \in 1 .. (n - 1) : rec'[i].status = rec[i].status BY <1>5, <1>9
    <3> QED BY <1>9, <3>1, RuledSame
  <2>2. ASSUME NEW n \in DOMAIN rec' PROVE RuledAs(rec, n, rec'[n])
    <3> HIDE DEF k
    <3> QED BY <1>1, <1>5, <1>6 DEF ShortTry, Ruled
  <2> QED BY <2>1, <2>2
<1>11. Ruled(rec)' BY <1>3, <1>10 DEF Ruled, RuledAs, HeldBefore
<1>12. try = 1 => \A n \in DOMAIN rec' : RefusedEarly(rec'[n]) => RefusedInRun(rec'[n])
  <2> HIDE DEF k
  <2> QED BY <1>1, <1>5, <1>6 DEF ShortTry
<1>13. ASSUME NEW q \in Profiles
       PROVE  HeldBefore(rec', k + 1, q) <=>
                IF p = q /\ e.status \in {"passed", "error"} THEN e.status = "passed" ELSE HeldBefore(rec, k, q)
  <2>1. HeldBefore(rec', k, q) <=> HeldBefore(rec, k, q)
    <3>1. \A i \in 1 .. (k - 1) : rec'[i].status = rec[i].status BY <1>5
    <3> HIDE DEF k
    <3> QED BY <1>5, <3>1, HeldSame
  <2>2. HeldBefore(rec', k + 1, q) <=>
          IF FirstChain[k].profile = q /\ rec'[k].status \in {"passed", "error"} THEN rec'[k].status = "passed"
          ELSE HeldBefore(rec', k, q)
    <3> HIDE DEF k
    <3> QED BY <1>5, <1>7, HeldNext
  <2> QED BY <1>3, <1>5, <1>7, <2>1, <2>2
<1>14. ASSUME NEW q \in Profiles
       PROVE  /\ accepted[q] <=> HeldBefore(rec, k, q)
              /\ accepted[q] => token[q] = "dead"
              /\ token[q] = "dead" => accepted[q] \/ (cached[q] /\ try = 2)
  BY DEF ShortTry
<1>15. ASSUME NEW q \in Profiles
       PROVE  /\ accepted'[q] <=> HeldBefore(rec', k + 1, q)
              /\ accepted'[q] => token'[q] = "dead"
              /\ token'[q] = "dead" => accepted'[q] \/ (cached'[q] /\ try' = 2)
  <2> HIDE DEF k, p
  <2>1. CASE q # p BY <1>1, <1>3, <1>13, <1>14, <2>1
  <2>2. CASE q = p /\ e.status = "skipped" BY <1>1, <1>3, <1>13, <1>14, <2>2
  <2>3. CASE q = p /\ e.status = "passed" BY <1>1, <1>3, <1>13, <2>3
  <2>4. CASE q = p /\ e.status = "error" BY <1>1, <1>3, <1>13, <2>4
  <2> QED BY <1>1, <2>1, <2>2, <2>3, <2>4
<1>16. \A q \in Profiles : HeldBefore(rec, Len(rec) + 1, q)' <=> HeldBefore(rec', k + 1, q)
  BY <1>3, <1>5 DEF HeldBefore
<1>17. ShortTry'
  <2> HIDE DEF k
  <2> QED BY <1>3, <1>11, <1>12, <1>15, <1>16 DEF ShortTry
<1> QED BY <1>1, <1>8, <1>17

\* The first step that did not pass was refused, and all before it were answered.
SplitAt(r, e) ==
  /\ e \in DOMAIN r /\ r[e].status = "error"
  /\ \A n \in DOMAIN r : n < e => r[n].status = "passed" /\ r[n].answer = "ok"

\* There is such a step when not all passed.
LEMMA FirstRefused ==
  ASSUME NEW r \in Seq(Entries), Ruled(r), \A n \in DOMAIN r : FirstChain[n].reads \subseteq 1 .. (n - 1),
         \E n \in DOMAIN r : r[n].status # "passed"
  PROVE  \E e \in DOMAIN r : SplitAt(r, e)
<1> DEFINE S == {n \in DOMAIN r : r[n].status # "passed"}
           e == Min(S)
<1>1. e \in S /\ \A y \in S : e <= y
  <2>1. S \subseteq Nat /\ S # {} OBVIOUS
  <2> HIDE DEF S
  <2> QED BY <2>1, MinIsLeast
<1> HIDE DEF e
<1>2. e \in DOMAIN r /\ r[e].status # "passed" /\ \A n \in DOMAIN r : n < e => r[n].status = "passed"
  BY <1>1
<1>3. \A q \in FirstChain[e].reads : q \in DOMAIN r /\ q < e
  BY <1>2
<1>4. r[e].status = "error" BY <1>2, <1>3 DEF Ruled, RuledAs
<1>5. \A n \in DOMAIN r : n < e => r[n].answer = "ok"
  <2>1. \A n \in DOMAIN r : r[n].status = "passed" => r[n].answer = "ok" BY DEF Ruled, RuledAs, Omit, Entry
  <2> QED BY <1>2, <2>1
<1> QED BY <1>2, <1>4, <1>5 DEF SplitAt

\* It is the same step in two tries.
LEMMA SameRefused ==
  ASSUME NEW r \in Seq(Entries), NEW q \in Seq(Entries), Ruled(r), Ruled(q),
         \A n \in DOMAIN r \cup DOMAIN q : FirstChain[n].reads \subseteq 1 .. (n - 1),
         NEW e \in DOMAIN q, SplitAt(q, e), e \in DOMAIN r \/ \E n \in DOMAIN r : r[n].status # "passed"
  PROVE  SplitAt(r, e)
<1>1. \E n \in DOMAIN r : r[n].status # "passed"
  <2> SUFFICES ASSUME \A n \in DOMAIN r : r[n].status = "passed" PROVE FALSE OBVIOUS
  <2>1. e \in DOMAIN r OBVIOUS
  <2>2. \A i \in 1 .. (e - 1) : r[i].status = q[i].status
    <3>1. \A i \in 1 .. (e - 1) : i \in DOMAIN r /\ i \in DOMAIN q /\ i < e BY <2>1
    <3> QED BY <3>1 DEF SplitAt
  <2>3. RuledAs(q, e, r[e])
    <3>1. RuledAs(r, e, r[e]) BY <2>1 DEF Ruled
    <3> QED BY <2>2, <3>1, RuledSame
  <2>4. RuledAs(q, e, q[e]) BY DEF Ruled
  <2>5. q[e].status = "error" /\ r[e].status = "passed" BY <2>1 DEF SplitAt
  <2> QED BY <2>3, <2>4, <2>5 DEF RuledAs, Omit, Entry
<1>2. PICK d \in DOMAIN r : SplitAt(r, d) BY <1>1, FirstRefused
<1>3. d = e
  <2>1. ASSUME NEW a \in Seq(Entries), NEW b \in Seq(Entries), Ruled(a), Ruled(b), NEW x \in DOMAIN a, NEW y \in DOMAIN b,
               SplitAt(a, x), SplitAt(b, y), x < y, FirstChain[x].reads \subseteq 1 .. (x - 1)
        PROVE  FALSE
    <3>1. x \in DOMAIN b /\ b[x].status = "passed" /\ a[x].status = "error" BY <2>1 DEF SplitAt
    <3>2. \A i \in 1 .. (x - 1) : a[i].status = b[i].status
      <4>1. \A i \in 1 .. (x - 1) : i \in DOMAIN a /\ i \in DOMAIN b /\ i < x /\ i < y BY <2>1, <3>1
      <4> QED BY <2>1, <4>1 DEF SplitAt
    <3>3. RuledAs(a, x, a[x]) /\ RuledAs(b, x, b[x]) BY <2>1, <3>1 DEF Ruled
    <3>4. RuledAs(a, x, b[x])
      <4>1. x \in Nat BY <2>1
      <4>2. RuledAs(a, x, b[x]) <=> RuledAs(b, x, b[x]) BY <2>1, <3>2, <4>1, RuledSame
      <4> QED BY <3>3, <4>2
    <3> QED BY <3>1, <3>3, <3>4 DEF RuledAs, Omit, Entry
  <2>2. ~(d < e) BY <1>2, <2>1
  <2>3. ~(e < d) BY <1>2, <2>1
  <2> QED BY <2>2, <2>3
<1> QED BY <1>2, <1>3

\* The service never says that data is not there, and it always answers.
LEMMA RuledQuiet ==
  ASSUME NEW c, NEW r \in Seq(Entries), Ruled(r), NEW i \in DOMAIN r
  PROVE  ~SessionRestartEvidence(c, r, i)
<1>1. \A n \in DOMAIN r : r[n].answer \in {"ok", "unauth", "none"} BY DEF Ruled, RuledAs, Omit, Entry
<1>2. (\A j \in 1 .. (i - 1) : j \in DOMAIN r) /\ (\A j \in (i + 1) .. Len(r) : j \in DOMAIN r) OBVIOUS
<1> QED BY <1>1, <1>2 DEF SessionRestartEvidence, UnansweredCall, Gone

\* A step that was refused early is one that a finding about sessions is at.
LEMMA LifetimeAt ==
  ASSUME NEW c, NEW r \in Seq(Entries), NEW h, Early(r) # {}
  PROVE  TokenLifetime(c, r, h).at \in Early(r)
<1> DEFINE all == Early(r)
           held == {i \in all : RefusedInRun(r[i])}
<1>1. all \subseteq Nat /\ all # {}
  <2>1. Early(r) \subseteq DOMAIN r BY LifetimeIs
  <2> QED BY <2>1
<1>2. Min(all) \in all
  <2> HIDE DEF all
  <2> QED BY <1>1, MinIsLeast
<1>3. held # {} => Min(held) \in all
  <2>1. held \subseteq all OBVIOUS
  <2>2. held \subseteq Nat BY <1>1
  <2> HIDE DEF held
  <2> QED BY <2>1, <2>2, MinIsLeast
<1>4. TokenLifetime(c, r, h).at = Min(all) \/ (held # {} /\ TokenLifetime(c, r, h).at = Min(held))
  BY DEF TokenLifetime
<1> HIDE DEF all, held
<1> QED BY <1>2, <1>3, <1>4 DEF all

\* Two tries whose tokens were refused at the same step show that sessions end early.
LEMMA ShortTwice ==
  ASSUME NEW r \in Seq(Entries), NEW q \in Seq(Entries), Ruled(r), Ruled(q),
         \A n \in DOMAIN r \cup DOMAIN q : FirstChain[n].reads \subseteq 1 .. (n - 1),
         NEW e, SplitAt(r, e), SplitAt(q, e)
  PROVE  LET l == TokenLifetime(FirstChain, r, <<q>>) IN l.finding /\ l.at # 0 /\ ~DriftedBefore(r, l.at)
<1> DEFINE l == TokenLifetime(FirstChain, r, <<q>>)
           all == Early(r)
           held == {i \in all : RefusedInRun(r[i])}
           first == Min(all)
           mine == Min(held)
<1>1. /\ e \in DOMAIN r /\ e \in DOMAIN q /\ r[e].status = "error"
      /\ \A n \in DOMAIN r : n < e => r[n].status = "passed" /\ r[n].answer = "ok"
      /\ \A n \in DOMAIN q : n < e => q[n].status = "passed"
  BY DEF SplitAt
<1>2. e \in held
  <2>1. RuledAs(r, e, r[e]) BY <1>1 DEF Ruled
  <2>2. RefusedInRun(r[e]) BY <1>1, <2>1 DEF RuledAs, Omit, Entry
  <2> QED BY <1>1, <2>2 DEF Early, RefusedEarly, RefusedInRun
<1>3. all \subseteq DOMAIN r /\ held \subseteq all /\ all \subseteq Nat
  <2>1. Early(r) \subseteq DOMAIN r BY LifetimeIs
  <2> QED BY <2>1
<1>4. /\ first \in all /\ first <= e
      /\ mine \in held /\ mine <= e
  <2>1. held \subseteq Nat /\ held # {} /\ all # {} /\ e \in all BY <1>2, <1>3
  <2> HIDE DEF all, held
  <2> QED BY <1>2, <1>3, <2>1, MinIsLeast
<1>5. ~SessionRestartEvidence(FirstChain, r, first)
  <2> HIDE DEF all, first
  <2> QED BY <1>3, <1>4, RuledQuiet
<1>6. mine \in DOMAIN r /\ mine \in DOMAIN q /\ RefusedInRun(r[mine]) /\ mine \in Nat
  <2>1. mine \in DOMAIN r /\ RefusedInRun(r[mine]) BY <1>3, <1>4
  <2> HIDE DEF mine
  <2> QED BY <1>1, <1>4, <2>1
<1> HIDE DEF mine, first
<1>7. RefusedInRun(q[mine])
  <2>1. /\ \A i \in 1 .. (mine - 1) : i \in DOMAIN r /\ i \in DOMAIN q /\ i < e
        /\ FirstChain[mine].reads \subseteq 1 .. (mine - 1)
    BY <1>1, <1>4, <1>6
  <2>2. \A i \in 1 .. (mine - 1) : r[i].status = q[i].status /\ r[i].status = "passed" BY <1>1, <2>1
  <2>3. RuledAs(r, mine, r[mine]) /\ RuledAs(q, mine, q[mine]) BY <1>6 DEF Ruled
  <2>4. HeldBefore(r, mine, FirstChain[mine].profile) <=> HeldBefore(q, mine, FirstChain[mine].profile)
    BY <1>6, <2>2, HeldSame
  <2>5. /\ ~\E i \in FirstChain[mine].reads : r[i].status # "passed"
        /\ ~\E i \in FirstChain[mine].reads : q[i].status # "passed"
    <3>1. \A i \in 1 .. (mine - 1) : r[i].status = "passed" /\ q[i].status = "passed" BY <2>2
    <3> QED BY <2>1, <3>1
  <2>6. /\ RefusedInRun(r[mine]) <=> HeldBefore(r, mine, FirstChain[mine].profile)
        /\ RefusedInRun(q[mine]) <=> HeldBefore(q, mine, FirstChain[mine].profile)
    BY <2>3, <2>5 DEF RuledAs
  <2> QED BY <1>6, <2>4, <2>6
<1>8. mine \in Early(q) BY <1>6, <1>7 DEF Early, RefusedEarly, RefusedInRun
<1>9. ~SessionRestartEvidence(FirstChain, q, mine) BY <1>6, RuledQuiet
<1>10. Last(<<q>>) = q /\ <<q>> # <<>> BY DEF Last
<1>11. held # {} /\ \E p \in Early(Last(<<q>>)) :
          /\ RefusedInRun(Last(<<q>>)[p]) /\ FirstChain[p].profile = FirstChain[mine].profile
          /\ ~SessionRestartEvidence(FirstChain, Last(<<q>>), p)
  BY <1>2, <1>7, <1>8, <1>9, <1>10
<1>12. all # {} BY <1>2
<1>13. l.finding /\ l.at \in {first, mine}
  BY <1>5, <1>10, <1>11, <1>12 DEF TokenLifetime, first, mine
<1>14. l.at \in DOMAIN r /\ l.at <= e
  <2> HIDE DEF l, all, held
  <2> QED BY <1>3, <1>4, <1>6, <1>13
<1> HIDE DEF l
<1>15. ~DriftedBefore(r, l.at)
  <2>1. \A i \in 1 .. (l.at - 1) : i \in DOMAIN r /\ i < e BY <1>1, <1>14
  <2>2. \A i \in 1 .. (l.at - 1) : r[i].answer = "ok" BY <1>1, <2>1
  <2> QED BY <2>2 DEF DriftedBefore, Changed
<1>16. l.at # 0 BY <1>14
<1> QED BY <1>13, <1>15, <1>16 DEF l

\* A try that has ended: every call passed, or one was refused.
LEMMA ShortEnds ==
  ASSUME Typed, Green, ShortLived, Trying, ShortTry, Complete
  PROVE  /\ Chain = FirstChain /\ rec \in Seq(Entries) /\ rec \in Records(FirstChain) /\ rec # <<>>
         /\ \A r \in Records(FirstChain) : \A n \in DOMAIN r : FirstChain[n].reads \subseteq 1 .. (n - 1)
         /\ (\A n \in DOMAIN rec : rec[n].status = "passed") => Len(rec) = Len(Chain)
         /\ what = "verify" => Len(rec) = Len(Chain)
         /\ \/ \A n \in DOMAIN rec : rec[n].status = "passed" /\ rec[n].answer = "ok"
            \/ \E e \in DOMAIN rec : SplitAt(rec, e)
<1>1. Chain = FirstChain /\ rec \in Seq(Entries) /\ rec \in Records(FirstChain)
  BY OnFile DEF Trying, Chain, FirstChain, Typed
<1>2. \A r \in Records(FirstChain) : \A n \in DOMAIN r : FirstChain[n].reads \subseteq 1 .. (n - 1)
  <2>1. Len(FirstChain) \in Nat BY <1>1, Chains
  <2>2. \A r \in Records(FirstChain) : \A n \in DOMAIN r : n \in 1 .. Len(FirstChain) BY <2>1 DEF Records
  <2> QED BY <1>1, <2>2, Chains
<1>3. Len(rec) \in Nat /\ Len(Chain) \in Nat /\ Len(rec) <= Len(Chain) /\ Chain # <<>> /\ Chain \in Seq(Range(Chain))
  BY <1>1, Chains DEF Records
<1>4. what = "verify" => Len(rec) = Len(Chain) BY <1>3 DEF Complete, Running
<1>5. (\A n \in DOMAIN rec : rec[n].status = "passed") => Len(rec) = Len(Chain) BY <1>3 DEF Complete, Running
<1>6. rec # <<>>
  <2> SUFFICES ASSUME rec = <<>> PROVE FALSE OBVIOUS
  <2>1. Len(Chain) = 0 BY <1>5
  <2> QED BY <1>3, <2>1
<1>7. \A n \in DOMAIN rec : rec[n].status = "passed" => rec[n].answer = "ok"
  BY DEF ShortTry, Ruled, RuledAs, Omit, Entry
<1>8. (\E n \in DOMAIN rec : rec[n].status # "passed") => \E e \in DOMAIN rec : SplitAt(rec, e)
  <2>1. \A n \in DOMAIN rec : FirstChain[n].reads \subseteq 1 .. (n - 1) BY <1>1, <1>2
  <2> QED BY <1>1, <2>1, FirstRefused DEF ShortTry
<1> QED BY <1>1, <1>2, <1>4, <1>5, <1>6, <1>7, <1>8

\* A try in which every call passed is a success; the first one showed an early
\* refusal of a profile that a read passed under.
LEMMA AllPassed ==
  ASSUME Typed, Green, Lasting, ShortLived, Trying, ShortTry, Complete,
         \A n \in DOMAIN rec : rec[n].status = "passed" /\ rec[n].answer = "ok"
  PROVE  /\ Outcome.code # 3
         /\ try = 1 /\ Outcome.code # 1 =>
              \E p \in EarlyProfiles \cap Profiles :
                \E i \in DOMAIN rec : Chain[i].read /\ rec[i].status = "passed" /\ Chain[i].profile = p
<1>1. /\ Chain = FirstChain /\ rec \in Seq(Entries) /\ rec # <<>> /\ Len(rec) = Len(Chain) /\ DOMAIN rec = 1 .. Len(rec)
      /\ \A n \in DOMAIN rec : FirstChain[n].reads \subseteq 1 .. (n - 1)
  BY ShortEnds
<1>2. UnansweredOnly(rec) = 0 /\ CleanReport(Chain, rec) /\ Last(rec).status = "passed"
  <2>1. {i \in DOMAIN rec : rec[i].status = "error"} = {} OBVIOUS
  <2>2. Last(rec).status = "passed" BY <1>1 DEF Last
  <2> QED BY <1>1, <2>1, <2>2 DEF UnansweredOnly, CleanReport
<1> DEFINE l == TokenLifetime(Chain, rec, hist[ci])
<1>3. ~DriftedBefore(rec, l.at)
  <2>1. l.at # 0 => l.at \in Early(rec) /\ l.at \in DOMAIN rec BY <1>1, LifetimeIs
  <2> HIDE DEF l
  <2>2. \A i \in 1 .. (l.at - 1) : i \in DOMAIN rec BY <1>1, <2>1
  <2> QED BY <2>2 DEF DriftedBefore, Changed
<1>4. Outcome.code # 3
  <2>1. Verify(Chain, rec, hist[ci]).code # 3 BY <1>2 DEF Verify
  <2>2. Run(Chain, rec, hist[ci]).code # 3 BY <1>2 DEF Run
  <2> QED BY <2>1, <2>2 DEF Outcome, Verdict
<1>5. l.finding /\ l.at # 0 => Outcome.code = 1
  <2> HIDE DEF l
  <2>1. l.finding /\ l.at # 0 => Verify(Chain, rec, hist[ci]).code = 1 BY <1>3 DEF Verify, l
  <2>2. l.finding => Run(Chain, rec, hist[ci]).code = 1 BY DEF Run, l
  <2> QED BY <2>1, <2>2 DEF Outcome, Verdict
<1>6. PICK j \in DOMAIN FirstChain, k \in DOMAIN FirstChain : j < k /\ FirstChain[j].profile = FirstChain[k].profile
  BY DEF Lasting, Repeatable, Visible, ShortLived
<1>7. j \in 1 .. Len(Chain) /\ k \in 1 .. Len(Chain) BY <1>1, <1>6, Chains
<1>8. k \in Early(rec)
  <2>1. j \in 1 .. (k - 1) /\ \A i \in 1 .. (k - 1) : i \in DOMAIN rec BY <1>1, <1>6, <1>7
  <2>2. HeldBefore(rec, k, FirstChain[k].profile)
    <3>1. \A i \in 1 .. (k - 1) : rec[i].status = "passed" BY <2>1
    <3>2. \A i \in (j + 1) .. (k - 1) : i \in 1 .. (k - 1) BY <1>7
    <3> QED BY <1>6, <2>1, <3>1, <3>2 DEF HeldBefore
  <2>3. k \in DOMAIN rec /\ RuledAs(rec, k, rec[k]) BY <1>1, <1>7 DEF ShortTry, Ruled
  <2>4. RefusedInRun(rec[k]) BY <2>2, <2>3 DEF RuledAs, Omit, Entry
  <2> QED BY <2>3, <2>4 DEF Early, RefusedEarly, RefusedInRun
<1>9. l.at \in Early(rec)
  <2>1. Early(rec) # {} BY <1>8
  <2> QED BY <1>1, <2>1, LifetimeAt
<1>10. l.at \in DOMAIN rec /\ RefusedEarly(rec[l.at]) /\ l.at # 0 BY <1>1, <1>9 DEF Early
<1> HIDE DEF l
<1>11. try = 1 => Chain[l.at].read
  <2> SUFFICES ASSUME try = 1 PROVE Chain[l.at].read OBVIOUS
  <2>1. RefusedInRun(rec[l.at]) /\ RuledAs(rec, l.at, rec[l.at]) BY <1>10 DEF ShortTry, Ruled
  <2>2. rec[l.at].status = "passed" BY <1>10
  <2> QED BY <1>1, <2>1, <2>2 DEF RuledAs, Omit, Entry
<1>12. Chain[l.at].profile \in Profiles
  <2>1. l.at \in 1 .. Len(Chain) BY <1>1, <1>10
  <2> QED BY <2>1, Chains
<1>13. Outcome.code # 1 => EarlyProfiles = {Chain[l.at].profile} BY <1>5, <1>10 DEF EarlyProfiles, l
<1> QED BY <1>4, <1>10, <1>11, <1>12, <1>13

\* The first try succeeds and leaves an early refusal, or has no verdict and
\* shows which call was refused, or finds it; the second, after such a call, finds it.
LEMMA ShortJudged ==
  ASSUME Typed, Green, Lasting, ShortLived, Trying, ShortTry, Complete
  PROVE  /\ Outcome.code \in {0, 1, 3} /\ (Outcome.code = 3 => Refuses(rec))
         /\ try = 1 /\ Outcome.code = 0 =>
              \E p \in EarlyProfiles \cap Profiles :
                \E i \in DOMAIN rec : Chain[i].read /\ rec[i].status = "passed" /\ Chain[i].profile = p
         /\ \A q \in Records(FirstChain) : hist[1] = <<q>> /\ Refuses(q) => Outcome.code = 1
<1>1. /\ Chain = FirstChain /\ rec \in Seq(Entries) /\ rec \in Records(FirstChain) /\ rec # <<>>
      /\ \A r \in Records(FirstChain) : \A n \in DOMAIN r : FirstChain[n].reads \subseteq 1 .. (n - 1)
      /\ (\A n \in DOMAIN rec : rec[n].status = "passed") => Len(rec) = Len(Chain)
      /\ what = "verify" => Len(rec) = Len(Chain)
      /\ \/ \A n \in DOMAIN rec : rec[n].status = "passed" /\ rec[n].answer = "ok"
         \/ \E e \in DOMAIN rec : SplitAt(rec, e)
  BY ShortEnds
<1>2. Outcome.code \in {0, 1, 3} BY DEF Outcome, Verdict, Verify, Run
<1>3. Outcome.code = 3 => Refuses(rec) BY <1>1, AllPassed DEF Refuses, ShortTry, SplitAt
<1>4. ASSUME \E e \in DOMAIN rec : SplitAt(rec, e) PROVE Outcome.code # 0
  <2>1. PICK e \in DOMAIN rec : rec[e].status = "error" BY <1>4 DEF SplitAt
  <2>2. Verify(Chain, rec, hist[ci]).code # 0 \/ what = "run"
    <3>1. ~CleanReport(Chain, rec)
      <4>1. rec[e].answer # "ok" BY <2>1 DEF ShortTry, Ruled, RuledAs, Omit, Entry
      <4> QED BY <4>1 DEF CleanReport
    <3> QED BY <3>1 DEF Verify
  <2>3. what = "run" => Run(Chain, rec, hist[ci]).code # 0
    <3>1. what = "run" => e = Len(rec) BY <2>1 DEF Green
    <3> QED BY <2>1, <3>1 DEF Run, Last
  <2> QED BY <2>2, <2>3 DEF Outcome, Verdict, Typed
<1>5. ASSUME NEW q \in Records(FirstChain), hist[1] = <<q>>, Refuses(q) PROVE Outcome.code = 1
  <2>1. q \in Seq(Entries) /\ Ruled(q) /\ Ruled(rec) /\ \E n \in DOMAIN q : q[n].status # "passed"
    BY <1>5 DEF Records, Refuses, ShortTry
  <2>2. \A n \in DOMAIN rec \cup DOMAIN q : FirstChain[n].reads \subseteq 1 .. (n - 1) BY <1>1
  <2>3. PICK e \in DOMAIN q : SplitAt(q, e) BY <2>1, <2>2, FirstRefused
  <2>4. e \in DOMAIN rec \/ \E n \in DOMAIN rec : rec[n].status # "passed"
    <3>1. Len(rec) = Len(Chain) => e \in DOMAIN rec
      <4>1. Len(FirstChain) \in Nat BY <1>1, Chains
      <4> QED BY <1>1, <2>1, <4>1 DEF Records
    <3> QED BY <1>1, <3>1
  <2>5. SplitAt(rec, e) BY <1>1, <2>1, <2>2, <2>3, <2>4, SameRefused
  <2> DEFINE l == TokenLifetime(Chain, rec, hist[ci])
  <2>6. l.finding /\ l.at # 0 /\ ~DriftedBefore(rec, l.at)
    <3>1. hist[ci] = <<q>> BY <1>5 DEF Trying
    <3> QED BY <1>1, <2>1, <2>2, <2>3, <2>5, <3>1, ShortTwice
  <2> HIDE DEF l
  <2>7. Verify(Chain, rec, hist[ci]).code = 1 BY <2>6 DEF Verify, l
  <2>8. Run(Chain, rec, hist[ci]).code = 1 BY <2>6 DEF Run, l
  <2> QED BY <2>7, <2>8 DEF Outcome, Verdict
<1>6. try = 1 /\ Outcome.code = 0 =>
        \E p \in EarlyProfiles \cap Profiles :
          \E i \in DOMAIN rec : Chain[i].read /\ rec[i].status = "passed" /\ Chain[i].profile = p
  BY <1>1, <1>4, AllPassed
<1> QED BY <1>2, <1>3, <1>5, <1>6

\* A gate starts with the first try.
LEMMA InitShortSeen == Init => ShortSeen
<1> SUFFICES ASSUME Init, Lasting, ShortLived PROVE ShortSeen BY DEF ShortSeen
<1>1. Shape(scn) BY ScenariosAssumption DEF Init
<1>2. /\ rec = <<>> /\ DOMAIN rec = {} /\ Len(rec) = 0 /\ up = TRUE /\ exit = -1 /\ ci = 1 /\ try = 1
      /\ phase = "steps" /\ what = First
  BY DEF Init, First
<1>3. hist[1] = <<>> BY <1>1 DEF Init, Shape
<1>4. \A p \in Profiles : token[p] # "dead" /\ accepted[p] = FALSE
  BY <1>1 DEF Init, Lasting, Shape
<1>5. \A p \in Profiles : check[p].stage # "over" BY DEF Init, NoCheck
<1>6. Kept BY <1>2 DEF Kept
<1>7. \A p : ~HeldBefore(rec, Len(rec) + 1, p) BY <1>2 DEF HeldBefore
<1>8. ShortTry BY <1>2, <1>4, <1>7 DEF ShortTry, Ruled
<1> QED BY <1>2, <1>3, <1>5, <1>6, <1>8 DEF ShortSeen, Trying

\* What the gate has concluded stays.
LEMMA AbsorbKeeps ==
  ASSUME Typed, UNCHANGED verdicts \/ Absorb
  PROVE  (failed => failed') /\ (Evident => Evident') /\ (causes # {} => causes' # {})
<1>1. CASE UNCHANGED verdicts BY <1>1 DEF verdicts, Evident
<1>2. CASE Absorb
  <2>1. failed => failed' BY <1>2, Zenon DEF Absorb
  <2>2. causes # {} => causes' # {} BY <1>2 DEF Absorb
  <2>3. early \in [Profiles -> Nat] /\ readable \subseteq readable'
        /\ early' = [p \in Profiles |-> early[p] + IF p \in EarlyProfiles THEN 1 ELSE 0]
    BY <1>2 DEF Absorb, Typed
  <2>4. \A p \in Profiles : early[p] > 0 => early'[p] > 0 BY <2>3
  <2> QED BY <2>1, <2>2, <2>3, <2>4 DEF Evident
<1> QED BY <1>1, <1>2

\* The first command's last try fails or leaves an early refusal.
LEMMA ShortAbsorbed ==
  ASSUME Typed, Green, Lasting, ShortLived, Trying, ShortTry, Final, Absorb,
         \/ try = 1 /\ hist[1] = <<>>
         \/ try = 2 /\ \E r \in Records(FirstChain) : hist[1] = <<r>> /\ Refuses(r)
  PROVE  failed' \/ Evident'
<1>1. Complete BY DEF Final
<1>2. CASE Outcome.code = 1 BY <1>2 DEF Absorb
<1>3. CASE Outcome.code # 1
  <2>1. try = 1 BY <1>1, <1>3, ShortJudged
  <2>2. Outcome.code # 3 BY <2>1 DEF Final, Tries
  <2>3. Outcome.code = 0 BY <1>1, <1>3, <2>2, ShortJudged
  <2>4. PICK p \in EarlyProfiles \cap Profiles :
          \E i \in DOMAIN rec : Chain[i].read /\ rec[i].status = "passed" /\ Chain[i].profile = p
    BY <1>1, <2>1, <2>3, ShortJudged
  <2>5. early'[p] > 0
    <3>1. early'[p] = early[p] + 1 /\ early[p] \in Nat BY <2>4 DEF Absorb, Typed
    <3> QED BY <3>1
  <2>6. p \in readable' BY <2>4 DEF Absorb
  <2> QED BY <2>4, <2>5, <2>6 DEF Evident
<1> QED BY <1>2, <1>3

\* The check of sessions that are good for one call finds it.
LEMMA ProbingShort ==
  ASSUME Typed, ShortLived, up, \A p \in Profiles : check[p].stage = "over" => causes # {}, Probing
  PROVE  \A p \in Profiles : check'[p].stage = "over" => causes' # {}
<1>1. PICK p \in Profiles : HoldFirst(p) \/ ProbeFirst(p) \/ ProbeHalf(p) \/ ProbeFull(p) BY DEF Probing
<1>2. DOMAIN check = Profiles BY DEF Typed
<1>3. \A st, live : check' = [check EXCEPT ![p] = [stage |-> st, live |-> live]] =>
        check'[p].stage = st /\ \A q \in Profiles : q # p => check'[q] = check[q]
  BY <1>2
<1>4. CASE HoldFirst(p)
  <2>1. check' = [check EXCEPT ![p] = [stage |-> "first", live |-> <<TRUE>>]] /\ causes' = causes
    BY <1>4 DEF HoldFirst, verdicts
  <2> QED BY <1>3, <2>1
<1>5. ASSUME NEW st, NEW live, st # "over", Advance(p, st, live)
      PROVE  \A q \in Profiles : check'[q].stage = "over" => causes' # {}
  <2>1. check' = [check EXCEPT ![p] = [stage |-> st, live |-> live]] /\ causes' = causes BY <1>5 DEF Advance
  <2> QED BY <1>3, <1>5, <2>1
<1>6. ASSUME Conclude(p, TRUE) PROVE causes' # {}
  BY <1>6 DEF Conclude
<1>7. CASE ProbeFirst(p)
  <2>1. Advance(p, "second", <<TRUE, TRUE>>) BY <1>7 DEF ProbeFirst
  <2> QED BY <1>5, <2>1
<1>8. CASE ProbeHalf(p)
  <2>1. Advance(p, "half", check[p].live) \/ Conclude(p, TRUE)
    BY <1>8 DEF ProbeHalf, Conclude
  <2> QED BY <1>5, <1>6, <2>1
<1>9. CASE ProbeFull(p)
  <2>1. Conclude(p, TRUE) BY <1>9 DEF ProbeFull, Conclude
  <2> QED BY <1>6, <2>1
<1> QED BY <1>1, <1>4, <1>7, <1>8, <1>9

\* Every step of a gate keeps it.
LEMMA StepShortSeen ==
  ASSUME Typed, Green, Opening, ShortSeen, [Next]_vars
  PROVE  ShortSeen'
<1> SUFFICES ASSUME Lasting', ShortLived' PROVE ShortSeen' BY DEF ShortSeen
<1>a. /\ Lasting /\ ShortLived /\ scn' = scn /\ restarts = 0 /\ restarts' = 0
      /\ First' = First /\ FirstChain' = FirstChain
  BY LastingBack DEF Lasting
<1>b. /\ up /\ (~Trying => failed \/ Evident) /\ (exit # -1 => exit = 1)
      /\ Trying => /\ Kept /\ ShortTry
                   /\ \/ try = 1 /\ hist[1] = <<>>
                      \/ try = 2 /\ \E r \in Records(FirstChain) : hist[1] = <<r>> /\ Refuses(r)
      /\ \A p \in Profiles : check[p].stage = "over" => causes # {}
  BY <1>a DEF ShortSeen
<1>s. (\A r : Refuses(r)' <=> Refuses(r)) /\ Records(FirstChain)' = Records(FirstChain)
  BY <1>a DEF Refuses, Ruled, RuledAs, HeldBefore, Records
<1>1. CASE Call
  <2>1. UNCHANGED Elsewhere BY <1>1, CallAppends
  <2>2. UNCHANGED <<phase, ci, what, try, hist, failed, early, readable, causes, check, exit>>
    BY <2>1 DEF Elsewhere, verdicts
  <2>3. (Trying' <=> Trying) /\ (Evident' <=> Evident) BY <1>a, <2>2 DEF Trying, Evident
  <2>4. up'
    <3>1. up' = up \/ CutOff
      BY <1>1 DEF Call, Skip, Unreachable, Accepted, RefusedNotResent, RefusedResent, backend
    <3>2. ~CutOff BY <1>a DEF CutOff, Wiped
    <3> QED BY <1>b, <3>1, <3>2
  <2>5. Trying => Kept' /\ ShortTry' BY <1>1, <1>a, <1>b, CallShort
  <2> QED BY <1>b, <1>s, <2>2, <2>3, <2>4, <2>5 DEF ShortSeen
<1>2. CASE Stop BY <1>2, <1>a DEF Stop, Wiped
<1>3. CASE Start \/ UNCHANGED vars
  <2>1. UNCHANGED <<scn, up, data, token, ci, what, try, rec, accepted, cached, hist, failed, early, readable, causes, check, phase, exit>>
    BY <1>3, <1>b DEF Start, vars, backend, attempt, verdicts
  <2>2. (Trying' <=> Trying) /\ (Kept' <=> Kept) /\ (Evident' <=> Evident)
    BY <1>a, <2>1 DEF Trying, Kept, Chain, Evident
  <2>3. ShortTry' <=> ShortTry BY <1>a, <2>1 DEF ShortTry, Ruled, RuledAs, HeldBefore
  <2> QED BY <1>b, <1>s, <2>1, <2>2, <2>3 DEF ShortSeen
<1>4. CASE AnAttempt
  <2>1. /\ Complete /\ phase = "steps" /\ UNCHANGED <<up, token, check, exit>> /\ rec' = <<>> /\ DOMAIN rec' = {} /\ Len(rec') = 0
        /\ hist' = [hist EXCEPT ![ci] = Append(@, rec)] /\ phase' = "steps"
        /\ accepted' = [p \in Profiles |-> FALSE] /\ cached' = [p \in Profiles |-> token[p] # "none"]
        /\ UNCHANGED verdicts \/ Absorb
    BY <1>4, AttemptEnds DEF Complete
  <2>2. (failed => failed') /\ (Evident => Evident') /\ (causes # {} => causes' # {}) BY <2>1, AbsorbKeeps
  <2>3. CASE ~Trying
    <3>1. ~Trying' BY <1>4, <2>3, TryingIsOver
    <3> QED BY <1>b, <2>1, <2>2, <2>3, <3>1 DEF ShortSeen
  <2>4. CASE Trying
    <3>1. CASE Retry
      <4>1. /\ try = 1 /\ ci = 1 /\ ci' = ci /\ what' = what /\ try' = 2 /\ hist[1] = <<>>
            /\ Outcome.code = 3
        BY <1>b, <2>4, <3>1 DEF Retry, Begin, Trying, Tries
      <4>2. Refuses(rec) BY <1>a, <1>b, <2>1, <2>4, <4>1, ShortJudged
      <4>3. rec \in Records(FirstChain) /\ 1 \in DOMAIN hist BY <4>1 DEF Typed, Chain, FirstChain
      <4>4. hist'[1] = <<rec>> BY <2>1, <4>1, <4>3
      <4>5. Trying' BY <1>a, <2>1, <2>4, <4>1 DEF Trying
      <4>6. Kept' BY <2>1 DEF Kept
      <4>7. ShortTry'
        <5>1. Ruled(rec)' BY <2>1 DEF Ruled
        <5>2. ASSUME NEW p \in Profiles
              PROVE  ~accepted'[p] /\ ~HeldBefore(rec, Len(rec) + 1, p)' /\ (token'[p] = "dead" => cached'[p])
          <6>1. ~accepted'[p] BY <2>1
          <6>2. ~HeldBefore(rec, Len(rec) + 1, p)' BY <2>1 DEF HeldBefore
          <6>3. cached'[p] <=> token[p] # "none" BY <2>1, Zenon
          <6> QED BY <2>1, <6>1, <6>2, <6>3
        <5> QED BY <2>1, <4>1, <5>1, <5>2 DEF ShortTry
      <4> QED BY <1>b, <1>s, <2>1, <2>2, <4>1, <4>2, <4>3, <4>4, <4>5, <4>6, <4>7 DEF ShortSeen
    <3>2. CASE RunToo \/ NextChain
      <4>1. Final /\ Absorb BY <3>2 DEF RunToo, NextChain, Done
      <4>2. failed' \/ Evident' BY <1>a, <1>b, <2>4, <4>1, ShortAbsorbed
      <4>3. ~Trying'
        <5>1. CASE RunToo BY <1>a, <2>4, <5>1 DEF RunToo, Begin, Trying
        <5>2. CASE NextChain BY <2>4, <5>2 DEF NextChain, Begin, Trying
        <5> QED BY <3>2, <5>1, <5>2
      <4> QED BY <1>b, <2>1, <2>2, <4>2, <4>3 DEF ShortSeen
    <3> QED BY <1>4, <3>1, <3>2 DEF AnAttempt
  <2> QED BY <2>3, <2>4
<1>5. CASE LastChain
  <2>1. Final /\ Absorb /\ phase' = "check" /\ UNCHANGED <<up, check, exit>>
    BY <1>5 DEF LastChain, Done, backend
  <2>2. (failed => failed') /\ (Evident => Evident') /\ (causes # {} => causes' # {}) BY <2>1, AbsorbKeeps
  <2>3. failed' \/ Evident'
    <3>1. CASE ~Trying BY <1>b, <2>2, <3>1
    <3>2. CASE Trying BY <1>a, <1>b, <2>1, <3>2, ShortAbsorbed
    <3> QED BY <3>1, <3>2
  <2>4. ~Trying' BY <2>1 DEF Trying
  <2> QED BY <1>b, <2>1, <2>2, <2>3, <2>4 DEF ShortSeen
<1>6. CASE Probing
  <2>1. phase # "steps" /\ UNCHANGED <<up, phase, exit, failed, early, readable>>
    BY <1>6 DEF Probing, HoldFirst, ProbeFirst, ProbeHalf, ProbeFull, backend, verdicts
  <2>2. ~Trying /\ ~Trying' /\ (Evident' <=> Evident) BY <2>1 DEF Trying, Evident
  <2>3. \A p \in Profiles : check'[p].stage = "over" => causes' # {} BY <1>6, <1>a, <1>b, ProbingShort
  <2> QED BY <1>b, <2>1, <2>2, <2>3 DEF ShortSeen
<1>7. CASE Exit
  <2>1. /\ phase = "check" /\ phase' = "done" /\ UNCHANGED <<up, failed, early, readable, check>>
        /\ \A p \in Profiles : early[p] = 1 /\ p \in readable => check[p].stage = "over"
        /\ causes' = causes \cup IF \E p \in Profiles : early[p] > 1 THEN {"early"} ELSE {}
        /\ exit' = IF failed \/ causes' # {} THEN 1 ELSE IF unverified THEN 3 ELSE 0
    BY <1>7 DEF Exit, backend
  <2>2. ~Trying /\ ~Trying' /\ (Evident' <=> Evident) BY <2>1 DEF Trying, Evident
  <2>3. Evident => causes' # {}
    <3> SUFFICES ASSUME NEW p \in Profiles, early[p] > 0, p \in readable PROVE causes' # {} BY DEF Evident
    <3>1. early[p] = 1 \/ early[p] > 1 BY DEF Typed
    <3>2. CASE early[p] = 1 BY <1>b, <2>1, <3>2
    <3>3. CASE early[p] > 1 BY <2>1, <3>3
    <3> QED BY <3>1, <3>2, <3>3
  <2>4. exit' = 1 BY <1>b, <2>1, <2>2, <2>3
  <2>5. \A p \in Profiles : check'[p].stage = "over" => causes' # {} BY <1>b, <2>1
  <2> QED BY <1>b, <2>1, <2>2, <2>4, <2>5 DEF ShortSeen
<1> QED BY <1>1, <1>2, <1>3, <1>4, <1>5, <1>6, <1>7, Kinds

\* What the gate has seen of the defect of a backend that does not restart.
Seen == Typed /\ Green /\ Opening /\ DefectSeen /\ ShortSeen

\* It has seen that much in every state.
LEMMA AlwaysSeen == Spec => []Seen
<1>1. Init => Seen
  BY InitTyped, InitGreen, InitOpening, InitDefectSeen, InitShortSeen DEF Seen
<1>2. Seen /\ [Next]_vars => Seen'
  BY StepTyped, StepGreen, StepOpening, StepDefectSeen, StepShortSeen DEF Seen
<1> QED BY <1>1, <1>2, PTL DEF Spec

\* A defect of a backend that does not restart is an exit code 1 of one gate: its
\* first sight may be no verdict, the second try or the tokens held confirm it.
THEOREM DefectFound == Spec => []DefectIsFound
<1>1. Seen => DefectIsFound
  <2> SUFFICES ASSUME Seen, exit # -1, restarts = 0, Repeatable PROVE exit = 1 BY DEF DefectIsFound
  <2>1. Defective \/ ShortLived BY DEF Repeatable, Visible, Defective, ShortLived
  <2> QED BY <2>1 DEF Seen, DefectSeen, ShortSeen, Lasting
<1> QED BY <1>1, AlwaysSeen, PTL

\* The gate passes no backend with a defect that the first chain shows (the rpc
\* refuses every token, never answers, or answers another value that is compared
\* or asserted), whatever restarts hid it from one try; nor, when the backend
\* does not restart, one whose sessions end after one call.
THEOREM GreenIsGreen == Spec => []GreenIsTrue
<1>1. Seen => GreenIsTrue
  <2> SUFFICES ASSUME Seen, exit = 0, Visible PROVE ShortLived /\ restarts > 0 BY DEF GreenIsTrue
  <2>1. ShortLived BY DEF Seen, Green, Visible, Defective
  <2>2. Repeatable BY <2>1 DEF ShortLived, Repeatable
  <2>3. restarts # 0 BY <2>1, <2>2 DEF Seen, ShortSeen, Lasting
  <2> QED BY <2>1, <2>3 DEF Seen, Typed
<1> QED BY <1>1, AlwaysSeen, PTL
=============================================================================
