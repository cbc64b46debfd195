-------------------------------- MODULE Gate --------------------------------
(***************************************************************************)
(* shrt gate over a suite of chains: for each, shrt verify when it has a   *)
(* safe spot and shrt run when it has none or verify has no verdict, each  *)
(* tried again once after an exit code 3, and at the end the check of      *)
(* sessions that were refused early once.  The backend has a defect or     *)
(* none and may restart at any time: between calls, while a call is in     *)
(* flight, before a call is re-sent, between two tries, and while the gate *)
(* holds a token.                                                          *)
(***************************************************************************)
EXTENDS Verdicts

CONSTANTS Scenarios,  \* the suites, backends and token caches: see Shape
          Profiles,     \* auth profiles
          MaxRestarts,  \* bound: restarts of the backend until the last chain is done, one before the gate included
          LateRestarts  \* bound: further ones while the gate holds tokens

\* A suite is a sequence of chains [steps, spot]; a step reads what earlier steps
\* that are no reads have written.  durable: the backend keeps
\* its data over a restart; stated: its logins state when a session expires.
\* defect: none, or a kind and the step of the first chain it is at: auth (the
\* rpc refuses valid tokens), drop (it never answers), wrong (another value),
\* brief (sessions end after one call and cannot be held), mid (after one call,
\* but a session held for half the gate's time is still good).
Shape(s) ==
  /\ s.durable \in BOOLEAN /\ s.stated \in BOOLEAN /\ s.token \in {"none", "good", "dead"}
  /\ s.suite # <<>> /\ s.suite \in Seq(Range(s.suite))
  /\ \A n \in DOMAIN s.suite : LET c == s.suite[n].steps IN
       /\ s.suite[n].spot \in BOOLEAN /\ c # <<>> /\ c \in Seq(Range(c))
       /\ \A k \in DOMAIN c :
            /\ c[k].profile \in Profiles /\ c[k].read \in BOOLEAN /\ c[k].asserts \in BOOLEAN
            /\ \A r \in c[k].reads : r \in 1..(k - 1) /\ ~c[r].read
  /\ s.defect.kind \in {"none", "auth", "drop", "wrong", "brief", "mid"}
  /\ s.defect.kind \in {"auth", "drop", "wrong"} => s.defect.at \in DOMAIN s.suite[1].steps

ASSUME ScenariosAssumption ==
  MaxRestarts \in Nat /\ LateRestarts \in Nat /\ \A s \in Scenarios : Shape(s) /\ s.defect.at \in Nat

VARIABLES
  scn,       \* the scenario
  up, data,  \* the backend: does it answer, and the steps whose data it holds
  token,     \* token[p]: the token of the cache file: "none", "good", "dead" (its session ended)
  restarts,  \* how often the backend restarted
  ci, what, try, rec, accepted, cached, \* the attempt: chain, command, try, its record; token provenance
  hist,      \* hist[n]: the records of chain n's runs, the latest last
  failed, unverified,        \* what the gate has concluded of the chains so far
  early, readable, causes,              \* early refusals and reads per profile, findings
  check,     \* check[p]: the session check: its stage, and which tokens held are still good
  phase, exit

backend == <<up, data, token, restarts>>
attempt == <<ci, what, try, rec, accepted, cached>>
verdicts == <<failed, unverified, early, readable, causes>>
vars == <<scn, backend, attempt, hist, verdicts, check, phase, exit>>

Chain == scn.suite[ci].steps
Defect(kind, k) == scn.defect.kind = kind /\ ci = 1 /\ scn.defect.at = k
ShortLived == scn.defect.kind \in {"brief", "mid"}
NoCheck == [stage |-> "none", live |-> <<>>]

Init ==
  /\ scn \in Scenarios
  /\ up = TRUE /\ data = {} /\ token = [p \in Profiles |-> scn.token]
  /\ restarts = IF scn.token = "dead" THEN 1 ELSE 0
  /\ ci = 1 /\ what = (IF scn.suite[1].spot THEN "verify" ELSE "run") /\ try = 1 /\ rec = <<>>
  /\ accepted = [p \in Profiles |-> FALSE] /\ cached = [p \in Profiles |-> scn.token # "none"]
  /\ hist = [n \in DOMAIN scn.suite |-> <<>>]
  /\ failed = FALSE /\ unverified = FALSE
  /\ early = [p \in Profiles |-> 0] /\ readable = {} /\ causes = {}
  /\ check = [p \in Profiles |-> NoCheck] /\ phase = "steps" /\ exit = -1

-----------------------------------------------------------------------------
(* The backend *)

Dead(t) == [p \in Profiles |-> IF t[p] = "good" THEN "dead" ELSE t[p]]

\* What a restart leaves: no session, and no data unless it is durable.
Wiped(t) ==
  /\ restarts < MaxRestarts + (IF phase = "check" THEN LateRestarts ELSE 0) /\ restarts' = restarts + 1
  /\ token' = Dead(t) /\ data' = IF scn.durable THEN data ELSE {}

\* The backend goes down, between two calls.
Stop ==
  /\ up /\ exit = -1 /\ Wiped(token) /\ up' = FALSE
  /\ check' = [p \in Profiles |-> [check[p] EXCEPT !.live = [n \in DOMAIN check[p].live |-> FALSE]]]
  /\ UNCHANGED <<scn, attempt, hist, verdicts, phase, exit>>

Start ==
  /\ ~up /\ exit = -1 /\ up' = TRUE
  /\ UNCHANGED <<scn, data, token, restarts, attempt, hist, verdicts, check, phase, exit>>

-----------------------------------------------------------------------------
(* A step of a chain *)

Step == Chain[Len(rec) + 1]
Running == phase = "steps" /\ Len(rec) < Len(Chain)
              /\ (what = "run" => \A i \in DOMAIN rec : rec[i].status = "passed")

Unreached == \E i \in DOMAIN rec : rec[i].answer = "unsent"
Behind == \E r \in Step.reads : rec[r].status # "passed"

StatusOf(answer) ==
  IF answer = "ok" \/ (answer = "wrong" /\ ~Step.asserts) THEN "passed"
  ELSE IF answer \in {"wrong", "gone"} THEN "failed" ELSE "error"

Entry(status, answer) == [status |-> status, answer |-> answer, retry |-> "no", fresh |-> "none", refused |-> {}]

\* What the service answers a call that it lets in.
Answer ==
  LET k == Len(rec) + 1 IN
  IF Defect("drop", k) THEN "lost"
  ELSE IF ~(Step.reads \subseteq data) THEN "gone"
  ELSE IF Defect("wrong", k) THEN "wrong" ELSE "ok"

Written(a) == IF ~Step.read /\ a \in {"ok", "wrong"} THEN data \cup {Len(rec) + 1} ELSE data
\* A session that is good for one call only.
Used == IF ShortLived THEN "dead" ELSE "good"

\* skippedUnreachable, and with -keep-going, as verify runs, skippedBehind.
Skip ==
  /\ Running /\ what = "verify" /\ (Unreached \/ Behind)
  /\ rec' = Append(rec, Entry("skipped", "none"))
  /\ UNCHANGED <<scn, backend, ci, what, try, accepted, cached, hist, verdicts, check, phase, exit>>

Sending == Running /\ ~(what = "verify" /\ (Unreached \/ Behind))

\* The target cannot be dialled.
Unreachable ==
  /\ Sending /\ ~up /\ rec' = Append(rec, Entry("error", "unsent"))
  /\ UNCHANGED <<scn, backend, ci, what, try, accepted, cached, hist, verdicts, check, phase, exit>>

\* The backend stops while the call is in flight.
CutOff ==
  /\ Sending /\ up /\ Wiped([token EXCEPT ![Step.profile] = IF @ = "none" THEN "good" ELSE @]) /\ up' = FALSE
  /\ rec' = Append(rec, Entry("error", "lost"))
  /\ cached' = [cached EXCEPT ![Step.profile] = @ /\ token[Step.profile] # "none"]
  /\ UNCHANGED <<scn, ci, what, try, accepted, hist, verdicts, check, phase, exit>>

Accepts == token[Step.profile] # "dead" /\ ~Defect("auth", Len(rec) + 1)

\* The call is let in, after a login when there is no token.
Accepted ==
  LET p == Step.profile a == Answer IN
  /\ Sending /\ up /\ Accepts
  /\ rec' = Append(rec, Entry(StatusOf(a), a))
  /\ data' = Written(a)
  /\ token' = [token EXCEPT ![p] = Used]
  /\ accepted' = [accepted EXCEPT ![p] = @ \/ a # "lost"]
  /\ cached' = [cached EXCEPT ![p] = @ /\ token[p] # "none"]
  /\ UNCHANGED <<scn, up, restarts, ci, what, try, hist, verdicts, check, phase, exit>>

FromCache == cached[Step.profile] /\ token[Step.profile] # "none"
UntriedCached == FromCache /\ ~accepted[Step.profile]
Refusal == [early |-> scn.stated, first |-> ~accepted[Step.profile], cached |-> FromCache]

\* Refused, and a write is not sent again: the token is dropped.
RefusedNotResent ==
  LET p == Step.profile IN
  /\ Sending /\ up /\ ~Accepts /\ ~Step.read /\ ~UntriedCached
  /\ rec' = Append(rec, [status |-> "error", answer |-> "unauth", retry |-> "not_resent", refused |-> {Refusal},
                         fresh |-> IF accepted[p] THEN "accepted" ELSE "minted"])
  /\ token' = [token EXCEPT ![p] = "none"]
  /\ accepted' = [accepted EXCEPT ![p] = FALSE] /\ cached' = [cached EXCEPT ![p] = FALSE]
  /\ UNCHANGED <<scn, up, data, restarts, ci, what, try, hist, verdicts, check, phase, exit>>

\* Refused, and a read, or any call under an untried cached token, is sent
\* again under a token of a fresh login; the backend may restart in between.
RefusedResent(restart) ==
  LET p == Step.profile
      again == restart \/ Defect("auth", Len(rec) + 1)
      a == IF again THEN "unauth" ELSE Answer
      relogin == [early |-> scn.stated, first |-> TRUE, cached |-> FALSE]
  IN
  /\ Sending /\ up /\ ~Accepts /\ (Step.read \/ UntriedCached)
  /\ rec' = Append(rec, [status |-> StatusOf(a), answer |-> a, retry |-> "resent",
                         fresh |-> IF again THEN "relogin" ELSE "none",
                         refused |-> {Refusal} \cup IF again THEN {relogin} ELSE {}])
  /\ IF restart THEN Wiped([token EXCEPT ![p] = "good"])
     ELSE /\ token' = [token EXCEPT ![p] = IF again THEN "good" ELSE Used]
          /\ data' = Written(a) /\ UNCHANGED restarts
  /\ accepted' = [accepted EXCEPT ![p] = ~again /\ a # "lost"] /\ cached' = [cached EXCEPT ![p] = FALSE]
  /\ UNCHANGED <<scn, up, ci, what, try, hist, verdicts, check, phase, exit>>

-----------------------------------------------------------------------------
(* The gate *)

\* The attempt's process starts: it knows of the token only what the cache has.
Begin(n, w, t) ==
  /\ ci' = n /\ what' = w /\ try' = t /\ rec' = <<>> /\ phase' = "steps"
  /\ accepted' = [p \in Profiles |-> FALSE] /\ cached' = [p \in Profiles |-> token[p] # "none"]
  /\ data' = {}
  /\ UNCHANGED <<up, token, restarts>>

Complete == phase = "steps" /\ ~Running
Outcome == Verdict(what, Chain, rec, hist[ci])

TriesSlip == 1

\* gateAttempt
Tries == 2

\* No verdict, so once more after a wait.
Retry ==
  /\ Complete /\ Outcome.code = 3 /\ try < Tries
  /\ hist' = [hist EXCEPT ![ci] = Append(@, rec)]
  /\ Begin(ci, what, 2)
  /\ UNCHANGED <<scn, verdicts, check, exit>>

EarlyProfiles ==
  LET l == TokenLifetime(Chain, rec, hist[ci])
  IN IF l.at = 0 \/ l.finding THEN {} ELSE {Chain[l.at].profile}

\* absorb: what the last try concluded.
Absorb ==
  /\ hist' = [hist EXCEPT ![ci] = Append(@, rec)]
  /\ failed' = (failed \/ Outcome.code = 1)
  /\ unverified' = (unverified \/ Outcome.code = 3)
  /\ causes' = causes \cup ({Outcome.cause} \ {"none"})
  /\ early' = [p \in Profiles |-> early[p] + IF p \in EarlyProfiles THEN 1 ELSE 0]
  /\ readable' = readable \cup {Chain[i].profile : i \in {j \in DOMAIN rec : Chain[j].read /\ rec[j].status = "passed"}}

Final == Complete /\ ~(Outcome.code = 3 /\ try < Tries)

\* verify left the chain to run as well.
RunToo ==
  /\ Final /\ what = "verify" /\ (Outcome.code = 3 \/ Outcome.runToo)
  /\ Absorb /\ Begin(ci, "run", 1)
  /\ UNCHANGED <<scn, check, exit>>

Done == Final /\ ~(what = "verify" /\ (Outcome.code = 3 \/ Outcome.runToo))

NextChain ==
  /\ Done /\ ci < Len(scn.suite)
  /\ Absorb /\ Begin(ci + 1, IF scn.suite[ci + 1].spot THEN "verify" ELSE "run", 1)
  /\ UNCHANGED <<scn, check, exit>>

LastChain ==
  /\ Done /\ ci = Len(scn.suite) /\ Absorb /\ phase' = "check"
  /\ UNCHANGED <<scn, backend, attempt, check, exit>>

-----------------------------------------------------------------------------
(* The session check: gatesession.go *)

\* A profile refused early once, of which a read is known, is held a token.
HoldFirst(p) ==
  /\ phase = "check" /\ check[p].stage = "none" /\ early[p] = 1 /\ p \in readable
  /\ check' = [check EXCEPT ![p] = IF up THEN [stage |-> "first", live |-> <<TRUE>>]
                                        ELSE [stage |-> "over", live |-> <<>>]]
  /\ UNCHANGED <<scn, backend, attempt, hist, verdicts, phase, exit>>

Conclude(p, finding) ==
  /\ check' = [check EXCEPT ![p] = [stage |-> "over", live |-> <<>>]]
  /\ causes' = causes \cup IF finding THEN {"held"} ELSE {}

Advance(p, stage, live) ==
  check' = [check EXCEPT ![p] = [stage |-> stage, live |-> live]] /\ UNCHANGED causes

ProbeFirstSlip(p) ==
  /\ phase = "check" /\ check[p].stage = "first"
  /\ Conclude(p, up /\ (~check[p].live[1] \/ ShortLived))
  /\ UNCHANGED <<scn, backend, attempt, hist, failed, unverified, early, readable, phase, exit>>

\* Held to the age of the refusal and accepted, it was a restart; refused, two
\* fresh tokens are held.
ProbeFirst(p) ==
  /\ phase = "check" /\ check[p].stage = "first"
  /\ IF up /\ (~check[p].live[1] \/ ShortLived) THEN Advance(p, "second", <<TRUE, TRUE>>)
     ELSE Conclude(p, FALSE)
  /\ UNCHANGED <<scn, backend, attempt, hist, failed, unverified, early, readable, phase, exit>>

\* One is probed at half that age ...
ProbeHalf(p) ==
  /\ phase = "check" /\ check[p].stage = "second"
  /\ IF up /\ check[p].live[1] /\ scn.defect.kind # "brief" THEN Advance(p, "half", check[p].live)
     ELSE Conclude(p, up)
  /\ UNCHANGED <<scn, backend, attempt, hist, failed, unverified, early, readable, phase, exit>>

\* ... the other at the whole of it.
ProbeFull(p) ==
  /\ phase = "check" /\ check[p].stage = "half"
  /\ Conclude(p, up /\ (~check[p].live[2] \/ ShortLived))
  /\ UNCHANGED <<scn, backend, attempt, hist, failed, unverified, early, readable, phase, exit>>

Exit ==
  /\ phase = "check"
  /\ \A p \in Profiles : early[p] = 1 /\ p \in readable => check[p].stage = "over"
  /\ phase' = "done"
  /\ causes' = causes \cup IF \E p \in Profiles : early[p] > 1 THEN {"early"} ELSE {}
  /\ exit' = IF failed \/ causes' # {} THEN 1 ELSE IF unverified THEN 3 ELSE 0
  /\ UNCHANGED <<scn, backend, attempt, hist, failed, unverified, early, readable, check>>

Next ==
  \/ Stop \/ Start
  \/ Skip \/ Unreachable \/ CutOff \/ Accepted \/ RefusedNotResent
  \/ \E restart \in BOOLEAN : RefusedResent(restart)
  \/ Retry \/ RunToo \/ NextChain \/ LastChain
  \/ \E p \in Profiles : HoldFirst(p) \/ ProbeFirst(p) \/ ProbeHalf(p) \/ ProbeFull(p)
  \/ Exit

Spec == Init /\ [][Next]_vars

-----------------------------------------------------------------------------
(* Properties *)

Healthy == scn.defect.kind = "none"
FirstChain == scn.suite[1].steps
At == scn.defect.at

\* A restart of a backend without a defect, whenever it happens, and another
\* while the gate holds tokens, never make shrt say FINDING: neither verify and run, which ask for a repetition and for
\* nothing that shows a restart, nor the gate, which counts early refusals per
\* profile and holds a second pair of tokens before it concludes.
RestartIsNoFinding == exit # -1 /\ Healthy => causes = {}

\* verify of a chain under one profile whose logins state no expiry does not
\* report a regression for a restart: what it finds after the refused token is
\* not judged (cmd_verify.go notJudged), and nothing before it can have changed.
RestartIsNoRegression ==
  Complete /\ Healthy /\ what = "verify" /\ ~scn.stated
    /\ (\A i \in DOMAIN Chain : Chain[i].profile = Chain[1].profile) => Outcome.code # 1

\* The defect is one that a comparison, an expectation or the second call of a
\* session would show ...
Visible ==
  \/ scn.defect.kind \in {"auth", "drop"}
  \/ scn.defect.kind = "wrong" /\ (scn.suite[1].spot \/ FirstChain[At].asserts)
  \/ /\ ShortLived /\ scn.stated
     /\ \E j, k \in DOMAIN FirstChain : j < k /\ FirstChain[j].profile = FirstChain[k].profile

\* The call at the defect is not the first under its profile.
UsedBefore == \E k \in 1..(At - 1) : FirstChain[k].profile = FirstChain[At].profile

\* ... and one that two tries tell from a restart: a refused call must be sent
\* again to count, or have been refused a token accepted before, with no sign in
\* the run that the token was the reason; and a dropped one be followed by a
\* call that needs none of what it and later calls write.
Repeatable ==
  CASE scn.defect.kind = "auth" ->
         \/ FirstChain[At].read
         \/ ~UsedBefore /\ scn.token # "none"
         \/ UsedBefore /\ (scn.stated \/ \A k \in (At + 1)..Len(FirstChain) :
                              FirstChain[k].call # FirstChain[At].call \/ FirstChain[k].profile # FirstChain[At].profile)
    [] scn.defect.kind = "drop" ->
         scn.suite[1].spot /\ \E k \in (At + 1)..Len(FirstChain) : FirstChain[k].reads \subseteq 1..(At - 1)
    [] OTHER -> Visible

\* A defect of a backend that does not restart is an exit code 1 of one gate,
\* though its first sight is an exit code 3: a second try, the re-login of a
\* later chain or the held tokens confirm it.
DefectIsFound == exit # -1 /\ restarts = 0 /\ Repeatable => exit = 1

\* The gate passes only a backend whose chains show no defect, whatever a
\* restart hid from one try: what is not judged is never counted as green.  But
\* the session check has no finding when it cannot log in or probe
\* (gatesession.go heldProbes), so of sessions that are good for one call it is
\* true only of a backend that did not restart.
GreenIsTrue == exit = 0 /\ Visible => ShortLived /\ restarts > 0

\* verify has no verdict only when nothing that it could judge had changed: a
\* value that differs comes at or after a refused token or a call without an
\* answer ("Nothing before step %d drifted").
NothingBeforeIsHidden ==
  Complete /\ what = "verify" /\ Outcome.code = 3 =>
    \A i \in DOMAIN rec : rec[i].answer = "wrong" =>
      \E j \in 1..i : rec[j].retry # "no" \/ UnansweredCall(rec[j])

\* A healthy backend that refuses a token after it accepted it earlier in the
\* run has restarted, and run and verify exit 3, not 1 (docs/agent/PLAYBOOK.md,
\* PITFALLS.md 6 and the exit codes in cmd_run.go).
RestartIsNoVerdict ==
  Complete /\ Healthy
    /\ (\E i \in DOMAIN rec : rec[i].retry # "no" /\ AcceptedBefore(Chain, rec, i)) => Outcome.code # 1
=============================================================================
