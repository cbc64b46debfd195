------------------------------- MODULE MCGate -------------------------------
\* Suites, backends and token caches for Gate.
EXTENDS Gate

CONSTANTS pa, pb, put, get, list

S(p, c, rs, a) == [profile |-> p, call |-> c, read |-> c # put, reads |-> rs, asserts |-> a]
Write(p) == S(p, put, {}, FALSE)
Read(p, rs) == S(p, get, rs, FALSE)

\* A write, a read of what it wrote and another read; under one profile, and
\* under two.
One == <<Write(pa), Read(pa, {1}), S(pa, list, {}, TRUE)>>
Two == <<Write(pa), Read(pb, {1}), Read(pa, {}), Write(pb)>>
Writes == <<Read(pa, {}), Write(pa), Read(pa, {2})>>
\* The shortest chain on which a session that is good for one call shows, and
\* shows once: the gate has to hold tokens.
Pair == <<Write(pa), Read(pa, {1})>>

With(steps, spot) == <<[steps |-> steps, spot |-> spot]>>
Suites == {With(x, spot) : x \in {One, Two, Writes, Pair}, spot \in BOOLEAN} \cup {With(One, TRUE) \o With(Writes, FALSE)}
Defects == {[kind |-> "none", at |-> 0], [kind |-> "brief", at |-> 0], [kind |-> "mid", at |-> 0]}
             \cup [kind : {"auth", "drop", "wrong"}, at : 1..3]
MCScenarios ==
  {s \in [suite : Suites, durable : BOOLEAN, stated : BOOLEAN, token : {"none", "good", "dead"}, defect : Defects] :
     s.defect.at <= Len(s.suite[1].steps)}
=============================================================================
