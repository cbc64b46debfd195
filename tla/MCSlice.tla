------------------------------ MODULE MCSlice ------------------------------
\* Chains of up to six steps and what is asked of them, for Slice.
EXTENDS Slice

CONSTANTS make, set, get, list, buyer, seller, ids, name, email

Sid(n) == [kind |-> "step", name |-> n]
Exp(n) == [kind |-> "export", name |-> n]
Bare(n) == [kind |-> "bare", name |-> n]
Var(n) == [kind |-> "var", name |-> n]

Step(id, rpc, refs, exports) ==
  [id |-> id, rpc |-> rpc, write |-> rpc \in {make, set}, login |-> FALSE, listing |-> rpc = list, refuses |-> FALSE,
   refs |-> refs, sends |-> refs, exports |-> exports, fields |-> <<>>, whole |-> {}, mixes |-> {}, keys |-> {}, tags |-> {}]
Needs(rpc) == [rpc |-> rpc, via |-> {}, write |-> rpc \in {make, set}, value |-> FALSE, field |-> None, alias |-> None, for |-> None]
NoNeeds == [r \in {make, set, get, list} |-> <<>>]
Ask(steps, target) ==
  [steps |-> steps, target |-> target, keep |-> {}, keepWrites |-> FALSE, pinned |-> {}, checkpoints |-> {}, drop |-> {},
   needs |-> NoNeeds, refused |-> [i \in DOMAIN steps |-> "no"], asserts |-> {}, irrelevant |-> {}, pins |-> {},
   declared |-> <<>>, flags |-> <<>>, ran |-> <<>>, verify |-> FALSE]

\* Steps 1 and 2 export one name, which is also the id of step 3; the rest
\* read it each in one way. Sliced for the last step, and without one.
Shadowed ==
  LET s(a, b, c) == <<Step("s1", make, {}, {ids}), Step("s2", make, {}, a), Step(ids, make, {}, {}),
                      Step("s4", set, b, {}), Step("s5", get, c, {})>>
      chains == {s(a, b, c) : a \in {{}, {ids}}, b \in {{Exp(ids)}, {Sid(ids)}, {Bare(ids)}, {Bare("s1")}},
                              c \in {{Bare(ids)}, {Exp(ids), Sid("s4")}, {Sid(ids), Sid("s6")}}}
  IN {Ask(c, 5) : c \in chains} \cup {[Ask(c, 5) EXCEPT !.drop = d, !.pins = {<<4, name>>}] : c \in chains, d \in {{1}, {2, 3}, 1 .. 5}}

\* Two entities; writes that act on one of them, or on what was made from it,
\* before and after the read that is the target; a step to keep is pinned or not.
Changed ==
  LET s(a, b, c) == <<Step("s1", make, {}, {}), Step("s2", make, a, {}), Step("s3", set, b, {}),
                      Step("s4", set, c, {}), Step("s5", get, {Sid("s2")}, {}), Step("s6", get, {Sid("s5")}, {})>>
      chains == {s(a, b, c) : a \in {{}, {Sid("s1")}}, b \in {{Sid("s1")}, {Sid("s2")}, {}}, c \in {{Sid("s3")}, {Sid("s2")}}}
      asks == {Ask(c, t) : c \in chains, t \in {4, 5, 6}}
  IN asks
     \cup {[a EXCEPT !.keepWrites = TRUE, !.refused[3] = "refused"] : a \in asks}
     \cup {[a EXCEPT !.irrelevant = {<<4, 5>>}, !.refused[3] = "unsent"] : a \in asks}
     \cup {[a EXCEPT !.asserts = {<<3, 4>>}, !.checkpoints = {5}, !.steps[3].login = TRUE] : a \in asks}
     \cup {[a EXCEPT !.keep = {3, 6}] : a \in asks}

\* A step is kept red beyond the target, with a write between.
PinnedAfter ==
  {[Ask(<<Step("s1", make, {}, {}), Step("s2", get, {Sid("s1")}, {}), Step("s3", set, {Sid("s1")}, {}), Step("s4", get, {Sid("s1")}, {})>>, 2)
      EXCEPT !.keep = {4}, !.pinned = p] : p \in {{}, {4}}}

\* What a contract needs first: one call, one that shares a producer, a value,
\* one for each of two aliases, and one through another rpc.
Contract ==
  LET s(a, b, tag) == <<Step("s1", make, {}, {}), [Step("s2", set, a, {}) EXCEPT !.tags = tag], Step("s3", set, b, {}),
              Step("s4", get, {}, {}), [Step("s5", get, {Sid("s1")}, {}) EXCEPT !.tags = {buyer}],
              [Step("s6", list, {Sid("s5")}, {}) EXCEPT !.fields = [f \in {name} |-> {Sid("s1")}]]>>
      of(r) == [Needs(r) EXCEPT !.alias = buyer]
      sells(r) == [Needs(r) EXCEPT !.alias = seller]
      value == [Needs(make) EXCEPT !.value = TRUE, !.field = name]
      lone == [Needs(make) EXCEPT !.value = TRUE, !.field = email]
      list1 == {<<Needs(set)>>, <<value, lone>>, <<of(set), sells(set)>>, <<[of(get) EXCEPT !.for = buyer], [Needs(list) EXCEPT !.via = {get}]>>}
      get1 == {<<>>, <<Needs(set)>>, <<of(set)>>, <<[Needs(make) EXCEPT !.for = buyer]>>}
  IN {[Ask(s(a, b, tag), 6) EXCEPT !.needs[list] = l, !.needs[get] = g, !.refused[4] = r] :
        a, b \in {{}, {Sid("s1")}}, tag \in {{}, {buyer}}, l \in list1, g \in get1, r \in {"no", "refused"}}
     \cup {[Ask(s({}, {}, {}), 6) EXCEPT !.needs[list] = <<value>>, !.steps[6].fields[name] = {Var(name)}]}
     \cup {[Ask(s({Sid("s1")}, {Sid("s1")}, {}), 6) EXCEPT !.needs[list] = <<Needs(set)>>, !.needs[set] = m, !.steps[2].rpc = make, !.steps[2].refs = {Sid("s1")},
              !.needs[make] = <<Needs(set)>>] : m \in {<<>>, <<Needs(make)>>}}

\* Values: what is sent again, filtered by, created with, declared, or given.
Values ==
  LET s(w, k) == <<[Step("s1", make, {Var(name)}, {}) EXCEPT !.whole = {name}, !.mixes = w, !.keys = k],
                   [Step("s2", make, {Var(email)}, {}) EXCEPT !.keys = {ids}],
                   Step("s3", set, {Sid("s2")}, {}),
                   [Step("s4", list, {Var(name), Var(Tag)}, {}) EXCEPT !.whole = {name}, !.keys = {ids}]>>
      val(v, V) == [n \in V |-> v]
  IN {[Ask(s(w, k), 4) EXCEPT !.declared = val("default", d), !.flags = val("flag", f), !.ran = val("run", {name, email}),
         !.verify = v] : w \in {{}, {name}}, k \in {{}, {ids}}, d \in {{name}, {email, Tag}, {name, email}},
                         f \in {{}, {name}, {email, Tag}}, v \in BOOLEAN}

MCRequests == Shadowed \cup Changed \cup PinnedAfter \cup Contract \cup Values
=============================================================================
