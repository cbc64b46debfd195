----------------------------- MODULE MCChainRun -----------------------------
\* Chains for ChainRun: each a shape of references, expectations and exports
\* between its steps, run with and without -keep-going.
EXTENDS ChainRun

CONSTANTS fa, fb, ex, get, put

Step(c, refs, expect, export) ==
  [call |-> c, read |-> (c = get), allow |-> FALSE, refs |-> refs, expect |-> expect, export |-> export]
Allowed(s) == [s EXCEPT !.allow = TRUE]
Of(j, f) == [from |-> j, field |-> f]
Export == [from |-> ex, field |-> "value"]
Plain(ps) == [p \in ps |-> {}]
AB == {fa, fb}
X == {ex}
Both(steps) == {[goOn |-> g, steps |-> steps, pins |-> {}] : g \in BOOLEAN}

Nothing == Plain({})
Into(f) == [n \in X |-> f]

\* Three steps: the first is asserted, read and exported, the second reads it
\* and is asserted on what it answers or on an earlier answer, the third reads
\* both; calls are writes of one rpc.
Wired ==
  UNION {Both(<<Step(put, {}, first, Into(f)), Step(put, r2, second, Nothing), Step(put, r3, Nothing, Nothing)>>) :
           first \in {Nothing, Plain({fa})}, f \in AB, second \in {Plain({"code"}), [p \in {fb} |-> {Of(1, fa)}]},
           r2 \in {{}, {Of(1, fa)}}, r3 \in {{Export}, {Of(1, fb), Of(2, "request")}}}
\* Reads of one rpc, re-sent when a server error answers them.
Reads == Both(<<Step(get, {}, Nothing, Nothing), Step(get, {}, [p \in {fb} |-> {Of(1, fa)}], Nothing)>>)
\* Refusals that are asserted, tolerated, or neither.
Probes ==
  UNION {Both(<<Allowed(Step(put, {}, Nothing, Nothing)), Step(put, r, Plain({"transport"}), Nothing),
                s>>) : r \in {{}, {Of(1, "request")}},
                s \in {Step(put, {Of(1, fa)}, Nothing, Nothing), Allowed(Step(get, {}, Plain({fa}), Nothing))}}
\* Chains kept red at one or two paths.
Red ==
  {[goOn |-> FALSE, pins |-> pins,
    steps |-> <<Step(get, {}, Plain(AB), Nothing), Step(put, {Of(1, fb)}, [p \in {fb} |-> r], Nothing)>>] :
     pins \in {{<<1, fa>>}, {<<2, fb>>}, {<<1, fa>>, <<2, fb>>}}, r \in {{}, {Of(1, fa)}}}

\* One export written by two steps, neither with allow_fail.
Shared == Both(<<Step(put, {}, Plain({fa}), Into(fa)), Step(put, {}, Nothing, Into(fa)),
                 Step(put, {Export}, Nothing, Nothing)>>)

\* A step with allow_fail that reads another, and a pinned step that exports.
AllowedReader == Both(<<Step(put, {}, Nothing, Nothing), Allowed(Step(put, {Of(1, fa)}, Plain({fb}), Nothing)),
                        Step(put, {}, Nothing, Nothing)>>)
PinnedExport == {[goOn |-> FALSE, pins |-> {<<1, fa>>},
                  steps |-> <<Step(put, {}, Plain({fa}), Into(fb)), Step(put, {}, Nothing, Nothing)>>]}

\* A chain kept red with a step that may fail: answered, or not sent.
RedAllowed == {[goOn |-> FALSE, pins |-> {<<1, fa>>},
                steps |-> <<Step(put, {}, Plain({fa}), Nothing), Allowed(Step(put, {Of(1, fb)}, e, Nothing))>>] :
                 e \in {Nothing, Plain({fa})}}

MCChains == RedAllowed \cup Wired \cup Reads \cup Probes \cup Red \cup Shared \cup AllowedReader \cup PinnedExport

\* One export written by two steps, the second with allow_fail, or asserted on
\* another field than the one it exports.
Rewritten ==
  UNION {Both(<<Step(put, {}, Plain({fa}), Into(fa)), second, Step(put, {Export}, Nothing, Nothing)>>) :
           second \in {Allowed(Step(put, {}, Nothing, Into(fa))), Step(put, {}, Plain({fb}), Into(fa))}}
=============================================================================
