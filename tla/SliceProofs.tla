---------------------------- MODULE SliceProofs ----------------------------
(***************************************************************************)
(* For every chain, request and order of the queue: a slice holds what its *)
(* steps read, is closed under the rules that keep steps, is contained in  *)
(* every set of steps that is, and takes its values from the run.          *)
(***************************************************************************)
EXTENDS Slice, SequenceTheorems, FiniteSetTheorems, WellFoundedInduction, TLAPS

(***************************************************************************)
(* Greatest elements, and the steps a sequence holds                       *)
(***************************************************************************)
\* A set of naturals has a least element.
LEMMA MinExists ==
  ASSUME NEW S, S \subseteq Nat, S # {}
  PROVE  \E m \in S : \A k \in S : m <= k
<1>1. PICK m \in S : \A k \in S : ~ (<<k, m>> \in OpToRel(<, Nat))
  BY NatLessThanWellFounded, WFMin
<1>2. \A k \in S : ~ (k < m)
  BY <1>1 DEF OpToRel
<1> QED BY <1>2

\* A bounded set of naturals has a greatest element: the least upper bound.
LEMMA MaxExists ==
  ASSUME NEW S, NEW n \in Nat, S \subseteq 1 .. n, S # {}
  PROVE  \E m \in S : \A k \in S : k <= m
<1> DEFINE U == {m \in Nat : \A k \in S : k <= m}
<1>1. PICK m \in U : \A u \in U : m <= u
  <2>1. n \in U OBVIOUS
  <2> HIDE DEF U
  <2>2. U \subseteq Nat BY DEF U
  <2> QED BY <2>1, <2>2, MinExists
<1>2. m \in Nat /\ \A k \in S : k \in Nat /\ k <= m
  BY <1>1
<1>3. CASE m \in S BY <1>2, <1>3
<1>4. CASE m \notin S
  <2>1. \A k \in S : k <= m - 1 BY <1>2, <1>4
  <2>2. PICK k \in S : TRUE OBVIOUS
  <2>3. m - 1 \in Nat BY <1>2, <2>1, <2>2
  <2>4. m - 1 \in U BY <2>1, <2>3
  <2> QED BY <1>1, <1>2, <2>4
<1> QED BY <1>3, <1>4

\* Last is the greatest element, or 0.
LEMMA LastIsGreatest ==
  ASSUME NEW n \in Nat, NEW S, S \subseteq 1 .. n
  PROVE  /\ S = {} => Last(S) = 0
         /\ S # {} => Last(S) \in S /\ \A k \in S : k <= Last(S)
  BY MaxExists DEF Last

\* A subset that holds the greatest element has the same one.
LEMMA LastOfSubset ==
  ASSUME NEW n \in Nat, NEW S, S \subseteq 1 .. n, NEW T, T \subseteq S,
         Last(S) # 0 => Last(S) \in T
  PROVE  Last(T) = Last(S)
<1>1. CASE S = {}
  <2>1. T = S BY <1>1
  <2> QED BY <2>1
<1>2. CASE S # {}
  <2>1. Last(S) \in S /\ \A k \in S : k <= Last(S) BY <1>2, LastIsGreatest
  <2>2. Last(S) \in T
    <3>1. Last(S) \in 1 .. n BY <2>1
    <3>2. Last(S) # 0 BY <3>1
    <3> QED BY <3>2
  <2>3. T \subseteq 1 .. n /\ T # {} BY <2>2
  <2>4. Last(T) \in T /\ \A k \in T : k <= Last(T) BY <2>3, LastIsGreatest
  <2>5. Last(S) <= Last(T) BY <2>2, <2>4
  <2>6. Last(T) <= Last(S) BY <2>1, <2>4
  <2>7. Last(S) \in 1 .. n /\ Last(T) \in 1 .. n BY <2>1, <2>3, <2>4
  <2> QED BY <2>5, <2>6, <2>7
<1> QED BY <1>1, <1>2

InSeq(x, s) == \E k \in 1 .. Len(s) : s[k] = x

\* A concatenation holds what both parts hold.
LEMMA InConcat ==
  ASSUME NEW A, NEW s \in Seq(A), NEW t \in Seq(A)
  PROVE  /\ s \o t \in Seq(A)
         /\ \A x : InSeq(x, s) \/ InSeq(x, t) => InSeq(x, s \o t)
<1>1. s \o t \in Seq(A) BY ConcatProperties
<1>2. ASSUME NEW x, NEW k \in 1 .. Len(s), s[k] = x PROVE InSeq(x, s \o t)
  <2>1. k \in 1 .. Len(s \o t) /\ (s \o t)[k] = x BY <1>2, ConcatProperties, LenProperties
  <2> QED BY <2>1 DEF InSeq
<1>3. ASSUME NEW x, NEW k \in 1 .. Len(t), t[k] = x PROVE InSeq(x, s \o t)
  <2>1. Len(s) + k \in 1 .. Len(s \o t) /\ (s \o t)[Len(s) + k] = x
    BY <1>3, ConcatProperties, LenProperties
  <2> QED BY <2>1 DEF InSeq
<1> QED BY <1>1, <1>2, <1>3 DEF InSeq

\* The tail holds all but the head.
LEMMA InTail ==
  ASSUME NEW A, NEW s \in Seq(A), s # <<>>
  PROVE  /\ Head(s) \in A /\ Tail(s) \in Seq(A)
         /\ \A x : InSeq(x, s) => x = Head(s) \/ InSeq(x, Tail(s))
<1>1. Head(s) \in A /\ Tail(s) \in Seq(A) BY HeadTailProperties
<1>2. ASSUME NEW x, NEW k \in 1 .. Len(s), s[k] = x, k # 1 PROVE InSeq(x, Tail(s))
  <2>1. k - 1 \in 1 .. Len(Tail(s)) BY <1>2, HeadTailProperties, LenProperties
  <2>2. Tail(s)[k - 1] = x BY <1>2, <2>1, HeadTailProperties, LenProperties
  <2> QED BY <2>1, <2>2 DEF InSeq
<1>3. Head(s) = s[1] OBVIOUS
<1> QED BY <1>1, <1>2, <1>3 DEF InSeq

\* An order of a set of steps is a sequence of exactly these.
LEMMA OrdersHold ==
  ASSUME NEW n \in Nat, NEW S, S \subseteq 1 .. n, NEW q \in Orders(S)
  PROVE  /\ q \in Seq(S)
         /\ \A x \in S : InSeq(x, q)
<1>1. IsFiniteSet(S)
  <2>1. IsFiniteSet(1 .. n) BY FS_Interval
  <2> QED BY <2>1, FS_Subset
<1>2. Cardinality(S) \in Nat BY <1>1, FS_CardinalityType
<1>3. q \in [1 .. Cardinality(S) -> S] /\ {q[k] : k \in DOMAIN q} = S BY DEF Orders
<1>4. q \in Seq(S) /\ Len(q) = Cardinality(S) BY <1>2, <1>3
<1>5. \A x \in S : \E k \in 1 .. Cardinality(S) : q[k] = x BY <1>3
<1> QED BY <1>4, <1>5 DEF InSeq

(***************************************************************************)
(* What a request is, and which steps its rules name                       *)
(***************************************************************************)
\* The steps of a chain are numbered, and so are the needs of a call.
LEMMA RequestFacts ==
  ASSUME NEW c \in Requests
  PROVE  /\ Len(c.steps) \in Nat /\ Indices(c) = 1 .. Len(c.steps)
         /\ c.target \in Indices(c) /\ Seeds(c) \subseteq Indices(c)
         /\ \A i \in Indices(c) : /\ Len(Prereqs(c, i)) \in Nat
                                  /\ DOMAIN Prereqs(c, i) = 1 .. Len(Prereqs(c, i))
<1>1. IsRequest(c) BY RequestsAssumption
<1>2. Len(c.steps) \in Nat /\ Indices(c) = 1 .. Len(c.steps) BY <1>1 DEF IsRequest, Indices
<1>3. c.target \in Indices(c) /\ c.keep \cup c.checkpoints \subseteq Indices(c) BY <1>1 DEF IsRequest
<1>4. \A w \in 1 .. c.target - 1 : w \in Indices(c) BY <1>2, <1>3
<1>5. Seeds(c) \subseteq Indices(c) BY <1>3, <1>4 DEF Seeds, Asked
<1>6. ASSUME NEW i \in Indices(c)
      PROVE  Len(Prereqs(c, i)) \in Nat /\ DOMAIN Prereqs(c, i) = 1 .. Len(Prereqs(c, i))
  <2>1. /\ Prereqs(c, i) = [k \in 1 .. Len(Prereqs(c, i)) |-> Prereqs(c, i)[k]]
        /\ Len(Prereqs(c, i)) \in Nat
    BY <1>1 DEF IsRequest, Prereqs
  <2>2. \A f : f = [k \in 1 .. Len(f) |-> f[k]] => DOMAIN f = 1 .. Len(f) OBVIOUS
  <2> QED BY <2>1, <2>2
<1> QED BY <1>2, <1>3, <1>5, <1>6

\* A reference names an earlier step, or none.
LEMMA ProducerEarlier ==
  ASSUME NEW c \in Requests, NEW i \in Indices(c), NEW r
  PROVE  Producer(c, r, i) # 0 => Producer(c, r, i) \in Indices(c) /\ Producer(c, r, i) < i
<1> DEFINE before == {j \in Indices(c) : j < i}
           E == {j \in before : r.name \in c.steps[j].exports}
           N == {j \in before : c.steps[j].id = r.name}
<1>1. E \subseteq 1 .. Len(c.steps) /\ N \subseteq 1 .. Len(c.steps) /\ Len(c.steps) \in Nat
  BY RequestFacts
<1>2. (Last(E) # 0 => Last(E) \in E) /\ (Last(N) # 0 => Last(N) \in N)
  BY <1>1, LastIsGreatest
<1>3. Producer(c, r, i) \in {Last(E), Last(N), 0}
  BY DEF Producer, ProducerIn
<1> QED BY <1>2, <1>3

LEMMA ProducersEarlier ==
  ASSUME NEW c \in Requests, NEW i \in Indices(c)
  PROVE  /\ Producers(c, i) \subseteq Indices(c)
         /\ \A j \in Producers(c, i) : j < i
  BY ProducerEarlier DEF Producers, ProducersOf

\* The call for a prerequisite is a step of the chain, or none.
LEMMA CallsInChain ==
  ASSUME NEW c \in Requests, NEW i \in Indices(c), NEW p
  PROVE  /\ LastCall(c, p, i) # 0 => LastCall(c, p, i) \in Indices(c)
         /\ CallsFor(c, p, i) \subseteq Indices(c)
<1> DEFINE B == {j \in CallsOf(c, p, i) : \A k \in CallsOf(c, p, i) : Rank(c, p, i, k) <= Rank(c, p, i, j)}
<1>1. B \subseteq 1 .. Len(c.steps) /\ Len(c.steps) \in Nat BY RequestFacts DEF CallsOf
<1>2. Last(B) # 0 => Last(B) \in B BY <1>1, LastIsGreatest
<1>3. LastCall(c, p, i) = Last(B) BY DEF LastCall
<1>4. LastCall(c, p, i) # 0 => LastCall(c, p, i) \in Indices(c) BY <1>2, <1>3 DEF CallsOf
<1>5. Sharing(c, p, i) \subseteq Indices(c) BY DEF Sharing, CallsOf
<1> QED BY <1>4, <1>5 DEF CallsFor

\* The writes a rule asks for are earlier than the target and not kept yet.
LEMMA RulesInChain ==
  ASSUME NEW c \in Requests, NEW K
  PROVE  /\ Candidates(c, K) \subseteq Indices(c)
         /\ SideEffectWrites(c, K) \subseteq Candidates(c, K)
         /\ StateWrites(c, K) \subseteq Candidates(c, K)
         /\ SameValueWrites(c, K) \subseteq Candidates(c, K)
<1>1. Candidates(c, K) \subseteq Indices(c) BY RequestFacts DEF Candidates
<1> QED BY <1>1 DEF SideEffectWrites, StateWrites, SameValueWrites

\* A larger set of kept steps asks for what a smaller one does, unless it keeps
\* that already.
LEMMA RulesGrow ==
  ASSUME NEW c \in Requests, NEW K, NEW C, K \subseteq C
  PROVE  /\ SideEffectWrites(c, K) \subseteq C \cup SideEffectWrites(c, C)
         /\ StateWrites(c, K) \subseteq C \cup StateWrites(c, C)
         /\ SameValueWrites(c, K) \subseteq C \cup SameValueWrites(c, C)
<1>1. Candidates(c, K) \subseteq C \cup Candidates(c, C) BY DEF Candidates
<1>2. SideEffectWrites(c, K) \subseteq C \cup SideEffectWrites(c, C)
  BY <1>1 DEF SideEffectWrites
<1>3. StateWrites(c, K) \subseteq C \cup StateWrites(c, C)
  BY <1>1 DEF StateWrites
<1>4. SameValueWrites(c, K) \subseteq C \cup SameValueWrites(c, C)
  BY <1>1 DEF SameValueWrites
<1> QED BY <1>2, <1>3, <1>4

\* Where the producers of a step are kept, its references name among the kept
\* steps what they name in the chain.
LEMMA SameProducer ==
  ASSUME NEW c \in Requests, NEW i \in Indices(c), NEW K, K \subseteq Indices(c),
         Producers(c, i) \subseteq K, NEW r \in c.steps[i].refs
  PROVE  ProducerIn(c, K, r, i) = Producer(c, r, i)
<1> DEFINE E == {j \in {j \in Indices(c) : j < i} : r.name \in c.steps[j].exports}
           N == {j \in {j \in Indices(c) : j < i} : c.steps[j].id = r.name}
           EK == {j \in {j \in K : j < i} : r.name \in c.steps[j].exports}
           NK == {j \in {j \in K : j < i} : c.steps[j].id = r.name}
<1>1. Producer(c, r, i) # 0 => Producer(c, r, i) \in K BY DEF Producers, ProducersOf
<1>2. E \subseteq 1 .. Len(c.steps) /\ N \subseteq 1 .. Len(c.steps) /\ Len(c.steps) \in Nat
  BY RequestFacts
<1>3. EK \subseteq E /\ NK \subseteq N OBVIOUS
<1>4. (Last(E) # 0 => Last(E) \in E) /\ (Last(N) # 0 => Last(N) \in N) BY <1>2, LastIsGreatest
<1>5. (Last(E) \in K => Last(EK) = Last(E)) /\ (Last(E) = 0 => Last(EK) = 0)
  <2>1. (Last(E) # 0 => Last(E) \in EK) => Last(EK) = Last(E) BY <1>2, <1>3, LastOfSubset
  <2> QED BY <2>1, <1>4
<1>6. (Last(N) \in K => Last(NK) = Last(N)) /\ (Last(N) = 0 => Last(NK) = 0)
  <2>1. (Last(N) # 0 => Last(N) \in NK) => Last(NK) = Last(N) BY <1>2, <1>3, LastOfSubset
  <2> QED BY <2>1, <1>4
<1>7. Producer(c, r, i) = CASE r.kind = "export" -> Last(E) [] r.kind = "step" -> Last(N)
                            [] r.kind = "bare" -> (IF Last(E) # 0 THEN Last(E) ELSE Last(N)) [] OTHER -> 0
  BY DEF Producer, ProducerIn
<1>8. ProducerIn(c, K, r, i) = CASE r.kind = "export" -> Last(EK) [] r.kind = "step" -> Last(NK)
                            [] r.kind = "bare" -> (IF Last(EK) # 0 THEN Last(EK) ELSE Last(NK)) [] OTHER -> 0
  BY DEF ProducerIn
<1> HIDE DEF E, N, EK, NK
<1>9. CASE r.kind = "export" BY <1>1, <1>5, <1>7, <1>8, <1>9
<1>10. CASE r.kind = "step" BY <1>1, <1>6, <1>7, <1>8, <1>10
<1>11. CASE r.kind = "bare" BY <1>1, <1>5, <1>6, <1>7, <1>8, <1>11
<1>12. CASE r.kind \notin {"export", "step", "bare"} BY <1>7, <1>8, <1>12
<1> QED BY <1>9, <1>10, <1>11, <1>12

(***************************************************************************)
(* The inductive invariant                                                 *)
(***************************************************************************)
Adding == {"serve", "prereqs", "state", "same", "again", "build"}

\* The steps that have been looked at, and where each part runs.
Shape ==
  /\ TypeOK
  /\ pc = "begin" => kept = {} /\ bound = {} /\ unmet = {}
  /\ pc = "prereqs" => at \in kept
  /\ pc \in Adding \cup {"begin"} => Slicing
  /\ Slicing => gone = {}
  /\ pc = "walk" => ~Slicing

\* Without has sorted the steps up to at; none that it keeps reads one that is
\* gone.
Walked ==
  ~Slicing =>
    /\ kept \cup gone = 1 .. at
    /\ \A i \in kept : Producers(req, i) \subseteq kept
    /\ Done => at = Len(req.steps)

\* What the k-th need of step i asks for is kept, or named as unmet.
Met(i, k) ==
  \/ CallsFor(req, Prereqs(req, i)[k], i) \subseteq kept
  \/ <<i, Prereqs(req, i)[k].rpc>> \in unmet
\* A kept step waits in the queue, or has been looked at; the needs of the step
\* that is looked at have been up to the next.
Served1(i) ==
  \/ InSeq(i, queue)
  \/ /\ Producers(req, i) \subseteq kept
     /\ \A k \in DOMAIN Prereqs(req, i) : (pc = "prereqs" /\ i = at /\ k >= nth) \/ Met(i, k)
Looked == Slicing /\ pc \in Adding \cup {"done"} => \A i \in kept : Served1(i)

\* A turn of the loop that has added nothing so far left every rule with
\* nothing to add and the queue empty.
Rounds ==
  Slicing =>
    /\ pc \in {"state", "same", "again"} /\ ~grew => queue = <<>> /\ SideEffectWrites(req, kept) = {}
    /\ pc \in {"same", "again"} /\ ~grew => StateWrites(req, kept) = {}
    /\ pc = "again" /\ ~grew => SameValueWrites(req, kept) = {}
    /\ pc \in {"build", "done"} => /\ queue = <<>> /\ SideEffectWrites(req, kept) = {}
                                   /\ StateWrites(req, kept) = {} /\ SameValueWrites(req, kept) = {}

\* So far nothing is kept that a closed set could do without.
NoMore ==
  Slicing => \A C \in SUBSET Indices(req) : Seeds(req) \subseteq C /\ Closed(req, C) => kept \subseteq C

IInv == Shape /\ Walked /\ Looked /\ Rounds /\ NoMore

(***************************************************************************)
(* Initial states                                                          *)
(***************************************************************************)
LEMMA InitInv == Init => IInv
<1> SUFFICES ASSUME Init PROVE IInv OBVIOUS
<1>1. req \in Requests /\ Len(req.steps) \in Nat BY RequestFacts DEF Init
<1>2. <<>> \in Seq(kept) BY EmptySeq
<1>3. TypeOK
  <2>1. pc \in PCs /\ pc # "done" BY DEF Init, PCs
  <2>2. queue \in Seq(kept) BY <1>2 DEF Init
  <2>3. kept \subseteq Indices(req) /\ gone \subseteq Indices(req) /\ kept \cap gone = {} BY DEF Init
  <2>4. at \in 0 .. Len(req.steps) /\ nth \in Nat BY <1>1 DEF Init
  <2>6. grew \in BOOLEAN BY DEF Init
  <2>5. (\A b \in bound : b[1] \in kept) /\ \A u \in unmet : u[1] \in kept BY DEF Init
  <2> QED BY <1>1, <2>1, <2>2, <2>3, <2>4, <2>5, <2>6 DEF Init, TypeOK, Done
<1>4. Shape BY <1>3 DEF Init, Shape, Adding, Slicing
<1>5. Walked BY DEF Init, Walked, Done, Slicing
<1>6. Looked BY DEF Init, Looked
<1>7. Rounds BY DEF Init, Rounds, Slicing
<1>8. NoMore BY DEF Init, NoMore
<1> QED BY <1>4, <1>5, <1>6, <1>7, <1>8 DEF IInv

(***************************************************************************)
(* Steps that add to the kept steps                                        *)
(***************************************************************************)
\* Adding a set A of steps, each of them kept before or put in the queue,
\* leaves the queue a sequence of kept steps and no new step outside it.
LEMMA GrowQueue ==
  ASSUME TypeOK, NEW A, A \subseteq Indices(req), NEW s \in Seq(kept \cup A),
         NEW S, S \subseteq A, NEW q \in Orders(S),
         \A a \in A : a \in kept \/ a \in S \/ InSeq(a, s),
         kept' = kept \cup A, queue' = s \o q
  PROVE  /\ kept' \subseteq Indices(req) /\ queue' \in Seq(kept')
         /\ \A i : InSeq(i, s) => InSeq(i, queue')
         /\ \A i \in kept' : i \in kept \/ InSeq(i, queue')
<1>1. req \in Requests /\ Len(req.steps) \in Nat /\ Indices(req) = 1 .. Len(req.steps)
  BY RequestFacts DEF TypeOK
<1>2. S \subseteq 1 .. Len(req.steps) BY <1>1
<1>3. q \in Seq(S) /\ \A x \in S : InSeq(x, q) BY <1>1, <1>2, OrdersHold
<1>4. s \in Seq(kept') /\ q \in Seq(kept') BY <1>3, SeqMonotonic
<1>5. queue' \in Seq(kept') /\ \A x : InSeq(x, s) \/ InSeq(x, q) => InSeq(x, queue')
  BY <1>4, InConcat
<1> QED BY <1>3, <1>5 DEF TypeOK

\* A turn that a rule has nothing to add in leaves the queue as it is.
LEMMA NothingAdded ==
  ASSUME NEW A, NEW s \in Seq(A), NEW q \in InOrder({})
  PROVE  s \o q = s
<1>1. {} \subseteq 1 .. 0 OBVIOUS
<1>2. q \in Orders({}) BY DEF InOrder
<1>3. q \in Seq({}) BY <1>1, <1>2, OrdersHold
<1>4. q = <<>>
  <2>1. Len(q) \in Nat /\ q \in [1 .. Len(q) -> {}] BY <1>3, LenProperties
  <2>2. CASE Len(q) = 0 BY <1>3, <2>2, EmptySeq
  <2>3. CASE Len(q) # 0
    <3>1. 1 \in 1 .. Len(q) BY <2>1, <2>3
    <3>2. q[1] \in {} BY <1>3, <3>1, ElementOfSeq
    <3> QED BY <3>2
  <2> QED BY <2>2, <2>3
<1> QED BY <1>4, ConcatEmptySeq

\* What is met stays met as steps are added.
LEMMA MetGrows ==
  ASSUME NEW i, NEW k, Met(i, k), req' = req, kept \subseteq kept', unmet \subseteq unmet'
  PROVE  Met(i, k)'
  BY DEF Met

\* The seeds are the first kept steps, all of them in the queue.
LEMMA BeginInv == IInv /\ Begin => IInv'
<1> SUFFICES ASSUME IInv, Begin PROVE IInv' OBVIOUS
<1>1. /\ req \in Requests /\ TypeOK /\ Slicing /\ kept = {} /\ bound = {} /\ unmet = {}
      /\ pc = "begin" /\ res = None /\ gone = {}
  BY DEF IInv, Begin, Shape, TypeOK, Adding, Done
<1>2. /\ req' = req /\ at' = at /\ nth' = nth /\ grew' = grew /\ gone' = gone /\ res' = res
      /\ bound' = {} /\ unmet' = {} /\ pc' = "serve" /\ kept' = Seeds(req)
  BY <1>1 DEF Begin
<1>3. PICK q \in Orders(Seeds(req) \ {req.target}) : queue' = <<req.target>> \o q BY DEF Begin
<1>4. /\ Seeds(req) \subseteq Indices(req) /\ <<req.target>> \in Seq(kept \cup Seeds(req))
      /\ InSeq(req.target, <<req.target>>)
  BY <1>1, RequestFacts DEF Seeds, InSeq
<1>5. kept' = kept \cup Seeds(req) /\ \A a \in Seeds(req) : a \in Seeds(req) \ {req.target} \/ InSeq(a, <<req.target>>)
  BY <1>1, <1>2, <1>4
<1>6. /\ kept' \subseteq Indices(req) /\ queue' \in Seq(kept')
      /\ \A i \in kept' : i \in kept \/ InSeq(i, queue')
  <2> DEFINE S == Seeds(req) \ {req.target}
  <2>1. S \subseteq Seeds(req) /\ q \in Orders(S) BY <1>3
  <2>2. \A a \in Seeds(req) : a \in kept \/ a \in S \/ InSeq(a, <<req.target>>) BY <1>5
  <2> HIDE DEF S
  <2> QED BY ZenonT(30), <1>1, <1>3, <1>4, <1>5, <2>1, <2>2, GrowQueue
<1>7. TypeOK'
  BY <1>1, <1>2, <1>6 DEF TypeOK, PCs, Done
<1>8. Shape' BY <1>1, <1>2, <1>7 DEF Shape, Adding, Slicing
<1>9. Walked' BY <1>1, <1>2 DEF Walked, Slicing
<1>10. Looked' BY <1>1, <1>6 DEF Looked, Served1
<1>11. Rounds' BY <1>2 DEF Rounds
<1>12. NoMore' BY <1>1, <1>2 DEF NoMore
<1> QED BY <1>8, <1>9, <1>10, <1>11, <1>12 DEF IInv

\* What holds of the state where steps are added.
LEMMA AddingFacts ==
  ASSUME IInv, pc \in Adding
  PROVE  /\ req \in Requests /\ TypeOK /\ Slicing /\ gone = {} /\ res = None
         /\ \A i \in kept : i \in Indices(req) /\ Served1(i)
         /\ \A C \in SUBSET Indices(req) : Seeds(req) \subseteq C /\ Closed(req, C) => kept \subseteq C
<1>1. TypeOK /\ Slicing /\ gone = {} BY DEF IInv, Shape
<1>2. pc # "done" BY DEF Adding
<1>3. res = None BY <1>1, <1>2 DEF TypeOK, Done
<1> QED BY <1>1, <1>3 DEF IInv, TypeOK, Looked, NoMore

\* The head of the queue is looked at: its producers are kept.
LEMMA ServeInv == IInv /\ Serve => IInv'
<1> SUFFICES ASSUME IInv, Serve PROVE IInv' OBVIOUS
<1> DEFINE h == Head(queue)
           A == Producers(req, h)
           S == A \ kept
<1>1. pc = "serve" /\ queue # <<>> /\ pc \in Adding BY DEF Serve, Adding
<1>2. /\ req \in Requests /\ TypeOK /\ Slicing /\ gone = {} /\ res = None
      /\ \A i \in kept : i \in Indices(req) /\ Served1(i)
      /\ \A C \in SUBSET Indices(req) : Seeds(req) \subseteq C /\ Closed(req, C) => kept \subseteq C
  BY <1>1, AddingFacts
<1>3. /\ req' = req /\ at' = h /\ nth' = 1 /\ grew' = grew /\ gone' = gone /\ res' = res
      /\ bound' = bound /\ unmet' = unmet /\ pc' = "prereqs" /\ kept' = kept \cup A
  BY DEF Serve
<1>4. PICK q \in Orders(S) : queue' = Tail(queue) \o q BY DEF Serve
<1>5. queue \in Seq(kept) BY <1>2 DEF TypeOK
<1>6. /\ h \in kept /\ Tail(queue) \in Seq(kept)
      /\ \A x : InSeq(x, queue) => x = h \/ InSeq(x, Tail(queue))
  BY <1>1, <1>5, InTail
<1>7. A \subseteq Indices(req) BY <1>2, <1>6, ProducersEarlier
<1>8. Tail(queue) \in Seq(kept \cup A) BY <1>6, SeqMonotonic
<1>9. /\ kept' \subseteq Indices(req) /\ queue' \in Seq(kept')
      /\ \A i : InSeq(i, Tail(queue)) => InSeq(i, queue')
      /\ \A i \in kept' : i \in kept \/ InSeq(i, queue')
  <2>1. S \subseteq A /\ \A a \in A : a \in kept \/ a \in S \/ InSeq(a, Tail(queue)) OBVIOUS
  <2> HIDE DEF A, S, h
  <2> QED BY <1>2, <1>3, <1>4, <1>7, <1>8, <2>1, GrowQueue
<1>10. h \in 0 .. Len(req.steps) BY <1>2, <1>6, RequestFacts
<1>11. TypeOK'
  <2>1. pc' \in PCs /\ ~Done' BY <1>3 DEF PCs, Done
  <2>2. (\A b \in bound' : b[1] \in kept') /\ (\A u \in unmet' : u[1] \in kept') /\ grew' \in BOOLEAN
    BY <1>2, <1>3 DEF TypeOK
  <2> HIDE DEF A, S, h
  <2> QED BY <1>2, <1>3, <1>9, <1>10, <2>1, <2>2 DEF TypeOK
<1> HIDE DEF A, S
<1>12. Shape' BY <1>2, <1>3, <1>6, <1>11 DEF Shape, Adding, Slicing
<1>13. Walked' BY <1>2, <1>3 DEF Walked, Slicing
<1>14. ASSUME NEW i \in kept' PROVE Served1(i)'
  <2>1. CASE i = h
    <3>1. Producers(req, i)' \subseteq kept' BY <1>3, <2>1 DEF A
    <3>2. \A k \in DOMAIN Prereqs(req, i) : k >= 1 BY <1>2, <1>6, <2>1, RequestFacts
    <3> QED BY <1>3, <2>1, <3>1, <3>2 DEF Served1
  <2>2. CASE InSeq(i, queue') BY <2>2 DEF Served1
  <2>3. CASE i # h /\ ~InSeq(i, queue')
    <3>1. i \in kept /\ ~InSeq(i, queue) BY <1>6, <1>9, <2>3
    <3>2. Producers(req, i) \subseteq kept /\ \A k \in DOMAIN Prereqs(req, i) : Met(i, k)
      BY <1>1, <1>2, <3>1 DEF Served1
    <3>3. \A k \in DOMAIN Prereqs(req, i) : Met(i, k)' BY <1>3, <3>2, MetGrows
    <3> QED BY <1>3, <3>2, <3>3 DEF Served1
  <2> QED BY <2>1, <2>2, <2>3
<1>15. Looked' BY <1>14 DEF Looked
<1>16. Rounds' BY <1>3 DEF Rounds
<1>17. ASSUME NEW C \in SUBSET Indices(req), Seeds(req) \subseteq C, Closed(req, C) PROVE kept' \subseteq C
  <2>1. h \in C BY <1>2, <1>6, <1>17
  <2>2. A \subseteq C BY <1>17, <2>1 DEF Closed, A
  <2> QED BY <1>2, <1>3, <1>17, <2>2
<1>18. NoMore' BY <1>3, <1>17 DEF NoMore
<1> QED BY <1>12, <1>13, <1>15, <1>16, <1>18 DEF IInv

\* A need is met by what it asks for, or named as unmet.
LEMMA PrereqInv == IInv /\ Prereq => IInv'
<1> SUFFICES ASSUME IInv, Prereq PROVE IInv' OBVIOUS
<1> DEFINE p == Here
           j == BoundCall(p)
           A == IF Skipped(req, at, p) THEN {} ELSE IF Sharing(req, p, at) # {} THEN Sharing(req, p, at) ELSE {j} \ {0}
           S == A \ kept
<1>1. pc = "prereqs" /\ pc \in Adding /\ nth <= Len(Prereqs(req, at)) BY DEF Prereq, Adding
<1>2. /\ req \in Requests /\ TypeOK /\ Slicing /\ gone = {} /\ res = None
      /\ \A i \in kept : i \in Indices(req) /\ Served1(i)
      /\ \A C \in SUBSET Indices(req) : Seeds(req) \subseteq C /\ Closed(req, C) => kept \subseteq C
  BY <1>1, AddingFacts
<1>3. at \in kept /\ at \in Indices(req) BY <1>1, <1>2 DEF IInv, Shape
<1>4. /\ req' = req /\ at' = at /\ nth' = nth + 1 /\ grew' = grew /\ gone' = gone /\ res' = res
      /\ pc' = pc /\ kept' = kept \cup A
      /\ unmet' = IF ~Skipped(req, at, p) /\ A = {} THEN unmet \cup {<<at, p.rpc>>} ELSE unmet
      /\ \/ bound' = bound
         \/ ~Skipped(req, at, p) /\ Sharing(req, p, at) = {} /\ Binds(p, j) /\ bound' = bound \cup {<<j, p.alias>>}
  BY DEF Prereq
<1>5. PICK q \in Orders(S) : queue' = queue \o q BY DEF Prereq, InOrder
<1>6. j = 0 \/ j = LastCall(req, p, at) BY DEF BoundCall
<1>7. A \subseteq CallsFor(req, p, at) BY <1>6 DEF CallsFor
<1>8. A \subseteq Indices(req) BY <1>2, <1>3, <1>7, CallsInChain
<1>9. queue \in Seq(kept \cup A) BY <1>2, SeqMonotonic DEF TypeOK
<1>10. /\ kept' \subseteq Indices(req) /\ queue' \in Seq(kept')
       /\ \A i : InSeq(i, queue) => InSeq(i, queue')
       /\ \A i \in kept' : i \in kept \/ InSeq(i, queue')
  <2>1. S \subseteq A /\ \A a \in A : a \in kept \/ a \in S \/ InSeq(a, queue) OBVIOUS
  <2> HIDE DEF A, S, p, j
  <2> QED BY <1>2, <1>4, <1>5, <1>8, <1>9, <2>1, GrowQueue
<1>11. nth \in Nat \ {0} /\ nth' \in Nat \ {0} /\ at' \in 0 .. Len(req.steps) BY <1>2, <1>4 DEF TypeOK
<1>12. TypeOK'
  <2>1. pc' \in PCs /\ ~Done' BY <1>1, <1>4 DEF PCs, Done
  <2>2. grew' \in BOOLEAN BY <1>2, <1>4 DEF TypeOK
  <2>3. \A u \in unmet' : u[1] \in kept' BY <1>2, <1>3, <1>4 DEF TypeOK
  <2>4. \A b \in bound' : b[1] \in kept'
    <3>1. ~Skipped(req, at, p) /\ Sharing(req, p, at) = {} /\ Binds(p, j) => j \in A BY DEF Binds
    <3> QED BY <1>2, <1>4, <3>1 DEF TypeOK
  <2> HIDE DEF A, S, p, j
  <2> QED BY <1>2, <1>4, <1>10, <1>11, <2>1, <2>2, <2>3, <2>4 DEF TypeOK
<1>13. Shape' BY <1>1, <1>2, <1>3, <1>4, <1>12 DEF Shape, Adding, Slicing
<1>14. Walked' BY <1>2, <1>4 DEF Walked, Slicing
<1>15. ASSUME NEW i, NEW k, i = at, k = nth PROVE Met(i, k)'
  <2>1. Prereqs(req, i)[k] = p BY <1>15 DEF Here
  <2>2. CallsFor(req, p, i) \subseteq kept' \/ <<i, p.rpc>> \in unmet'
    <3>1. CASE Skipped(req, at, p)
      <4>1. CallsFor(req, p, at) = {} BY <3>1 DEF CallsFor
      <4> QED BY <1>15, <4>1
    <3>2. CASE ~Skipped(req, at, p) /\ A = {}
      <4>1. <<at, p.rpc>> \in unmet' BY <1>4, <3>2
      <4> QED BY <1>15, <4>1
    <3>3. CASE ~Skipped(req, at, p) /\ A # {}
      <4>1. CallsFor(req, p, at) \subseteq A BY <1>6, <3>3 DEF CallsFor
      <4> QED BY <1>4, <1>15, <4>1
    <3> QED BY <3>1, <3>2, <3>3
  <2> HIDE DEF p
  <2> QED BY <1>4, <2>1, <2>2 DEF Met
<1>16. ASSUME NEW i \in kept' PROVE Served1(i)'
  <2>1. CASE InSeq(i, queue') BY <2>1 DEF Served1
  <2>2. CASE ~InSeq(i, queue')
    <3>1. i \in kept /\ ~InSeq(i, queue) BY <1>10, <2>2
    <3>2. /\ Producers(req, i) \subseteq kept
          /\ \A k \in DOMAIN Prereqs(req, i) : (i = at /\ k >= nth) \/ Met(i, k)
      BY <1>2, <3>1 DEF Served1
    <3>3. \A k \in DOMAIN Prereqs(req, i) : Met(i, k) => Met(i, k)' BY <1>4, MetGrows
    <3>4. \A k \in DOMAIN Prereqs(req, i) : k \in Nat BY <1>2, <3>1, RequestFacts
    <3>5. ASSUME NEW k \in DOMAIN Prereqs(req, i) PROVE (i = at /\ k >= nth + 1) \/ Met(i, k)'
      <4>1. CASE Met(i, k) BY <3>3, <4>1
      <4>2. CASE i = at /\ k = nth BY <1>15, <4>2
      <4>3. CASE i = at /\ k >= nth /\ k # nth BY <1>11, <3>4, <4>3
      <4> QED BY <3>2, <4>1, <4>2, <4>3
    <3> QED BY <1>1, <1>4, <3>2, <3>5 DEF Served1
  <2> QED BY <2>1, <2>2
<1>17. Looked' BY <1>16 DEF Looked
<1>18. Rounds' BY <1>1, <1>4 DEF Rounds
<1>19. ASSUME NEW C \in SUBSET Indices(req), Seeds(req) \subseteq C, Closed(req, C) PROVE kept' \subseteq C
  <2>1. at \in C BY <1>2, <1>3, <1>19
  <2>2. nth \in DOMAIN Prereqs(req, at) BY <1>1, <1>2, <1>3, <1>11, RequestFacts
  <2>3. CallsFor(req, p, at) \subseteq Called(req, at) BY <2>2 DEF Called, Here
  <2>4. A \subseteq C BY <1>7, <1>19, <2>1, <2>3 DEF Closed
  <2> QED BY <1>2, <1>4, <1>19, <2>4
<1>20. NoMore' BY <1>4, <1>19 DEF NoMore
<1> QED BY <1>13, <1>14, <1>17, <1>18, <1>20 DEF IInv

\* All needs of the step that was looked at are met.
LEMMA ServedInv == IInv /\ Served => IInv'
<1> SUFFICES ASSUME IInv, Served PROVE IInv' OBVIOUS
<1>1. pc = "prereqs" /\ pc \in Adding /\ nth > Len(Prereqs(req, at)) BY DEF Served, Adding
<1>2. /\ req \in Requests /\ TypeOK /\ Slicing /\ gone = {} /\ res = None
      /\ \A i \in kept : i \in Indices(req) /\ Served1(i)
      /\ \A C \in SUBSET Indices(req) : Seeds(req) \subseteq C /\ Closed(req, C) => kept \subseteq C
  BY <1>1, AddingFacts
<1>3. /\ req' = req /\ at' = at /\ nth' = nth /\ grew' = grew /\ gone' = gone /\ res' = res
      /\ pc' = "serve" /\ kept' = kept /\ unmet' = unmet /\ bound' = bound /\ queue' = queue
  BY DEF Served
<1>4. TypeOK' BY <1>2, <1>3 DEF TypeOK, PCs, Done
<1>5. Shape' BY <1>2, <1>3, <1>4 DEF Shape, Adding, Slicing
<1>6. Walked' BY <1>2, <1>3 DEF Walked, Slicing
<1>7. ASSUME NEW i \in kept' PROVE Served1(i)'
  <2>1. CASE InSeq(i, queue') BY <2>1 DEF Served1
  <2>2. CASE ~InSeq(i, queue')
    <3>1. i \in kept /\ ~InSeq(i, queue) BY <1>3, <2>2
    <3>2. /\ Producers(req, i) \subseteq kept
          /\ \A k \in DOMAIN Prereqs(req, i) : (i = at /\ k >= nth) \/ Met(i, k)
      BY <1>2, <3>1 DEF Served1
    <3>3. /\ Len(Prereqs(req, i)) \in Nat /\ nth \in Nat
          /\ \A k \in DOMAIN Prereqs(req, i) : k \in 1 .. Len(Prereqs(req, i))
      BY <1>2, <3>1, RequestFacts DEF TypeOK
    <3>4. ASSUME NEW k \in DOMAIN Prereqs(req, i) PROVE Met(i, k)'
      <4>1. ~(i = at /\ k >= nth) BY <1>1, <3>3
      <4> QED BY <1>3, <3>2, <4>1, MetGrows
    <3> QED BY <1>3, <3>2, <3>4 DEF Served1
  <2> QED BY <2>1, <2>2
<1>8. Looked' BY <1>7 DEF Looked
<1>9. Rounds' BY <1>3 DEF Rounds
<1>10. NoMore' BY <1>2, <1>3 DEF NoMore, Slicing
<1> QED BY <1>5, <1>6, <1>8, <1>9, <1>10 DEF IInv

\* A rule adds its writes to the queue; the rest of the invariant but Rounds
\* holds whichever rule it is.
LEMMA AddInv ==
  ASSUME IInv, pc \in {"serve", "state", "same"}, NEW S, S \subseteq Candidates(req, kept),
         \A C \in SUBSET Indices(req) : kept \subseteq C /\ Closed(req, C) => S \subseteq C,
         NEW first \in BOOLEAN, NEW next \in {"state", "same", "again"}, Add(S, first, next)
  PROVE  /\ Shape' /\ Walked' /\ Looked' /\ NoMore'
         /\ req' = req /\ pc' = next /\ kept' = kept \cup S
         /\ ~grew' => kept' = kept /\ queue' = queue /\ S = {} /\ (first \/ ~grew)
<1>1. pc \in Adding /\ pc # "prereqs" /\ next \in Adding /\ next # "prereqs" BY DEF Adding
<1>2. /\ req \in Requests /\ TypeOK /\ Slicing /\ gone = {} /\ res = None
      /\ \A i \in kept : i \in Indices(req) /\ Served1(i)
      /\ \A C \in SUBSET Indices(req) : Seeds(req) \subseteq C /\ Closed(req, C) => kept \subseteq C
  BY <1>1, AddingFacts
<1>3. /\ req' = req /\ at' = at /\ nth' = nth /\ gone' = gone /\ res' = res
      /\ pc' = next /\ kept' = kept \cup S /\ unmet' = unmet /\ bound' = bound
      /\ grew' = (S # {} \/ (grew /\ ~first))
  BY DEF Add
<1>4. PICK q \in InOrder(S) : queue' = queue \o q BY DEF Add
<1>5. S \subseteq Indices(req) BY <1>2, RulesInChain
<1>6. queue \in Seq(kept) /\ queue \in Seq(kept \cup S) BY <1>2, SeqMonotonic DEF TypeOK
<1>7. /\ kept' \subseteq Indices(req) /\ queue' \in Seq(kept')
      /\ \A i : InSeq(i, queue) => InSeq(i, queue')
      /\ \A i \in kept' : i \in kept \/ InSeq(i, queue')
  <2>1. q \in Orders(S) BY DEF InOrder
  <2> QED BY <1>2, <1>3, <1>4, <1>5, <1>6, <2>1, GrowQueue
<1>8. TypeOK'
  <2>1. pc' \in PCs /\ ~Done' BY <1>1, <1>3 DEF PCs, Done, Adding
  <2>2. grew' \in BOOLEAN BY <1>3
  <2>3. (\A u \in unmet' : u[1] \in kept') /\ (\A b \in bound' : b[1] \in kept') BY <1>2, <1>3 DEF TypeOK
  <2>4. at' \in 0 .. Len(req'.steps) /\ nth' \in Nat \ {0} BY <1>2, <1>3 DEF TypeOK
  <2> QED BY <1>2, <1>3, <1>7, <2>1, <2>2, <2>3, <2>4 DEF TypeOK
<1>9. Shape' BY <1>1, <1>2, <1>3, <1>8 DEF Shape, Adding, Slicing
<1>10. Walked' BY <1>2, <1>3 DEF Walked, Slicing
<1>11. ASSUME NEW i \in kept' PROVE Served1(i)'
  <2>1. CASE InSeq(i, queue') BY <2>1 DEF Served1
  <2>2. CASE ~InSeq(i, queue')
    <3>1. i \in kept /\ ~InSeq(i, queue) BY <1>7, <2>2
    <3>2. Producers(req, i) \subseteq kept /\ \A k \in DOMAIN Prereqs(req, i) : Met(i, k)
      BY <1>1, <1>2, <3>1 DEF Served1
    <3>3. \A k \in DOMAIN Prereqs(req, i) : Met(i, k)' BY <1>3, <3>2, MetGrows
    <3> QED BY <1>3, <3>2, <3>3 DEF Served1
  <2> QED BY <2>1, <2>2
<1>12. Looked' BY <1>11 DEF Looked
<1>13. ASSUME NEW C \in SUBSET Indices(req), Seeds(req) \subseteq C, Closed(req, C) PROVE kept' \subseteq C
  BY <1>2, <1>3, <1>13
<1>14. NoMore' BY <1>3, <1>13 DEF NoMore
<1>15. ~grew' => S = {} /\ (first \/ ~grew) BY <1>3
<1>16. S = {} => kept' = kept /\ queue' = queue
  <2>1. SUFFICES ASSUME S = {} PROVE queue' = queue BY <1>3
  <2>2. q \in InOrder({}) BY <2>1
  <2> QED BY <1>4, <1>6, <2>2, NothingAdded
<1> QED BY <1>3, <1>9, <1>10, <1>12, <1>14, <1>15, <1>16

LEMMA SideEffectsInv == IInv /\ AddSideEffects => IInv'
<1> SUFFICES ASSUME IInv, AddSideEffects PROVE IInv' OBVIOUS
<1> DEFINE S == SideEffectWrites(req, kept)
<1>1. pc = "serve" /\ queue = <<>> /\ Add(S, TRUE, "state") BY DEF AddSideEffects
<1>2. req \in Requests BY DEF IInv, Shape, TypeOK
<1>3. S \subseteq Candidates(req, kept) BY <1>2, RulesInChain
<1>4. \A C \in SUBSET Indices(req) : kept \subseteq C /\ Closed(req, C) => S \subseteq C
  BY <1>2, RulesGrow DEF Closed
<1>5. /\ Shape' /\ Walked' /\ Looked' /\ NoMore'
      /\ req' = req /\ pc' = "state" /\ kept' = kept \cup S
      /\ ~grew' => kept' = kept /\ queue' = queue /\ S = {}
  <2> HIDE DEF S
  <2> QED BY <1>1, <1>3, <1>4, AddInv
<1>6. Rounds' BY <1>1, <1>5 DEF Rounds
<1> QED BY <1>5, <1>6 DEF IInv

LEMMA StateWritesInv == IInv /\ AddStateWrites => IInv'
<1> SUFFICES ASSUME IInv, AddStateWrites PROVE IInv' OBVIOUS
<1> DEFINE S == StateWrites(req, kept)
<1>1. pc = "state" /\ Add(S, FALSE, "same") BY DEF AddStateWrites
<1>2. req \in Requests /\ Slicing BY <1>1 DEF IInv, Shape, TypeOK, Adding
<1>3. S \subseteq Candidates(req, kept) BY <1>2, RulesInChain
<1>4. \A C \in SUBSET Indices(req) : kept \subseteq C /\ Closed(req, C) => S \subseteq C
  BY <1>2, RulesGrow DEF Closed
<1>5. /\ Shape' /\ Walked' /\ Looked' /\ NoMore'
      /\ req' = req /\ pc' = "same" /\ kept' = kept \cup S
      /\ ~grew' => kept' = kept /\ queue' = queue /\ S = {} /\ ~grew
  <2> HIDE DEF S
  <2> QED BY <1>1, <1>3, <1>4, AddInv
<1>6. Rounds' BY <1>1, <1>2, <1>5 DEF Rounds, IInv
<1> QED BY <1>5, <1>6 DEF IInv

LEMMA SameValuesInv == IInv /\ AddSameValues => IInv'
<1> SUFFICES ASSUME IInv, AddSameValues PROVE IInv' OBVIOUS
<1> DEFINE S == SameValueWrites(req, kept)
<1>1. pc = "same" /\ Add(S, FALSE, "again") BY DEF AddSameValues
<1>2. req \in Requests /\ Slicing BY <1>1 DEF IInv, Shape, TypeOK, Adding
<1>3. S \subseteq Candidates(req, kept) BY <1>2, RulesInChain
<1>4. \A C \in SUBSET Indices(req) : kept \subseteq C /\ Closed(req, C) => S \subseteq C
  BY <1>2, RulesGrow DEF Closed
<1>5. /\ Shape' /\ Walked' /\ Looked' /\ NoMore'
      /\ req' = req /\ pc' = "again" /\ kept' = kept \cup S
      /\ ~grew' => kept' = kept /\ queue' = queue /\ S = {} /\ ~grew
  <2> HIDE DEF S
  <2> QED BY <1>1, <1>3, <1>4, AddInv
<1>6. Rounds' BY <1>1, <1>2, <1>5 DEF Rounds, IInv
<1> QED BY <1>5, <1>6 DEF IInv

(***************************************************************************)
(* Steps that keep nothing new, and Without                                *)
(***************************************************************************)
LEMMA AgainInv == IInv /\ (Again \/ Build \/ Refuse) => IInv'
<1> SUFFICES ASSUME IInv, Again \/ Build \/ Refuse PROVE IInv' OBVIOUS
<1>1. /\ pc \in {"again", "build", "begin"} /\ TypeOK /\ Slicing /\ gone = {} /\ req' = req /\ at' = at
      /\ nth' = nth /\ grew' = grew /\ gone' = gone /\ kept' = kept /\ unmet' = unmet /\ bound' = bound
      /\ queue' = queue
  BY DEF Again, Build, Refuse, IInv, Shape, Adding
<1>2. Walked' /\ NoMore' BY <1>1 DEF Walked, NoMore, IInv, Slicing
<1>3. ASSUME Again PROVE IInv'
  <2>1. /\ pc = "again" /\ pc' \in {"serve", "build"} /\ (pc' = "build" => ~grew) /\ res' = res
    BY <1>3 DEF Again
  <2>2. TypeOK' BY <1>1, <2>1 DEF TypeOK, PCs, Done
  <2>3. Shape' BY <1>1, <2>1, <2>2 DEF Shape, Adding, Slicing
  <2>4. ASSUME NEW i \in kept PROVE Served1(i)'
    <3>1. Served1(i) BY <1>1, <2>1 DEF IInv, Looked, Adding
    <3> QED BY <1>1, <2>1, <3>1 DEF Served1, Met
  <2>5. Looked' BY <1>1, <2>4 DEF Looked
  <2>6. Rounds' BY <1>1, <2>1 DEF Rounds, IInv
  <2> QED BY <1>2, <2>3, <2>5, <2>6 DEF IInv
<1>4. ASSUME Build PROVE IInv'
  <2>1. pc = "build" /\ pc' = "done" /\ res' = Sliced(req, kept) BY <1>4 DEF Build
  <2>2. TypeOK' BY <1>1, <2>1 DEF TypeOK, PCs, Done, Sliced
  <2>3. Shape' BY <1>1, <2>1, <2>2 DEF Shape, Adding, Slicing
  <2>4. ASSUME NEW i \in kept PROVE Served1(i)'
    <3>1. Served1(i) BY <1>1, <2>1 DEF IInv, Looked, Adding
    <3> QED BY <1>1, <2>1, <3>1 DEF Served1, Met
  <2>5. Looked' BY <1>1, <2>4 DEF Looked
  <2>6. Rounds' BY <1>1, <2>1 DEF Rounds, IInv
  <2> QED BY <1>2, <2>3, <2>5, <2>6 DEF IInv
<1>5. ASSUME Refuse PROVE IInv'
  <2>1. pc = "begin" /\ pc' = "refused" /\ res' = res BY <1>5 DEF Refuse
  <2>2. TypeOK' BY <1>1, <2>1 DEF TypeOK, PCs, Done
  <2>3. Shape' BY <1>1, <2>1, <2>2 DEF Shape, Adding, Slicing
  <2>4. Looked' /\ Rounds' BY <2>1 DEF Looked, Rounds, Adding
  <2> QED BY <1>2, <2>3, <2>4 DEF IInv
<1> QED BY <1>3, <1>4, <1>5

\* A step that Without keeps reads steps before it that are not gone.
LEMMA WalkInv == IInv /\ Walk => IInv'
<1> SUFFICES ASSUME IInv, Walk PROVE IInv' OBVIOUS
<1>1. /\ pc = "walk" /\ at < Len(req.steps) /\ at' = at + 1 /\ req' = req /\ pc' = pc /\ res' = res
      /\ queue' = queue /\ nth' = nth /\ bound' = bound /\ unmet' = unmet /\ grew' = grew
  BY DEF Walk
<1>2. /\ TypeOK /\ ~Slicing /\ kept \cup gone = 1 .. at
      /\ \A i \in kept : Producers(req, i) \subseteq kept
  BY <1>1 DEF IInv, Shape, Walked
<1>3. /\ Len(req.steps) \in Nat /\ Indices(req) = 1 .. Len(req.steps) /\ at \in 0 .. Len(req.steps)
      /\ req \in Requests
  BY <1>2, RequestFacts DEF TypeOK
<1>4. /\ at + 1 \in Indices(req) /\ at + 1 \notin kept /\ at + 1 \notin gone
      /\ 1 .. at + 1 = (1 .. at) \cup {at + 1}
  BY <1>1, <1>2, <1>3
<1>5. \/ kept' = kept /\ gone' = gone \cup {at + 1}
      \/ gone' = gone /\ kept' = kept \cup {at + 1} /\ ~ReadsGone(at + 1)
  BY DEF Walk
<1>6. ~ReadsGone(at + 1) => Producers(req, at + 1) \subseteq kept
  <2>1. \A j \in Producers(req, at + 1) : j \in Indices(req) /\ j < at + 1 BY <1>3, <1>4, ProducersEarlier
  <2>2. \A j \in Producers(req, at + 1) : j \in kept \cup gone BY <1>2, <1>3, <2>1
  <2>3. ~ReadsGone(at + 1) => \A j \in Producers(req, at + 1) : j \notin gone
    BY DEF ReadsGone, Producers, ProducersOf
  <2> QED BY <2>2, <2>3
<1>7. queue' \in Seq(kept')
  <2>1. queue \in Seq(kept) /\ kept \subseteq kept' BY <1>2, <1>5 DEF TypeOK
  <2> QED BY <1>1, <2>1, SeqMonotonic
<1>8. TypeOK'
  <2>1. kept' \subseteq Indices(req) /\ gone' \subseteq Indices(req) /\ kept' \cap gone' = {}
    BY <1>2, <1>4, <1>5 DEF TypeOK
  <2>2. at' \in 0 .. Len(req.steps) BY <1>1, <1>3
  <2>3. (\A u \in unmet' : u[1] \in kept') /\ (\A b \in bound' : b[1] \in kept')
    BY <1>1, <1>2, <1>5 DEF TypeOK
  <2> QED BY <1>1, <1>2, <1>7, <2>1, <2>2, <2>3 DEF TypeOK, PCs, Done
<1>9. Shape' BY <1>1, <1>2, <1>8 DEF Shape, Adding, Slicing
<1>10. Walked' BY <1>1, <1>2, <1>4, <1>5, <1>6 DEF Walked, Done
<1>11. Looked' /\ Rounds' /\ NoMore' BY <1>1, <1>2 DEF Looked, Rounds, NoMore, Slicing
<1> QED BY <1>9, <1>10, <1>11 DEF IInv

LEMMA LeaveInv == IInv /\ Leave => IInv'
<1> SUFFICES ASSUME IInv, Leave PROVE IInv' OBVIOUS
<1>1. /\ pc = "walk" /\ at = Len(req.steps) /\ at' = at /\ req' = req /\ kept' = kept /\ gone' = gone
      /\ queue' = queue /\ nth' = nth /\ bound' = bound /\ unmet' = unmet /\ grew' = grew
  BY DEF Leave
<1>2. TypeOK /\ ~Slicing /\ Walked BY <1>1 DEF IInv, Shape
<1>3. \/ pc' = "refused" /\ res' = res
      \/ pc' = "done" /\ res' = Left(req, kept)
  BY DEF Leave
<1>4. res = None BY <1>1, <1>2 DEF TypeOK, Done
<1>5. TypeOK' BY <1>1, <1>2, <1>3, <1>4 DEF TypeOK, PCs, Done, Left
<1>6. Shape' BY <1>1, <1>2, <1>3, <1>5 DEF Shape, Adding, Slicing
<1>7. Walked' BY <1>1, <1>2 DEF Walked
<1>8. Looked' /\ Rounds' /\ NoMore' BY <1>1, <1>2 DEF Looked, Rounds, NoMore, Slicing
<1> QED BY <1>6, <1>7, <1>8 DEF IInv

LEMMA StutterInv == IInv /\ UNCHANGED vars => IInv'
  BY DEF IInv, vars, Shape, TypeOK, Walked, Looked, Rounds, NoMore, Served1, Met, Slicing, Done

(***************************************************************************)
(* The theorems                                                            *)
(***************************************************************************)
\* Every step of Slice and Without keeps the invariant.
THEOREM Invariant == Spec => []IInv
<1>1. Init => IInv BY InitInv
<1>2. IInv /\ [Next]_vars => IInv'
  BY BeginInv, ServeInv, PrereqInv, ServedInv, SideEffectsInv, StateWritesInv, SameValuesInv,
     AgainInv, WalkInv, LeaveInv, StutterInv DEF Next
<1> QED BY <1>1, <1>2, PTL DEF Spec

\* The queue holds kept steps, and no step is both kept and left out.
THEOREM TypeCorrect == Spec => []TypeOK
<1>1. IInv => TypeOK BY DEF IInv, Shape
<1> QED BY <1>1, Invariant, PTL

\* A slice, and a chain without some steps, read what the whole chain reads.
THEOREM SameReads == Spec => []ReadsSame
<1>1. IInv => ReadsSame
  <2> SUFFICES ASSUME IInv, Done, NEW i \in res.steps, NEW r \in req.steps[i].refs
               PROVE  ProducerIn(req, res.steps, r, i) = Producer(req, r, i)
    BY DEF ReadsSame
  <2>1. /\ req \in Requests /\ res.steps = kept /\ kept \subseteq Indices(req) /\ i \in Indices(req)
    BY DEF IInv, Shape, TypeOK
  <2>2. Producers(req, i) \subseteq kept
    <3>1. CASE Slicing
      <4>1. queue = <<>> /\ Served1(i) BY <2>1, <3>1 DEF IInv, Rounds, Looked, Done
      <4>2. Len(queue) = 0 BY <4>1
      <4>3. ~InSeq(i, queue) BY <4>2 DEF InSeq
      <4> QED BY <4>1, <4>3 DEF Served1
    <3>2. CASE ~Slicing BY <2>1, <3>2 DEF IInv, Walked
    <3> QED BY <3>1, <3>2
  <2> QED BY <2>1, <2>2, SameProducer
<1> QED BY <1>1, Invariant, PTL

\* When the loop of Slice ends, nothing is missing from the kept steps.
THEOREM SliceComplete == Spec => []Complete
<1>1. IInv => Complete
  <2> SUFFICES ASSUME IInv, Done, Slicing
               PROVE  /\ \A i \in kept : Producers(req, i) \subseteq kept /\ \A k \in DOMAIN Prereqs(req, i) : Met(i, k)
                      /\ SideEffectWrites(req, kept) = {} /\ StateWrites(req, kept) = {}
                      /\ SameValueWrites(req, kept) = {}
    BY DEF Complete, Met
  <2>1. /\ queue = <<>> /\ SideEffectWrites(req, kept) = {} /\ StateWrites(req, kept) = {}
        /\ SameValueWrites(req, kept) = {}
    BY DEF IInv, Rounds, Done
  <2>2. ASSUME NEW i \in kept
        PROVE  Producers(req, i) \subseteq kept /\ \A k \in DOMAIN Prereqs(req, i) : Met(i, k)
    <3>1. Served1(i) /\ pc # "prereqs" BY DEF IInv, Looked, Done
    <3>2. Len(queue) = 0 BY <2>1
    <3>3. ~InSeq(i, queue) BY <3>2 DEF InSeq
    <3> QED BY <3>1, <3>3 DEF Served1
  <2> QED BY <2>1, <2>2
<1> QED BY <1>1, Invariant, PTL

\* Nothing is kept that a closed set of steps could do without.
THEOREM SliceLeast == Spec => []Least
<1>1. IInv => Least BY DEF IInv, NoMore, Least
<1> QED BY <1>1, Invariant, PTL

\* What a run created with is neither what the chain declares nor what a flag
\* gives now: `-verify` asks for a new value of such a var, and a chain that runs
\* twice on what it declares creates the same thing twice, sliced or not.
GivenAnew ==
  \A c \in Requests : \A n \in Fresh(c, Indices(c)) \cap DOMAIN c.ran :
    /\ n \in DOMAIN c.declared => c.declared[n] # c.ran[n]
    /\ n \in DOMAIN c.flags => c.flags[n] # c.ran[n]

\* The value of a used var, by where it comes from.
LEMMA ValueFrom ==
  ASSUME GivenAnew, NEW c \in Requests, NEW K, K \subseteq Indices(c), c.verify,
         NEW n \in Settled(c, K) \cap DOMAIN c.ran
  PROVE  /\ n \in Fresh(c, K) => Value(c, K, n) # c.ran[n]
         /\ n \notin Fresh(c, K) /\ n \notin DOMAIN c.flags => Value(c, K, n) = c.ran[n]
<1>1. Fresh(c, K) \subseteq Fresh(c, Indices(c)) BY DEF Fresh
<1>2. n \in DOMAIN c.declared \/ n \in DOMAIN c.flags BY DEF Settled, Declared
<1>3. ASSUME n \in Fresh(c, K) PROVE Value(c, K, n) # c.ran[n]
  <2>1. /\ n \in DOMAIN c.declared => c.declared[n] # c.ran[n]
        /\ n \in DOMAIN c.flags => c.flags[n] # c.ran[n]
    BY <1>1, <1>3 DEF GivenAnew
  <2> QED BY <1>2, <1>3, <2>1 DEF Value, Declared
<1>4. ASSUME n \notin Fresh(c, K), n \notin DOMAIN c.flags PROVE Value(c, K, n) = c.ran[n]
  BY <1>2, <1>4 DEF Value, Declared
<1> QED BY <1>3, <1>4

\* What Slice returns is made of the steps it kept.
Returned == Done /\ Slicing => res = Sliced(req, kept)

\* Only Build returns a slice.
LEMMA ReturnedStep == IInv /\ Returned /\ [Next]_vars => Returned'
<1> SUFFICES ASSUME IInv, Returned, [Next]_vars, Done', Slicing' PROVE (res = Sliced(req, kept))'
  BY DEF Returned
<1>1. CASE Build BY <1>1 DEF Build
<1>2. CASE Leave
  <2>1. pc = "walk" /\ req' = req BY <1>2 DEF Leave
  <2> QED BY <2>1 DEF IInv, Shape, Slicing
<1>3. CASE UNCHANGED vars
  <2>1. Returned' <=> Returned BY <1>3 DEF vars, Returned, Done, Slicing
  <2> QED BY <2>1 DEF Returned
<1>4. CASE Refuse \/ Begin \/ Serve \/ Prereq \/ Served \/ AddSideEffects \/ AddStateWrites \/ AddSameValues \/ Again \/ Walk
  <2>1. pc' # "done"
    BY <1>4 DEF Refuse, Begin, Serve, Prereq, Served, AddSideEffects, AddStateWrites, AddSameValues, Add, Again, Walk
  <2> QED BY <2>1 DEF Done
<1> QED BY <1>1, <1>2, <1>3, <1>4 DEF Next

\* A slice that -verify runs sends the values of the run, except where a write
\* would create with one again.
THEOREM SentAsRun ==
  ASSUME GivenAnew
  PROVE  Spec => []InputsOfRun
<1>1. Init => Returned BY DEF Init, Returned, Done
<1>2. IInv /\ Returned => InputsOfRun
  <2> SUFFICES ASSUME IInv, Returned, Done, Slicing, req.verify,
                      NEW n \in (Used(req, kept) \cap DOMAIN req.ran) \ (res.missing \cup {Tag})
               PROVE  /\ n \in res.fresh /\ n \in DOMAIN res.vars => res.vars[n] # req.ran[n]
                      /\ n \notin res.fresh /\ n \notin DOMAIN req.flags => res.vars[n] = req.ran[n]
    BY DEF InputsOfRun
  <2>1. req \in Requests /\ kept \subseteq Indices(req) /\ res = Sliced(req, kept)
    BY DEF IInv, Shape, TypeOK, Returned
  <2>2. /\ res.missing = Missing(req, kept) /\ res.fresh = FreshVars(req, kept)
        /\ res.vars = [m \in Settled(req, kept) |-> Value(req, kept, m)]
    BY <2>1 DEF Sliced
  <2>3. n \in Settled(req, kept) BY <2>2 DEF Missing
  <2>4. n \in res.fresh <=> n \in Fresh(req, kept) BY <2>2 DEF FreshVars
  <2>5. res.vars[n] = Value(req, kept, n) BY <2>2, <2>3
  <2> QED BY <2>1, <2>3, <2>4, <2>5, ValueFrom
<1> QED BY <1>1, <1>2, Invariant, ReturnedStep, PTL DEF Spec
=============================================================================
