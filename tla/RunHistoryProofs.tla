-------------------------- MODULE RunHistoryProofs --------------------------
(***************************************************************************)
(* For every chain, backend, clock and number of processes and runs: which *)
(* record is taken for the last, and what is said on the strength of it.   *)
(***************************************************************************)
EXTENDS RunHistory, FiniteSetTheorems, SequenceTheorems, TLAPS

(***************************************************************************)
(* The inductive invariant                                                 *)
(***************************************************************************)
\* What a run came to that was executed and judged.
Made(r) ==
  /\ r.steps \in Executions[Len(Chain)]
  /\ ~Kept => r.keptRed = ""

\* The name of a record is the second of its start.
Named(r) == r \in Records /\ r.id[1] = SecondOf(r.started) /\ r.looked <= r.started /\ r.started <= clock

TypeOK ==
  /\ mode \in Modes /\ clock \in Nat /\ runs \in Nat
  /\ pc \in [Procs -> {"idle", "start", "run", "fill", "judge"}]
  /\ ref = [p \in Procs |-> ref[p]] /\ rec = [p \in Procs |-> rec[p]]
  /\ DOMAIN files \subseteq Ids
  /\ \A id \in DOMAIN files : files[id].stated \in Int /\ files[id].saved \in Nat /\ files[id].saved <= clock

\* A record that can be read is of a run that was started before it was saved, when it says.
FilesTrue ==
  \A id \in Readable : LET r == files[id].rec IN
    Named(r) /\ Made(r) /\ r.id = id /\ r.started = files[id].stated /\ r.started < files[id].saved

\* What a process has in hand.
Working(p) ==
  /\ pc[p] = "start" => Kept /\ rec[p].target \in mode.targets /\ rec[p].looked \in Nat /\ rec[p].looked <= clock
  /\ pc[p] \in {"run", "fill", "judge"} => Named(rec[p])
  /\ pc[p] = "run" => rec[p].id \notin DOMAIN files /\ rec[p].keptRed = "" /\ ~rec[p].slow
  /\ pc[p] = "fill" => rec[p].id \in DOMAIN files /\ ~Whole(rec[p].id) /\ rec[p].started < clock
  /\ pc[p] \in {"fill", "judge"} => Made(rec[p])
  /\ pc[p] = "judge" => ~Kept

AtWork ==
  /\ \A p \in Procs : Working(p)
  /\ \A p, q \in Procs : p # q /\ {pc[p], pc[q]} \subseteq {"run", "fill"} => rec[p].id # rec[q].id

\* There is a name for every run that was started, and for no other file.
Counted ==
  /\ runs <= mode.runs
  /\ \E I : /\ IsFiniteSet(I) /\ Cardinality(I) <= runs /\ DOMAIN files \subseteq I
            /\ \A p \in Procs : pc[p] = "run" => rec[p].id \in I

IInv == TypeOK /\ FilesTrue /\ AtWork /\ Counted

(***************************************************************************)
(* The order of the records                                                *)
(***************************************************************************)
\* A set of naturals has a least element.
LEMMA MinExists ==
  ASSUME NEW S, S \subseteq Nat, S # {}
  PROVE  \E m \in S : \A k \in S : m <= k
<1>1. PICK m \in S : \A k \in S : ~ (<<k, m>> \in OpToRel(<, Nat))
  BY NatLessThanWellFounded, WFMin
<1>2. \A k \in S : ~ (k < m) BY <1>1 DEF OpToRel
<1> QED BY <1>2

\* A name is its second and its suffix.
LEMMA IdIs == \A i, j \in Ids : i[1] \in Nat /\ i[2] \in Nat /\ (i = j <=> i[1] = j[1] /\ i[2] = j[2])
<1>1. ASSUME NEW i \in Ids PROVE i = <<i[1], i[2]>> /\ i[1] \in Nat /\ i[2] \in Nat
  <2>1. PICK a \in Nat, b \in RandSuffix : i = <<a, b>> BY DEF Ids
  <2>2. i[1] = a /\ i[2] = b BY <2>1
  <2> QED BY <2>1, <2>2, BoundsAssumption
<1>2. ASSUME NEW i \in Ids, NEW j \in Ids, i[1] = j[1], i[2] = j[2] PROVE i = j
  <2>1. i = <<i[1], i[2]>> /\ j = <<j[1], j[2]>> BY <1>1
  <2> QED BY <1>2, <2>1, Zenon
<1> QED BY <1>1, <1>2

\* ListedBefore puts any two files one before the other.
LEMMA ListedOrder ==
  ASSUME TypeOK, FilesTrue
  PROVE  /\ \A i \in DOMAIN files : ~ListedBefore(i, i)
         /\ \A i, j \in DOMAIN files : i = j \/ ListedBefore(i, j) \/ ListedBefore(j, i)
         /\ \A i, j, k \in DOMAIN files : ListedBefore(i, j) /\ ListedBefore(j, k) => ListedBefore(i, k)
<1> DEFINE start(id) == files[id].stated
           saved(id) == files[id].saved
<1>1. \A i \in DOMAIN files : start(i) \in Int /\ saved(i) \in Int /\ i[1] \in Int /\ i[2] \in Int
  <2>1. \A i \in DOMAIN files : start(i) \in Int BY DEF TypeOK
  <2>2. \A i \in DOMAIN files : saved(i) \in Nat BY DEF TypeOK
  <2>3. \A i \in DOMAIN files : i[1] \in Nat /\ i[2] \in Nat BY IdIs DEF TypeOK
  <2> QED BY <2>1, <2>2, <2>3
<1>2. \A i, j : ListedBefore(i, j) <=>
        \/ i[1] < j[1]
        \/ i[1] = j[1] /\ \/ start(i) < start(j)
                          \/ start(i) = start(j) /\ \/ saved(i) < saved(j)
                                                    \/ saved(i) = saved(j) /\ i[2] < j[2]
  BY DEF ListedBefore
<1>3. \A i, j \in DOMAIN files : i[1] = j[1] /\ i[2] = j[2] => i = j BY IdIs DEF TypeOK
<1> HIDE DEF start, saved
<1>4. \A i \in DOMAIN files : ~ListedBefore(i, i) BY <1>1, <1>2
<1>5. \A i, j \in DOMAIN files : i = j \/ ListedBefore(i, j) \/ ListedBefore(j, i) BY <1>1, <1>2, <1>3
<1>6. \A i, j, k \in DOMAIN files : ListedBefore(i, j) /\ ListedBefore(j, k) => ListedBefore(i, k) BY <1>1, <1>2
<1> QED BY <1>4, <1>5, <1>6

\* Sorted: there is such a list, the place of a file being how many come before it,
\* and it has every file.
LEMMA ListIs ==
  ASSUME TypeOK, FilesTrue, IsFiniteSet(DOMAIN files), NEW n, n = Cardinality(DOMAIN files)
  PROVE  /\ n \in Nat /\ ListRuns \in [1 .. n -> DOMAIN files] /\ Len(ListRuns) = n
         /\ \A j, k \in 1 .. n : j < k => ListedBefore(ListRuns[j], ListRuns[k])
         /\ \A id \in DOMAIN files : \E k \in 1 .. n : ListRuns[k] = id
<1> DEFINE S == DOMAIN files
           Behind(i) == {j \in S : ListedBefore(j, i)}
           place == [i \in S |-> 1 + Cardinality(Behind(i))]
           list == [k \in 1 .. n |-> CHOOSE i \in S : place[i] = k]
           Sorted(ids) == \A j, k \in 1 .. n : j < k => ListedBefore(ids[j], ids[k])
<1>1. n \in Nat /\ IsFiniteSet(1 .. n) /\ Cardinality(1 .. n) = n
  <2>1. n \in Nat BY FS_CardinalityType
  <2> QED BY <2>1, FS_Interval
<1>2. \A i \in S : /\ IsFiniteSet(Behind(i)) /\ Cardinality(Behind(i)) \in Nat /\ Cardinality(Behind(i)) < n
  <2> SUFFICES ASSUME NEW i \in S
               PROVE  IsFiniteSet(Behind(i)) /\ Cardinality(Behind(i)) \in Nat /\ Cardinality(Behind(i)) < n
    OBVIOUS
  <2>1. Behind(i) \in SUBSET S /\ i \notin Behind(i) BY ListedOrder
  <2> HIDE DEF Behind
  <2>2. IsFiniteSet(Behind(i)) /\ Cardinality(Behind(i)) <= n /\ (n = Cardinality(Behind(i)) => S = Behind(i))
    BY <2>1, FS_Subset
  <2>3. Cardinality(Behind(i)) \in Nat BY <2>2, FS_CardinalityType
  <2> QED BY <1>1, <2>1, <2>2, <2>3
<1>3. ASSUME NEW i \in S, NEW j \in S, ListedBefore(i, j)
      PROVE  Cardinality(Behind(i)) < Cardinality(Behind(j))
  <2>1. Behind(i) \in SUBSET Behind(j) /\ i \in Behind(j) /\ i \notin Behind(i) BY <1>3, ListedOrder
  <2> HIDE DEF Behind
  <2>2. Cardinality(Behind(i)) <= Cardinality(Behind(j))
        /\ (Cardinality(Behind(j)) = Cardinality(Behind(i)) => Behind(j) = Behind(i))
    BY <1>2, <2>1, FS_Subset
  <2> QED BY <1>2, <2>1, <2>2
<1> HIDE DEF Behind
<1>4. place \in [S -> 1 .. n] BY <1>1, <1>2
<1>5. \A i, j \in S : ListedBefore(i, j) => place[i] < place[j] BY <1>2, <1>3
<1> HIDE DEF place
<1>6. \A i, j \in S : i # j => place[i] # place[j]
  <2>1. \A i \in S : place[i] \in Nat BY <1>4
  <2> QED BY <1>5, <2>1, ListedOrder
<1>7. place \in Injection(S, 1 .. n) BY <1>4, <1>6 DEF Injection, IsInjective
<1>8. place \in Surjection(S, 1 .. n) BY <1>1, <1>7, FS_Injection
<1>9. \A k \in 1 .. n : \E i \in S : place[i] = k BY <1>8 DEF Surjection
<1>10. \A k \in 1 .. n : list[k] \in S /\ place[list[k]] = k BY <1>9
<1>11. list \in [1 .. n -> S] /\ Sorted(list)
  <2>1. list \in [1 .. n -> S] BY <1>10
  <2> HIDE DEF list
  <2>2. ASSUME NEW j \in 1 .. n, NEW k \in 1 .. n, j < k PROVE ListedBefore(list[j], list[k])
    <3>1. list[j] \in S /\ list[k] \in S /\ place[list[j]] = j /\ place[list[k]] = k BY <1>10
    <3>2. ~ListedBefore(list[k], list[j]) /\ list[j] # list[k] BY <1>1, <1>5, <2>2, <3>1
    <3> QED BY <3>1, <3>2, ListedOrder
  <2> QED BY <2>1, <2>2
<1> HIDE DEF list
<1>12. ListRuns = CHOOSE ids \in [1 .. n -> S] : Sorted(ids) BY DEF ListRuns
<1> HIDE DEF Sorted, S
<1>13. ListRuns \in [1 .. n -> S] /\ Sorted(ListRuns) BY <1>11, <1>12
<1> USE DEF Sorted, S
<1>14. Len(ListRuns) = n BY <1>1, <1>13
<1>15. \A j, k \in 1 .. n : j # k => ListRuns[j] # ListRuns[k]
  <2> SUFFICES ASSUME NEW j \in 1 .. n, NEW k \in 1 .. n, j # k PROVE ListRuns[j] # ListRuns[k] OBVIOUS
  <2>1. j < k \/ k < j BY <1>1
  <2>2. ListedBefore(ListRuns[j], ListRuns[k]) \/ ListedBefore(ListRuns[k], ListRuns[j]) BY <1>13, <2>1
  <2> QED BY <1>13, <2>2, ListedOrder
<1>16. ListRuns \in Injection(1 .. n, S) BY <1>13, <1>15 DEF Injection, IsInjective
<1>17. ListRuns \in Surjection(1 .. n, S) BY <1>1, <1>16, FS_Injection
<1>18. \A id \in S : \E k \in 1 .. n : ListRuns[k] = id BY <1>17 DEF Surjection
<1> QED BY <1>1, <1>13, <1>14, <1>18

(***************************************************************************)
(* The search for the last run before one                                  *)
(***************************************************************************)
Nothing == [best |-> None, done |-> FALSE]
ConsiderNth(acc, k, r, fits) == Consider(acc, ListRuns[Len(ListRuns) + 1 - k], r, fits)
SearchTo(m, f, r, fits) ==
  f = [k \in 0 .. m |-> IF k = 0 THEN Nothing ELSE ConsiderNth(f[k - 1], k, r, fits)]

\* The search is defined to the end of the list: were it not, there would be a least
\* place that it is not defined to, and one step leads there.
LEMMA SearchDefined ==
  ASSUME NEW r, NEW fits, NEW n \in Nat
  PROVE  \E f : SearchTo(n, f, r, fits)
<1> DEFINE gaps == {m \in Nat : ~\E f : SearchTo(m, f, r, fits)}
<1> SUFFICES ASSUME gaps # {} PROVE FALSE OBVIOUS
<1>1. PICK m \in gaps : \A k \in gaps : m <= k
  <2>1. gaps \subseteq Nat OBVIOUS
  <2> HIDE DEF gaps
  <2> QED BY <2>1, MinExists
<1>2. m # 0
  <2> DEFINE f == [k \in 0 .. 0 |-> Nothing]
  <2>1. f = [k \in 0 .. 0 |-> IF k = 0 THEN Nothing ELSE ConsiderNth(f[k - 1], k, r, fits)] OBVIOUS
  <2>2. SearchTo(0, f, r, fits) BY <2>1 DEF SearchTo
  <2> QED BY <2>2
<1>3. m - 1 \in Nat /\ m - 1 \notin gaps BY <1>1, <1>2
<1>4. PICK g : SearchTo(m - 1, g, r, fits) BY <1>3
<1> DEFINE f == [k \in 0 .. m |-> IF k = m THEN ConsiderNth(g[m - 1], m, r, fits) ELSE g[k]]
<1>5. \A k \in 0 .. m - 1 : g[k] = IF k = 0 THEN Nothing ELSE ConsiderNth(g[k - 1], k, r, fits)
  BY <1>4 DEF SearchTo
<1>6. \A k \in 0 .. m : f[k] = IF k = 0 THEN Nothing ELSE ConsiderNth(f[k - 1], k, r, fits)
  <2> SUFFICES ASSUME NEW k \in 0 .. m PROVE f[k] = IF k = 0 THEN Nothing ELSE ConsiderNth(f[k - 1], k, r, fits)
    OBVIOUS
  <2>1. CASE k = m
    <3>1. f[m - 1] = g[m - 1] BY <1>3
    <3> QED BY <1>2, <1>3, <2>1, <3>1
  <2>2. CASE k # m
    <3>1. k \in 0 .. m - 1 /\ f[k] = g[k] BY <1>3, <2>2
    <3>2. k # 0 => f[k - 1] = g[k - 1] BY <1>3, <2>2
    <3> QED BY <1>5, <3>1, <3>2
  <2> QED BY <2>1, <2>2
<1>7. DOMAIN f = 0 .. m /\ f = [k \in DOMAIN f |-> f[k]] OBVIOUS
<1> HIDE DEF f
<1>8. f = [k \in 0 .. m |-> IF k = 0 THEN Nothing ELSE ConsiderNth(f[k - 1], k, r, fits)] BY <1>6, <1>7
<1>9. SearchTo(m, f, r, fits) BY <1>8 DEF SearchTo
<1> QED BY <1>1, <1>9

\* Newest is what the search comes to, record by record from the end of the list.
LEMMA SearchIs ==
  ASSUME NEW r, NEW fits, Len(ListRuns) \in Nat
  PROVE  \E f : SearchTo(Len(ListRuns), f, r, fits) /\ Newest(r, fits) = f[Len(ListRuns)].best
<1> DEFINE n == Len(ListRuns)
           look == CHOOSE f : SearchTo(n, f, r, fits)
<1>1. SearchTo(n, look, r, fits)
  <2> HIDE DEF n
  <2>1. n \in Nat BY DEF n
  <2> QED BY <2>1, SearchDefined
<1>2. Newest(r, fits) = look[n].best
  BY DEF Newest, SearchTo, ConsiderNth, Nothing
<1> QED BY <1>1, <1>2

\* A later second is of a later start.
LEMMA SecondGrows ==
  ASSUME NEW a \in Nat, NEW b \in Nat, SecondOf(a) < SecondOf(b)
  PROVE  a < b
<1> DEFINE x == SecondOf(a)
           y == SecondOf(b)
<1>1. Second \in Nat /\ Second > 0 BY BoundsAssumption
<1>2. x \in Int /\ a < Second * x + Second BY <1>1 DEF SecondOf
<1>3. y \in Int /\ Second * y <= b BY <1>1 DEF SecondOf
<1> HIDE DEF x, y
<1>4. x + 1 <= y
  <2>1. x < y BY DEF x, y
  <2> QED BY <1>2, <1>3, <2>1
<1>5. Second * (x + 1) <= Second * y
  <2>1. \E d \in Nat : y = x + 1 + d
    <3>1. y - (x + 1) \in Nat /\ y = x + 1 + (y - (x + 1)) BY <1>2, <1>3, <1>4
    <3> QED BY <3>1
  <2>2. PICK d \in Nat : y = x + 1 + d BY <2>1
  <2>3. Second * y = Second * (x + 1) + Second * d BY <1>1, <1>2, <2>2
  <2>4. Second * d \in Nat BY <1>1
  <2>5. Second * (x + 1) \in Int BY <1>1, <1>2
  <2> QED BY <2>3, <2>4, <2>5
<1>6. Second * (x + 1) = Second * x + Second BY <1>1, <1>2
<1>7. Second * x \in Int /\ Second * y \in Int BY <1>1, <1>2, <1>3
<1> QED BY <1>1, <1>2, <1>3, <1>5, <1>6, <1>7

\* RanBefore puts any two records one before the other.
LEMMA RanOrder ==
  ASSUME TypeOK, FilesTrue
  PROVE  /\ \A i, j \in Readable : i = j \/ RanBefore(files[i].rec, files[j].rec) \/ RanBefore(files[j].rec, files[i].rec)
         /\ \A i, j, k \in Readable : RanBefore(files[i].rec, files[j].rec) /\ RanBefore(files[j].rec, files[k].rec)
                                        => RanBefore(files[i].rec, files[k].rec)
         /\ \A i, j \in Readable : i[1] < j[1] => RanBefore(files[i].rec, files[j].rec)
         /\ \A i \in Readable : ~RanBefore(files[i].rec, files[i].rec)
<1> DEFINE start(i) == files[i].rec.started
<1>1. \A i \in Readable : start(i) \in Nat /\ i[1] = SecondOf(start(i)) /\ files[i].rec.id = i
  BY DEF FilesTrue, Named, Records
<1>2. \A i \in Readable : i \in Ids /\ i[1] \in Nat /\ i[2] \in Nat BY IdIs DEF TypeOK, Readable
<1>3. \A i, j \in Readable : RanBefore(files[i].rec, files[j].rec) <=>
         start(i) < start(j) \/ (start(i) = start(j) /\ i[1] = j[1] /\ i[2] < j[2])
  BY <1>1 DEF RanBefore
<1>4. \A i, j \in Readable : start(i) = start(j) => i[1] = j[1] BY <1>1
<1>5. \A i, j \in Readable : i[1] = j[1] /\ i[2] = j[2] => i = j BY <1>2, IdIs
<1>6. \A i, j \in Readable : i[1] < j[1] => start(i) < start(j) BY <1>1, SecondGrows
<1> HIDE DEF start
<1>7. \A i, j \in Readable : i = j \/ RanBefore(files[i].rec, files[j].rec) \/ RanBefore(files[j].rec, files[i].rec)
  <2>1. \A i, j \in Readable : start(i) < start(j) \/ start(j) < start(i) \/ start(i) = start(j) BY <1>1
  <2>2. \A i, j \in Readable : i[2] < j[2] \/ j[2] < i[2] \/ i[2] = j[2] BY <1>2
  <2> QED BY <1>3, <1>4, <1>5, <2>1, <2>2
<1>8. \A i, j, k \in Readable : RanBefore(files[i].rec, files[j].rec) /\ RanBefore(files[j].rec, files[k].rec)
                                  => RanBefore(files[i].rec, files[k].rec)
  BY <1>1, <1>2, <1>3
<1>9. \A i, j \in Readable : i[1] < j[1] => RanBefore(files[i].rec, files[j].rec) BY <1>3, <1>6
<1>10. \A i \in Readable : ~RanBefore(files[i].rec, files[i].rec) BY <1>1, <1>2, <1>3
<1> QED BY <1>7, <1>8, <1>9, <1>10

\* What the search has after k records from the end of the list: the last run of
\* those that fit, and, once it has ended, none that started in its second before
\* them.
SearchedSo(acc, k, fits) ==
  /\ acc = [best |-> acc.best, done |-> acc.done] /\ acc.done \in BOOLEAN
  /\ acc.best # None => acc.best \in fits
  /\ \A j \in 1 .. Len(ListRuns) : j > Len(ListRuns) - k /\ ListRuns[j] \in fits =>
       /\ acc.best # None
       /\ ListRuns[j] = acc.best \/ RanBefore(files[ListRuns[j]].rec, files[acc.best].rec)
  /\ acc.done => /\ acc.best # None
                 /\ \A j \in 1 .. Len(ListRuns) : j <= Len(ListRuns) - k => ListRuns[j][1] < acc.best[1]

\* It has so after each record that it considers.
LEMMA SearchStep ==
  ASSUME TypeOK, FilesTrue, IsFiniteSet(DOMAIN files), NEW r, NEW fits, fits \subseteq Readable, r.id \notin fits,
         NEW k \in 1 .. Len(ListRuns), NEW acc, SearchedSo(acc, k - 1, fits)
  PROVE  SearchedSo(ConsiderNth(acc, k, r, fits), k, fits)
<1> DEFINE n == Len(ListRuns)
           id == ListRuns[n + 1 - k]
           new == ConsiderNth(acc, k, r, fits)
           passes(b, j) == b # None /\ (ListRuns[j] = b \/ RanBefore(files[ListRuns[j]].rec, files[b].rec))
           Behind(b) == \A j \in 1 .. n : j > n - (k - 1) /\ ListRuns[j] \in fits => passes(b, j)
           Here(b) == id \in fits => b # None /\ (id = b \/ RanBefore(files[id].rec, files[b].rec))
           Ahead(b) == b # None /\ \A j \in 1 .. n : j <= n - k => ListRuns[j][1] < b[1]
           ends == acc.done \/ id = r.id
           past == acc.best # None /\ id[1] < acc.best[1]
           takes == id \in fits /\ (acc.best = None \/ RanBefore(files[acc.best].rec, files[id].rec))
<1>1. /\ n \in Nat /\ ListRuns \in [1 .. n -> DOMAIN files]
      /\ \A i, j \in 1 .. n : i < j => ListedBefore(ListRuns[i], ListRuns[j])
  BY ListIs
<1>2. n + 1 - k \in 1 .. n BY <1>1
<1>3. id \in DOMAIN files BY <1>1, <1>2
<1>4. /\ acc = [best |-> acc.best, done |-> acc.done] /\ acc.done \in BOOLEAN
      /\ acc.best # None => acc.best \in fits
      /\ \A j \in 1 .. n : j > n - (k - 1) /\ ListRuns[j] \in fits => passes(acc.best, j)
      /\ acc.done => acc.best # None /\ \A j \in 1 .. n : j <= n - (k - 1) => ListRuns[j][1] < acc.best[1]
  BY DEF SearchedSo
<1>5. new = IF acc.done \/ id = r.id THEN acc
            ELSE IF acc.best # None /\ id[1] < acc.best[1] THEN [acc EXCEPT !.done = TRUE]
            ELSE IF id \in fits /\ (acc.best = None \/ RanBefore(files[acc.best].rec, files[id].rec))
            THEN [acc EXCEPT !.best = id] ELSE acc
  BY DEF ConsiderNth, Consider
<1>6. \A i \in DOMAIN files : i[1] \in Nat BY IdIs DEF TypeOK
<1>7. fits \subseteq DOMAIN files /\ None \notin fits BY NoneAssumption DEF TypeOK, Readable
<1>8. \A j \in 1 .. n : j > n - k <=> j > n - (k - 1) \/ j = n + 1 - k BY <1>1
<1>9. \A j \in 1 .. n : j <= n - k => j <= n - (k - 1) /\ j < n + 1 - k BY <1>1
<1> HIDE DEF new, passes, id, n
<1>10. ASSUME NEW b, NEW d \in BOOLEAN, new = [best |-> b, done |-> d], b # None => b \in fits,
              Behind(b), Here(b), d => Ahead(b)
       PROVE  SearchedSo(new, k, fits)
  <2>1. new.best = b /\ new.done = d /\ new = [best |-> new.best, done |-> new.done] BY <1>10
  <2>2. \A j \in 1 .. n : j > n - k /\ ListRuns[j] \in fits => passes(b, j) BY <1>8, <1>10 DEF passes, id
  <2> HIDE DEF Behind, Here
  <2> QED BY <1>10, <2>1, <2>2 DEF SearchedSo, passes, n
<1>11. ASSUME ends PROVE SearchedSo(new, k, fits)
  <2>1. new = acc BY <1>5, <1>11
  <2>2. id \in fits => acc.done BY <1>11
  <2>3. acc.done /\ id \in fits => RanBefore(files[id].rec, files[acc.best].rec)
    <3> SUFFICES ASSUME acc.done, id \in fits PROVE RanBefore(files[id].rec, files[acc.best].rec) OBVIOUS
    <3>1. n + 1 - k <= n - (k - 1) BY <1>1
    <3>2. id[1] < acc.best[1] BY <1>2, <1>4, <3>1 DEF id
    <3>3. acc.best \in Readable /\ id \in Readable BY <1>4
    <3> QED BY <3>2, <3>3, RanOrder
  <2>4. acc.done => Ahead(acc.best) BY <1>4, <1>9
  <2>5. Behind(acc.best) BY <1>4
  <2>6. Here(acc.best) BY <1>4, <2>2, <2>3
  <2> HIDE DEF Ahead, Behind, Here
  <2> QED BY <1>4, <1>10, <2>1, <2>4, <2>5, <2>6
<1>12. ASSUME ~ends /\ past PROVE SearchedSo(new, k, fits)
  <2>1. new = [acc EXCEPT !.done = TRUE] BY <1>5, <1>12
  <2>2. new = [best |-> acc.best, done |-> TRUE] BY <1>4, <2>1
  <2>3. acc.best \in Readable BY <1>4, <1>12
  <2>4. id \in fits => RanBefore(files[id].rec, files[acc.best].rec) BY <1>12, <2>3, RanOrder
  <2>5. ASSUME NEW j \in 1 .. n, j <= n - k PROVE ListRuns[j][1] < acc.best[1]
    <3>1. ListedBefore(ListRuns[j], id) BY <1>1, <1>2, <1>9, <2>5 DEF id
    <3>2. ListRuns[j][1] <= id[1] BY <1>1, <1>3, <1>6, <3>1 DEF ListedBefore
    <3>3. ListRuns[j][1] \in Nat /\ id[1] \in Nat /\ acc.best[1] \in Nat BY <1>1, <1>3, <1>4, <1>6, <1>7, <1>12
    <3> QED BY <1>12, <3>2, <3>3
  <2>6. Ahead(acc.best) /\ Behind(acc.best) /\ Here(acc.best) BY <1>4, <1>12, <2>4, <2>5
  <2> HIDE DEF Ahead, Behind, Here
  <2> QED BY <1>4, <1>10, <2>2, <2>6
<1>13. ASSUME ~ends /\ ~past /\ takes PROVE SearchedSo(new, k, fits)
  <2>1. new = [acc EXCEPT !.best = id] BY <1>5, <1>13
  <2>2. new = [best |-> id, done |-> FALSE] BY <1>4, <1>13, <2>1
  <2>3. ASSUME NEW j \in 1 .. n, j > n - (k - 1), ListRuns[j] \in fits PROVE passes(id, j)
    <3>1. passes(acc.best, j) BY <1>4, <2>3
    <3>2. acc.best \in Readable /\ ListRuns[j] \in Readable /\ id \in Readable BY <1>4, <1>13, <2>3, <3>1 DEF passes
    <3>3. RanBefore(files[ListRuns[j]].rec, files[id].rec) BY <1>13, <3>1, <3>2, RanOrder DEF passes
    <3> QED BY <1>7, <1>13, <3>3 DEF passes
  <2>4. Behind(id) /\ Here(id) BY <1>7, <1>13, <2>3
  <2>5. id \in fits BY <1>13
  <2> HIDE DEF Ahead, Behind, Here
  <2> QED BY <1>10, <2>2, <2>4, <2>5
<1>14. ASSUME ~ends /\ ~past /\ ~takes PROVE SearchedSo(new, k, fits)
  <2>1. new = acc BY <1>5, <1>14
  <2>2. id \in fits => acc.best # None /\ (id = acc.best \/ RanBefore(files[id].rec, files[acc.best].rec))
    <3>1. id \in fits => acc.best # None /\ ~RanBefore(files[acc.best].rec, files[id].rec) BY <1>14
    <3>2. id \in fits => acc.best \in Readable /\ id \in Readable BY <1>4, <3>1
    <3> QED BY <3>1, <3>2, RanOrder
  <2>3. Behind(acc.best) /\ Here(acc.best) BY <1>4, <2>2
  <2>4. acc.done = FALSE BY <1>4, <1>14
  <2> HIDE DEF Ahead, Behind, Here
  <2> QED BY <1>4, <1>10, <2>1, <2>3, <2>4
<1> HIDE DEF ends, past, takes
<1>15. SearchedSo(new, k, fits) BY <1>11, <1>12, <1>13, <1>14
<1> QED BY <1>15 DEF new

\* The search ends with the last run of those that fit, or with none when none does.
LEMMA NewestIs ==
  ASSUME TypeOK, FilesTrue, IsFiniteSet(DOMAIN files), NEW r, NEW fits, fits \subseteq Readable, r.id \notin fits
  PROVE  /\ fits = {} => Newest(r, fits) = None
         /\ fits # {} => /\ Newest(r, fits) \in fits
                         /\ \A o \in fits : o = Newest(r, fits) \/ RanBefore(files[o].rec, files[Newest(r, fits)].rec)
<1> DEFINE n == Len(ListRuns)
<1>1. /\ n \in Nat /\ \A id \in DOMAIN files : \E k \in 1 .. n : ListRuns[k] = id
  BY ListIs
<1>2. PICK f : SearchTo(n, f, r, fits) /\ Newest(r, fits) = f[n].best BY <1>1, SearchIs
<1>3. f[0] = Nothing /\ \A k \in 1 .. n : f[k] = ConsiderNth(f[k - 1], k, r, fits)
  <2>1. f = [k \in 0 .. n |-> IF k = 0 THEN Nothing ELSE ConsiderNth(f[k - 1], k, r, fits)] BY <1>2 DEF SearchTo
  <2>2. \A k \in 0 .. n : f[k] = IF k = 0 THEN Nothing ELSE ConsiderNth(f[k - 1], k, r, fits) BY <2>1
  <2> HIDE DEF n
  <2> QED BY <1>1, <2>2
<1>4. SearchedSo(f[0], 0, fits)
  <2>1. \A j \in 1 .. n : ~(j > n - 0) BY <1>1
  <2> QED BY <1>3, <2>1 DEF SearchedSo, Nothing
<1>5. SearchedSo(f[n], n, fits)
  <2> DEFINE bad == {k \in 0 .. n : ~SearchedSo(f[k], k, fits)}
  <2> SUFFICES ASSUME bad # {} PROVE FALSE BY <1>1
  <2>1. PICK k \in bad : \A j \in bad : k <= j
    <3>1. bad \subseteq Nat OBVIOUS
    <3> HIDE DEF bad
    <3> QED BY <3>1, MinExists
  <2>2. k \in 1 .. n /\ k - 1 \in 0 .. n BY <1>1, <1>4, <2>1
  <2>3. k - 1 \notin bad BY <1>1, <2>1, <2>2
  <2>4. SearchedSo(f[k - 1], k - 1, fits) BY <2>2, <2>3
  <2>5. SearchedSo(ConsiderNth(f[k - 1], k, r, fits), k, fits) BY <2>2, <2>4, SearchStep
  <2> QED BY <1>3, <2>1, <2>2, <2>5
<1> DEFINE b == Newest(r, fits)
<1>6. /\ b # None => b \in fits
      /\ \A j \in 1 .. n : j > n - n /\ ListRuns[j] \in fits =>
           b # None /\ (ListRuns[j] = b \/ RanBefore(files[ListRuns[j]].rec, files[b].rec))
  BY <1>2, <1>5 DEF SearchedSo
<1> HIDE DEF b
<1>7. ASSUME NEW o \in fits PROVE b # None /\ (o = b \/ RanBefore(files[o].rec, files[b].rec))
  <2>1. o \in DOMAIN files BY DEF Readable
  <2>2. PICK j \in 1 .. n : ListRuns[j] = o BY <1>1, <2>1
  <2>3. j > n - n BY <1>1
  <2> QED BY <1>6, <2>2, <2>3
<1>8. None \notin fits BY NoneAssumption DEF TypeOK, Readable
<1> QED BY <1>6, <1>7 DEF b

\* The last run before a given one, of those that can be read.
LEMMA LatestIs ==
  ASSUME TypeOK, FilesTrue, IsFiniteSet(DOMAIN files), NEW r
  PROVE  /\ Earlier(r) = {} => LatestRunBefore(r) = None
         /\ Earlier(r) # {} => \E l \in Earlier(r) :
              /\ LatestRunBefore(r) = files[l].rec
              /\ \A o \in Earlier(r) \ {l} : RanBefore(files[o].rec, files[l].rec)
<1>1. Earlier(r) \subseteq Readable /\ r.id \notin Earlier(r) /\ None \notin Earlier(r)
  BY NoneAssumption DEF Earlier, Readable, TypeOK
<1> DEFINE l == Newest(r, Earlier(r))
<1>2. /\ Earlier(r) = {} => l = None
      /\ Earlier(r) # {} => l \in Earlier(r) /\ \A o \in Earlier(r) : o = l \/ RanBefore(files[o].rec, files[l].rec)
  BY <1>1, NewestIs
<1>3. LatestRunBefore(r) = IF l = None THEN None ELSE files[l].rec BY DEF LatestRunBefore, Found
<1> HIDE DEF l
<1> QED BY <1>1, <1>2, <1>3

\* The last run before a given one that attempted a step is such a run.
LEMMA PreviousIs ==
  ASSUME TypeOK, FilesTrue, IsFiniteSet(DOMAIN files), NEW r, NEW s
  PROVE  PreviousRunAttempting(r, s) # None => \E l \in Readable : PreviousRunAttempting(r, s) = files[l].rec
<1> DEFINE fits == {id \in Earlier(r) : Attempted(files[id].rec, s)}
           l == Newest(r, fits)
<1>1. fits \subseteq Readable /\ r.id \notin fits BY DEF Earlier
<1>2. PreviousRunAttempting(r, s) = IF l = None THEN None ELSE files[l].rec BY DEF PreviousRunAttempting, Found
<1> HIDE DEF fits
<1>3. (fits = {} => l = None) /\ (fits # {} => l \in fits) BY <1>1, NewestIs
<1> HIDE DEF l
<1> QED BY <1>1, <1>2, <1>3

\* What the invariant says of the records is what the commands rely on.
LEMMA LastIsLast == IInv => LatestIsLast
<1> SUFFICES ASSUME IInv PROVE LatestIsLast OBVIOUS
<1>1. TypeOK /\ FilesTrue BY DEF IInv
<1>2. IsFiniteSet(DOMAIN files)
  <2>1. PICK I : IsFiniteSet(I) /\ DOMAIN files \subseteq I BY DEF IInv, Counted
  <2>2. DOMAIN files \in SUBSET I BY <2>1
  <2> QED BY <2>1, <2>2, FS_Subset
<1>3. ASSUME DOMAIN files # {}, Whole(LatestRun), NEW id \in Readable
      PROVE  files[id].rec.started <= files[LatestRun].rec.started
  <2> DEFINE n == Cardinality(DOMAIN files)
             L == LatestRun
  <2>1. /\ n \in Nat /\ ListRuns \in [1 .. n -> DOMAIN files] /\ Len(ListRuns) = n
        /\ \A j, k \in 1 .. n : j < k => ListedBefore(ListRuns[j], ListRuns[k])
        /\ \A i \in DOMAIN files : \E k \in 1 .. n : ListRuns[k] = i
    BY <1>1, <1>2, ListIs
  <2>2. L = ListRuns[n] BY <2>1 DEF LatestRun, Last
  <2> HIDE DEF n, L
  <2>3. PICK k \in 1 .. n : ListRuns[k] = id BY <2>1 DEF Readable
  <2>4. id = L \/ ListedBefore(id, L)
    <3>1. k = n \/ k < n BY <2>1
    <3>2. n \in 1 .. n BY <2>1, <2>3
    <3> QED BY <2>1, <2>2, <2>3, <3>1, <3>2
  <2>5. L \in Readable
    <3>1. n \in 1 .. n BY <2>1, <2>3
    <3> QED BY <1>3, <2>1, <2>2, <3>1 DEF L, Readable
  <2>6. /\ files[id].rec.started \in Nat /\ files[L].rec.started \in Nat
        /\ id[1] = SecondOf(files[id].rec.started) /\ L[1] = SecondOf(files[L].rec.started)
    BY <1>1, <2>5 DEF FilesTrue, Named, Records
  <2>7. id[1] < L[1] => files[id].rec.started < files[L].rec.started BY <2>6, SecondGrows
  <2>8. id = L \/ id[1] < L[1] \/ files[id].rec.started < files[L].rec.started \/ files[id].rec.started = files[L].rec.started
    BY <1>1, <2>4, <2>5 DEF ListedBefore, FilesTrue
  <2>9. files[id].rec.started <= files[L].rec.started BY <2>6, <2>7, <2>8
  <2> QED BY <2>9 DEF L
<1>4. ASSUME NEW id \in Readable
      PROVE  LET before == Earlier(files[id].rec)  last == LatestRunBefore(files[id].rec) IN
             IF before = {} THEN last = None
             ELSE \E l \in before : last = files[l].rec /\ \A o \in before \ {l} : RanBefore(files[o].rec, last)
  BY <1>1, <1>2, LatestIs
<1> QED BY <1>3, <1>4 DEF LatestIsLast

(***************************************************************************)
(* What a chain comes to                                                   *)
(***************************************************************************)
\* The runs of a chain of n steps, from those of n - 1.
OneLonger(n, X) ==
  UNION {LET stops == Len(x) < n - 1 \/ (x # <<>> /\ Last(x).status = "failed" /\ ~mode.keepGoing)
             held == \E r \in Chain[n].reads : r \in DOMAIN x /\ x[r].status # "passed"
         IN IF stops THEN {x} ELSE IF held THEN {Append(x, Skipped)} ELSE {Append(x, a) : a \in Answers(n)}
         : x \in X}
RunsTo(m, f) == f = [n \in 0 .. m |-> IF n = 0 THEN {<<>>} ELSE OneLonger(n, f[n - 1])]

\* The runs are defined for every number of steps.
LEMMA RunsDefined ==
  ASSUME NEW n \in Nat
  PROVE  \E f : RunsTo(n, f)
<1> DEFINE gaps == {m \in Nat : ~\E f : RunsTo(m, f)}
<1> SUFFICES ASSUME gaps # {} PROVE FALSE OBVIOUS
<1>1. PICK m \in gaps : \A k \in gaps : m <= k
  <2>1. gaps \subseteq Nat OBVIOUS
  <2> HIDE DEF gaps
  <2> QED BY <2>1, MinExists
<1>2. m # 0
  <2> DEFINE f == [k \in 0 .. 0 |-> {<<>>}]
  <2>1. f = [k \in 0 .. 0 |-> IF k = 0 THEN {<<>>} ELSE OneLonger(k, f[k - 1])] OBVIOUS
  <2>2. RunsTo(0, f) BY <2>1 DEF RunsTo
  <2> QED BY <2>2
<1>3. m - 1 \in Nat /\ m - 1 \notin gaps BY <1>1, <1>2
<1>4. PICK g : RunsTo(m - 1, g) BY <1>3
<1> DEFINE f == [k \in 0 .. m |-> IF k = m THEN OneLonger(m, g[m - 1]) ELSE g[k]]
<1>5. \A k \in 0 .. m - 1 : g[k] = IF k = 0 THEN {<<>>} ELSE OneLonger(k, g[k - 1]) BY <1>4 DEF RunsTo
<1>6. \A k \in 0 .. m : f[k] = IF k = 0 THEN {<<>>} ELSE OneLonger(k, f[k - 1])
  <2> SUFFICES ASSUME NEW k \in 0 .. m PROVE f[k] = IF k = 0 THEN {<<>>} ELSE OneLonger(k, f[k - 1])
    OBVIOUS
  <2>1. CASE k = m
    <3>1. f[m - 1] = g[m - 1] BY <1>3
    <3> QED BY <1>2, <1>3, <2>1, <3>1
  <2>2. CASE k # m
    <3>1. k \in 0 .. m - 1 /\ f[k] = g[k] BY <1>3, <2>2
    <3>2. k # 0 => f[k - 1] = g[k - 1] BY <1>3, <2>2
    <3> QED BY <1>5, <3>1, <3>2
  <2> QED BY <2>1, <2>2
<1>7. DOMAIN f = 0 .. m /\ f = [k \in DOMAIN f |-> f[k]] OBVIOUS
<1> HIDE DEF f
<1>8. f = [k \in 0 .. m |-> IF k = 0 THEN {<<>>} ELSE OneLonger(k, f[k - 1])] BY <1>6, <1>7
<1>9. RunsTo(m, f) BY <1>8 DEF RunsTo
<1> QED BY <1>1, <1>9

\* Executions is what they come to.
LEMMA ExecutionsAre ==
  /\ Executions[0] = {<<>>}
  /\ \A n \in 1 .. Len(Chain) : Executions[n] = OneLonger(n, Executions[n - 1])
<1> DEFINE L == Len(Chain)
<1>1. L \in Nat BY ChainAssumption
<1>2. Executions = CHOOSE f : RunsTo(L, f) BY DEF Executions, RunsTo, OneLonger
<1>3. \E f : RunsTo(L, f)
  <2> HIDE DEF L
  <2> QED BY <1>1, RunsDefined
<1>4. RunsTo(L, Executions) BY <1>2, <1>3
<1>5. \A n \in 0 .. L : Executions[n] = IF n = 0 THEN {<<>>} ELSE OneLonger(n, Executions[n - 1]) BY <1>4 DEF RunsTo
<1> HIDE DEF L
<1>6. Executions[0] = {<<>>} /\ \A n \in 1 .. L : Executions[n] = OneLonger(n, Executions[n - 1]) BY <1>1, <1>5
<1> QED BY <1>6 DEF L

\* The backend is chosen once, and what it makes of the chain with it.
LEMMA SameMode ==
  ASSUME mode' = mode
  PROVE  Executions' = Executions /\ Kept' = Kept
<1>1. \A s : Answers(s)' = Answers(s) BY DEF Answers
<1>2. ASSUME NEW n, NEW X PROVE OneLonger(n, X)' = OneLonger(n, X) BY <1>1 DEF OneLonger
<1>3. \A f : RunsTo(Len(Chain), f)' <=> RunsTo(Len(Chain), f) BY <1>2 DEF RunsTo
<1>4. Executions = CHOOSE f : RunsTo(Len(Chain), f) BY DEF Executions, RunsTo, OneLonger
<1>5. Executions' = CHOOSE f : RunsTo(Len(Chain), f)' BY DEF Executions, RunsTo, OneLonger
<1>6. Executions' = Executions BY <1>3, <1>4, <1>5
<1> QED BY <1>6 DEF Kept

\* What a backend answers a step with.  One that answers the same way every time has
\* the steps that it fails and those that it passes.
LEMMA AnswersAre ==
  ASSUME mode \in Modes, NEW s
  PROVE  /\ Answers(s) \cup {Skipped} \subseteq Outcomes
         /\ mode.kind = "kept" => Answers(s) = {Passed}
         /\ mode.kind = "fixed" =>
              IF s \in mode.at THEN \A a \in Answers(s) : a.err \in mode.error /\ a.status = "failed"
              ELSE Answers(s) = {Passed}
         /\ mode.kind = "fixed" => \A e : mode.error = {e} => \E a : Answers(s) = {a}
<1> DEFINE again(e, f) == IF Chain[s].read THEN Failed(e, f) ELSE Failed(e, None)
<1>1. mode.error \subseteq Texts /\ Errors \subseteq Texts /\ None \in Texts
  <2>1. ASSUME NEW e \in mode.error PROVE e \in UNION {m.error : m \in Modes}
    <3>1. mode.error \in {m.error : m \in Modes} OBVIOUS
    <3> QED BY <3>1
  <2> QED BY <2>1 DEF Texts
<1>2. Answers(s) = CASE mode.kind = "fixed" -> IF s \in mode.at THEN {again(e, e) : e \in mode.error} ELSE {Passed}
                     [] mode.kind = "flaky" ->
                          {Passed} \cup {again(e, f) : e, f \in Errors}
                            \cup (IF Chain[s].read THEN {[Passed EXCEPT !.first = e] : e \in Errors} ELSE {})
                     [] OTHER -> {Passed}
  BY DEF Answers
<1>3. \A e, f : again(e, f).err = e /\ again(e, f).status = "failed" BY DEF Failed
<1>4. \A e, f \in Texts : again(e, f) \in Outcomes
  <2>1. \A e, f \in Texts : [status |-> "failed", err |-> e, first |-> f] \in [status : {"passed", "failed", "skipped"}, err : Texts, first : Texts]
    OBVIOUS
  <2>3. \A e, f \in Texts : Failed(e, f) \in Outcomes BY <2>1 DEF Failed, Outcomes
  <2>4. None \in Texts BY <1>1
  <2> QED BY <2>3, <2>4
<1>5. Passed \in Outcomes /\ Skipped \in Outcomes /\ \A e \in Texts : [Passed EXCEPT !.first = e] \in Outcomes BY <1>1 DEF Passed, Skipped, Outcomes
<1>6. mode.kind \in {"kept", "fixed", "flaky"} BY ModesAssumption
<1> HIDE DEF again
<1>7. CASE mode.kind = "kept"
  <2>1. Answers(s) = {Passed} BY <1>2, <1>7
  <2> QED BY <1>5, <1>7, <2>1
<1>8. CASE mode.kind = "fixed"
  <2>1. Answers(s) = IF s \in mode.at THEN {again(e, e) : e \in mode.error} ELSE {Passed} BY <1>2, <1>8
  <2>2. Answers(s) \cup {Skipped} \subseteq Outcomes BY <1>1, <1>4, <1>5, <2>1
  <2>3. ASSUME NEW e, mode.error = {e} PROVE \E a : Answers(s) = {a}
    <3>1. Answers(s) = {again(e, e)} \/ Answers(s) = {Passed} BY <2>1, <2>3
    <3> QED BY <3>1
  <2>4. s \in mode.at => \A a \in Answers(s) : a.err \in mode.error /\ a.status = "failed" BY <1>3, <2>1
  <2>5. s \notin mode.at => Answers(s) = {Passed} BY <2>1
  <2> QED BY <1>8, <2>2, <2>3, <2>4, <2>5
<1>9. CASE mode.kind = "flaky"
  <2>1. Answers(s) = {Passed} \cup {again(e, f) : e, f \in Errors}
                       \cup (IF Chain[s].read THEN {[Passed EXCEPT !.first = e] : e \in Errors} ELSE {})
    BY <1>2, <1>9
  <2>2. {again(e, f) : e, f \in Errors} \subseteq Outcomes BY <1>1, <1>4
  <2>3. {[Passed EXCEPT !.first = e] : e \in Errors} \subseteq Outcomes BY <1>1, <1>5
  <2>4. Answers(s) \subseteq Outcomes BY <1>5, <2>1, <2>2, <2>3
  <2> QED BY <1>5, <1>9, <2>4
<1> QED BY <1>6, <1>7, <1>8, <1>9

\* Each step of a run was skipped or answered.
LEMMA ExecutionHas ==
  ASSUME mode \in Modes, NEW n \in 0 .. Len(Chain)
  PROVE  \A x \in Executions[n] : x \in Seq(Outcomes) /\ \A s \in DOMAIN x : x[s] \in Answers(s) \cup {Skipped}
<1> DEFINE P(x) == x \in Seq(Outcomes) /\ \A s \in DOMAIN x : x[s] \in Answers(s) \cup {Skipped}
           bad == {m \in 0 .. Len(Chain) : ~\A x \in Executions[m] : Len(x) <= m /\ P(x)}
<1> SUFFICES ASSUME bad # {} PROVE FALSE OBVIOUS
<1>1. Len(Chain) \in Nat BY ChainAssumption
<1>2. PICK m \in bad : \A k \in bad : m <= k
  <2>1. bad \subseteq Nat OBVIOUS
  <2> HIDE DEF bad
  <2> QED BY <2>1, MinExists
<1>3. m # 0
  <2>1. P(<<>>) /\ Len(<<>>) = 0 OBVIOUS
  <2>2. Executions[0] = {<<>>} BY ExecutionsAre
  <2>3. ASSUME m = 0 PROVE FALSE
    <3>1. ASSUME NEW x \in Executions[m] PROVE Len(x) <= m /\ P(x)
      <4>1. x = <<>> BY <2>2, <2>3, <3>1
      <4> HIDE DEF P
      <4> QED BY <2>1, <2>3, <4>1
    <3> QED BY <1>2, <3>1
  <2> QED BY <2>3
<1>4. m \in 1 .. Len(Chain) /\ m - 1 \in 0 .. Len(Chain) /\ m - 1 \notin bad BY <1>1, <1>2, <1>3
<1>5. \A x \in Executions[m - 1] : Len(x) <= m - 1 /\ P(x) BY <1>4
<1>6. ASSUME NEW x \in Executions[m] PROVE Len(x) <= m /\ P(x)
  <2>1. x \in OneLonger(m, Executions[m - 1]) BY <1>4, ExecutionsAre
  <2>2. PICK w \in Executions[m - 1] :
          x = w \/ (~(Len(w) < m - 1) /\ (x = Append(w, Skipped) \/ \E a \in Answers(m) : x = Append(w, a)))
    BY <2>1 DEF OneLonger
  <2>3. Len(w) <= m - 1 /\ P(w) /\ Len(w) \in Nat BY <1>5
  <2>4. CASE x = w BY <1>4, <2>3, <2>4
  <2>5. CASE x # w
    <3>1. PICK a \in Answers(m) \cup {Skipped} : x = Append(w, a) BY <2>2, <2>5
    <3>2. Len(w) = m - 1 BY <1>4, <2>2, <2>3, <2>5
    <3>3. a \in Outcomes BY <3>1, AnswersAre
    <3>4. w \in Seq(Outcomes) /\ \A s \in DOMAIN w : w[s] \in Answers(s) \cup {Skipped} BY <2>3
    <3>5. /\ x \in Seq(Outcomes) /\ Len(x) = m /\ x[m] = a /\ DOMAIN x = 1 .. m
          /\ \A s \in 1 .. m - 1 : s \in DOMAIN w /\ x[s] = w[s]
      BY <1>4, <3>1, <3>2, <3>3, <3>4
    <3>6. \A s \in DOMAIN x : s \in 1 .. m - 1 \/ s = m BY <1>4, <3>5
    <3>7. \A s \in DOMAIN x : x[s] \in Answers(s) \cup {Skipped} BY <3>1, <3>4, <3>5, <3>6
    <3> QED BY <1>4, <3>5, <3>7
  <2> QED BY <2>4, <2>5
<1> QED BY <1>2, <1>6

\* A backend that answers the same way every time makes one run of a chain.
LEMMA OneExecution ==
  ASSUME mode \in Modes, mode.kind = "fixed", NEW e, mode.error = {e}, NEW n \in 0 .. Len(Chain)
  PROVE  \A x, y \in Executions[n] : x = y
<1> DEFINE bad == {m \in 0 .. Len(Chain) : ~\A x, y \in Executions[m] : x = y}
<1> SUFFICES ASSUME bad # {} PROVE FALSE OBVIOUS
<1>1. Len(Chain) \in Nat BY ChainAssumption
<1>2. PICK m \in bad : \A k \in bad : m <= k
  <2>1. bad \subseteq Nat OBVIOUS
  <2> HIDE DEF bad
  <2> QED BY <2>1, MinExists
<1>3. m # 0 BY <1>2, ExecutionsAre
<1>4. m \in 1 .. Len(Chain) /\ m - 1 \in 0 .. Len(Chain) /\ m - 1 \notin bad BY <1>1, <1>2, <1>3
<1>5. \A x, y \in Executions[m - 1] : x = y BY <1>4
<1>6. Executions[m] = OneLonger(m, Executions[m - 1]) BY <1>4, ExecutionsAre
<1>7. PICK a : Answers(m) = {a} BY AnswersAre
<1> DEFINE stops(x) == Len(x) < m - 1 \/ (x # <<>> /\ Last(x).status = "failed" /\ ~mode.keepGoing)
           held(x) == \E r \in Chain[m].reads : r \in DOMAIN x /\ x[r].status # "passed"
           next(x) == IF stops(x) THEN x ELSE IF held(x) THEN Append(x, Skipped) ELSE Append(x, a)
<1>8. \A y \in Executions[m] : \E x \in Executions[m - 1] : y = next(x)
  <2>1. ASSUME NEW y \in Executions[m] PROVE \E x \in Executions[m - 1] : y = next(x)
    <3> DEFINE of(x) == IF stops(x) THEN {x} ELSE IF held(x) THEN {Append(x, Skipped)} ELSE {Append(x, b) : b \in Answers(m)}
    <3>1. PICK x \in Executions[m - 1] : y \in of(x)
      <4>1. Executions[m] = UNION {of(x) : x \in Executions[m - 1]} BY <1>6 DEF OneLonger
      <4> HIDE DEF of
      <4> QED BY <2>1, <4>1
    <3> HIDE DEF stops, held
    <3>2. y = next(x) BY <1>7, <3>1
    <3> QED BY <3>2
  <2> QED BY <2>1
<1> HIDE DEF next
<1> QED BY <1>2, <1>5, <1>8

(***************************************************************************)
(* The invariant is inductive                                              *)
(***************************************************************************)
\* What Put changes.
LEMMA PutIs ==
  ASSUME NEW i, NEW r, NEW at, Put(i, r, at)
  PROVE  /\ DOMAIN files' = DOMAIN files \cup {i} /\ files'[i] = [rec |-> r, stated |-> at, saved |-> clock]
         /\ \A j \in DOMAIN files \ {i} : files'[j] = files[j]
BY DEF Put

\* What is known of another process is not disturbed by a step of p.
LEMMA Others ==
  ASSUME TypeOK, AtWork, NEW p \in Procs, NEW q \in Procs, q # p, mode' = mode, clock' = clock,
         pc'[q] = pc[q], rec'[q] = rec[q],
         files' = files \/ (pc[p] \in {"run", "fill"} /\ \E r, at : Put(rec[p].id, r, at))
  PROVE  Working(q)'
<1>1. Executions' = Executions /\ Kept' = Kept BY SameMode
<1>2. Working(q) BY DEF AtWork
<1>3. pc[q] = "run" => rec[q].id \notin DOMAIN files'
  <2> SUFFICES ASSUME pc[q] = "run" PROVE rec[q].id \notin DOMAIN files' OBVIOUS
  <2>1. rec[q].id \notin DOMAIN files BY <1>2 DEF Working
  <2>2. ASSUME NEW r, NEW at, pc[p] \in {"run", "fill"}, Put(rec[p].id, r, at) PROVE rec[q].id \notin DOMAIN files'
    <3>1. rec[p].id # rec[q].id BY <2>2 DEF AtWork
    <3>2. DOMAIN files' = DOMAIN files \cup {rec[p].id} BY <2>2, PutIs
    <3> QED BY <2>1, <3>1, <3>2
  <2> QED BY <2>1, <2>2
<1>4. pc[q] = "fill" => rec[q].id \in DOMAIN files' /\ files'[rec[q].id] = files[rec[q].id]
  <2> SUFFICES ASSUME pc[q] = "fill" PROVE rec[q].id \in DOMAIN files' /\ files'[rec[q].id] = files[rec[q].id] OBVIOUS
  <2>1. rec[q].id \in DOMAIN files BY <1>2 DEF Working
  <2>2. ASSUME NEW r, NEW at, pc[p] \in {"run", "fill"}, Put(rec[p].id, r, at)
        PROVE  rec[q].id \in DOMAIN files' /\ files'[rec[q].id] = files[rec[q].id]
    <3>1. rec[p].id # rec[q].id BY <2>2 DEF AtWork
    <3>2. rec[q].id \in DOMAIN files \ {rec[p].id} BY <2>1, <3>1
    <3>3. \A k \in DOMAIN files \ {rec[p].id} : k \in DOMAIN files' /\ files'[k] = files[k] BY <2>2, PutIs
    <3> QED BY <3>2, <3>3
  <2> QED BY <2>1, <2>2
<1>5. pc[q] \in {"run", "fill", "judge"} => Named(rec[q])' BY <1>2 DEF Working, Named, SecondOf
<1>6. pc[q] \in {"fill", "judge"} => Made(rec[q])' BY <1>1, <1>2 DEF Working, Made
<1> QED BY <1>1, <1>2, <1>3, <1>4, <1>5, <1>6 DEF Working, Whole

\* No process has started, and there is no file.
LEMMA InitInv == Init => IInv
<1> SUFFICES ASSUME Init PROVE IInv OBVIOUS
<1>1. \A p \in Procs : pc[p] = "idle" BY DEF Init
<1>2. DOMAIN files = {} BY DEF Init
<1>3. TypeOK BY <1>2 DEF Init, TypeOK
<1>4. FilesTrue BY <1>2 DEF FilesTrue, Readable
<1>5. AtWork BY <1>1 DEF AtWork, Working
<1>6. Counted
  <2>1. IsFiniteSet({}) /\ Cardinality({}) = 0 BY FS_EmptySet
  <2>2. runs = 0 /\ mode.runs \in Nat BY ModesAssumption DEF Init
  <2>3. \E I : /\ IsFiniteSet(I) /\ Cardinality(I) <= runs /\ DOMAIN files \subseteq I
               /\ \A p \in Procs : pc[p] = "run" => rec[p].id \in I
    <3> WITNESS {}
    <3> QED BY <1>1, <1>2, <2>1, <2>2
  <2> QED BY <2>2, <2>3 DEF Counted
<1> QED BY <1>3, <1>4, <1>5, <1>6 DEF IInv

\* A step that leaves the files alone leaves what is known of them.
LEMMA SameFiles ==
  ASSUME TypeOK, FilesTrue, mode' = mode, files' = files, clock' \in Nat, clock <= clock'
  PROVE  /\ FilesTrue'
         /\ DOMAIN files' \subseteq Ids /\ \A id \in DOMAIN files' : files'[id].stated \in Int /\ files'[id].saved \in Nat /\ files'[id].saved <= clock'
<1>1. Executions' = Executions /\ Kept' = Kept BY SameMode
<1>2. Readable' = Readable BY DEF Readable, Whole
<1>3. ASSUME NEW id \in Readable
      PROVE  LET r == files[id].rec IN
             /\ r \in Records /\ r.id[1] = SecondOf(r.started) /\ r.looked <= r.started /\ r.started <= clock
             /\ r.steps \in Executions[Len(Chain)] /\ (~Kept => r.keptRed = "") /\ r.id = id /\ r.started = files[id].stated /\ r.started < files[id].saved
  BY DEF FilesTrue, Named, Made
<1>4. \A id \in Readable : files[id].rec.started <= clock'
  <2>1. \A id \in Readable : files[id].rec.started \in Nat BY <1>3 DEF Records
  <2>2. clock \in Nat BY DEF TypeOK
  <2>3. \A id \in Readable : files[id].rec.started <= clock BY <1>3
  <2> QED BY <2>1, <2>2, <2>3
<1>5. FilesTrue' BY <1>1, <1>2, <1>3, <1>4 DEF FilesTrue, Named, Made, SecondOf
<1>6. \A id \in DOMAIN files : files[id].saved <= clock' BY DEF TypeOK
<1> QED BY <1>5, <1>6 DEF TypeOK

\* The processes that execute or save are the ones that did, with the same names.
LEMMA SameNames ==
  ASSUME AtWork, \A q \in Procs : pc'[q] \in {"run", "fill"} => pc[q] \in {"run", "fill"} /\ rec'[q].id = rec[q].id
  PROVE  (\A p, q \in Procs : p # q /\ {pc[p], pc[q]} \subseteq {"run", "fill"} => rec[p].id # rec[q].id)'
<1> SUFFICES ASSUME NEW p \in Procs, NEW q \in Procs, p # q, {pc'[p], pc'[q]} \subseteq {"run", "fill"}
             PROVE  rec'[p].id # rec'[q].id
  OBVIOUS
<1>1. {pc[p], pc[q]} \subseteq {"run", "fill"} /\ rec'[p].id = rec[p].id /\ rec'[q].id = rec[q].id OBVIOUS
<1> QED BY <1>1 DEF AtWork

\* The names are the same where no run was started.
LEMMA SameCount ==
  ASSUME Counted, mode' = mode, runs' = runs, \A q \in Procs : pc'[q] = "run" => pc[q] = "run" /\ rec'[q] = rec[q],
         \A i \in DOMAIN files' : i \in DOMAIN files \/ \E q \in Procs : pc[q] = "run" /\ i = rec[q].id
  PROVE  Counted'
<1>1. PICK I : /\ IsFiniteSet(I) /\ Cardinality(I) <= runs /\ DOMAIN files \subseteq I
               /\ \A p \in Procs : pc[p] = "run" => rec[p].id \in I
  BY DEF Counted
<1>2. DOMAIN files' \subseteq I /\ \A p \in Procs : pc'[p] = "run" => rec'[p].id \in I BY <1>1
<1> QED BY <1>1, <1>2 DEF Counted

\* Looking for the reference.
LEMMA LookInv ==
  ASSUME IInv, NEW p \in Procs, NEW t \in mode.targets, Look(p, t)
  PROVE  IInv'
<1>1. TypeOK /\ FilesTrue /\ AtWork /\ Counted BY DEF IInv
<1>2. /\ mode' = mode /\ files' = files /\ clock' = clock /\ runs' = runs /\ clock \in Nat
      /\ pc'[p] = "start" /\ \A q \in Procs \ {p} : pc'[q] = pc[q] /\ rec'[q] = rec[q]
  BY <1>1 DEF Look, Keep, TypeOK
<1>3. rec'[p].target = t /\ rec'[p].looked = clock /\ Kept
  <2>1. rec'[p] = [target |-> t, looked |-> clock] BY <1>1 DEF Look, TypeOK
  <2> QED BY <2>1 DEF Look
<1>4. TypeOK' BY <1>1 DEF Look, Keep, TypeOK
<1>5. FilesTrue' BY <1>1, <1>2, SameFiles
<1>6. Working(p)'
  <2>1. Kept' BY <1>2, <1>3, SameMode
  <2> QED BY <1>2, <1>3, <2>1 DEF Working
<1>7. \A q \in Procs : q # p => Working(q)' BY <1>1, <1>2, Others
<1>8. AtWork'
  <2>1. (\A x, y \in Procs : x # y /\ {pc[x], pc[y]} \subseteq {"run", "fill"} => rec[x].id # rec[y].id)'
    BY <1>1, <1>2, SameNames
  <2> QED BY <1>6, <1>7, <2>1 DEF AtWork
<1>9. Counted' BY <1>1, <1>2, SameCount
<1> QED BY <1>4, <1>5, <1>8, <1>9 DEF IInv

\* A run has a name that no file and no other run has.
LEMMA StartInv ==
  ASSUME IInv, NEW p \in Procs, NEW t \in mode.targets, NEW n \in RandSuffix, Start(p, t, n)
  PROVE  IInv'
<1> DEFINE id == <<SecondOf(clock), n>>
           r == [id |-> id, looked |-> IF Kept THEN rec[p].looked ELSE clock, started |-> clock,
                 target |-> t, steps |-> <<>>, keptRed |-> "", value |-> None, slow |-> FALSE]
<1>1. TypeOK /\ FilesTrue /\ AtWork /\ Counted BY DEF IInv
<1>2. /\ mode' = mode /\ files' = files /\ clock' = clock /\ clock \in Nat /\ runs < mode.runs /\ runs' = runs + 1
      /\ pc'[p] = "run" /\ \A q \in Procs \ {p} : pc'[q] = pc[q] /\ rec'[q] = rec[q]
      /\ pc[p] \in {"start", "idle"} /\ (Kept => pc[p] = "start")
  BY <1>1 DEF Start, Keep, TypeOK
<1>3. rec' = [rec EXCEPT ![p] = r] /\ rec'[p] = r BY <1>1 DEF Start, TypeOK
<1>4. id \notin DOMAIN files /\ \A q \in Procs : pc[q] = "run" => rec[q].id # id BY DEF Start
<1>5. SecondOf(clock) \in Nat
  <2>1. Second \in Nat /\ Second > 0 BY BoundsAssumption
  <2> QED BY <1>2, <2>1 DEF SecondOf
<1>6. id \in Ids /\ id[1] = SecondOf(clock) BY <1>5 DEF Ids
<1>7. Working(p) BY <1>1 DEF AtWork
<1> DEFINE looked == IF Kept THEN rec[p].looked ELSE clock
<1>8. looked \in Nat /\ looked <= clock
  <2>1. Kept => rec[p].looked \in Nat /\ rec[p].looked <= clock BY <1>2, <1>7 DEF Working
  <2> QED BY <1>2, <2>1
<1> HIDE DEF id, looked
<1>9. r \in Records
  <2>1. r = [id |-> id, looked |-> looked, started |-> clock, target |-> t, steps |-> <<>>, keptRed |-> "",
             value |-> None, slow |-> FALSE]
    BY DEF looked
  <2>2. t \in UNION {m.targets : m \in Modes} BY <1>1 DEF TypeOK
  <2>3. <<>> \in Seq(Outcomes) OBVIOUS
  <2> HIDE DEF r
  <2> QED BY <1>2, <1>6, <1>8, <2>1, <2>2, <2>3 DEF Records
<1>10. r.id = id /\ r.looked = looked /\ r.started = clock /\ r.keptRed = "" /\ r.slow = FALSE BY DEF looked
<1> HIDE DEF r
<1>11. TypeOK'
  <2>1. rec' = [q \in Procs |-> rec'[q]] BY <1>1, <1>3 DEF TypeOK
  <2>2. ref' = ref /\ pc' = [pc EXCEPT ![p] = "run"] BY DEF Start, Keep
  <2> QED BY <1>1, <1>2, <2>1, <2>2 DEF TypeOK
<1>12. FilesTrue' BY <1>1, <1>2, SameFiles
<1>13. Working(p)'
  <2>1. Named(r)
    <3>1. r.id[1] = SecondOf(r.started) BY <1>6, <1>10, Zenon
    <3>2. looked <= clock /\ clock <= clock BY <1>2, <1>8
    <3>3. r.looked <= r.started /\ r.started <= clock BY <1>10, <3>2, Zenon
    <3> QED BY <1>9, <3>1, <3>3 DEF Named
  <2>2. Named(rec[p])' BY <1>2, <1>3, <2>1 DEF Named, SecondOf
  <2> QED BY <1>2, <1>3, <1>4, <1>10, <2>2 DEF Working
<1>14. \A q \in Procs : q # p => Working(q)' BY <1>1, <1>2, Others
<1>15. \A q \in Procs : q # p /\ pc[q] \in {"run", "fill"} => rec[q].id # id
  <2>1. \A q \in Procs : pc[q] = "fill" => rec[q].id \in DOMAIN files BY <1>1 DEF AtWork, Working
  <2> QED BY <1>4, <2>1
<1>16. (\A x, y \in Procs : x # y /\ {pc[x], pc[y]} \subseteq {"run", "fill"} => rec[x].id # rec[y].id)'
  <2> SUFFICES ASSUME NEW x \in Procs, NEW y \in Procs, x # y, pc'[x] \in {"run", "fill"}, pc'[y] \in {"run", "fill"}
               PROVE  rec'[x].id # rec'[y].id
    OBVIOUS
  <2>1. CASE x = p BY <1>2, <1>3, <1>10, <1>15, <2>1
  <2>2. CASE y = p BY <1>2, <1>3, <1>10, <1>15, <2>2
  <2>3. CASE x # p /\ y # p
    <3>1. pc[x] \in {"run", "fill"} /\ pc[y] \in {"run", "fill"} /\ rec'[x] = rec[x] /\ rec'[y] = rec[y] BY <1>2, <2>3
    <3>2. {pc[x], pc[y]} \subseteq {"run", "fill"} BY <3>1
    <3> QED BY <1>1, <3>1, <3>2 DEF AtWork
  <2> QED BY <2>1, <2>2, <2>3
<1>17. AtWork' BY <1>13, <1>14, <1>16 DEF AtWork
<1>18. Counted'
  <2>1. PICK I : /\ IsFiniteSet(I) /\ Cardinality(I) <= runs /\ DOMAIN files \subseteq I
                 /\ \A q \in Procs : pc[q] = "run" => rec[q].id \in I
    BY <1>1 DEF Counted
  <2>2. IsFiniteSet(I \cup {id}) /\ Cardinality(I \cup {id}) <= runs + 1
    <3>1. IsFiniteSet(I \cup {id}) /\ Cardinality(I \cup {id}) = IF id \in I THEN Cardinality(I) ELSE Cardinality(I) + 1
      BY <2>1, FS_AddElement
    <3>2. Cardinality(I) \in Nat /\ runs \in Nat BY <1>1, <2>1, FS_CardinalityType DEF TypeOK
    <3> QED BY <2>1, <3>1, <3>2
  <2>3. \A q \in Procs : pc'[q] = "run" => rec'[q].id \in I \cup {id}
    <3> SUFFICES ASSUME NEW q \in Procs, pc'[q] = "run" PROVE rec'[q].id \in I \cup {id} OBVIOUS
    <3>1. CASE q = p BY <1>3, <1>10, <3>1
    <3>2. CASE q # p BY <1>2, <2>1, <3>2
    <3> QED BY <3>1, <3>2
  <2>4. runs' <= mode'.runs
    <3>1. runs \in Nat /\ mode.runs \in Nat BY <1>1, ModesAssumption DEF TypeOK
    <3> QED BY <1>2, <3>1
  <2>5. DOMAIN files' \subseteq I \cup {id} BY <1>2, <2>1
  <2> QED BY <1>2, <2>2, <2>3, <2>4, <2>5 DEF Counted
<1> QED BY <1>11, <1>12, <1>17, <1>18 DEF IInv

\* What a run that was executed has on record, and what it was compared with.
LEMMA Executed ==
  ASSUME IInv, NEW p \in Procs, Execute(p)
  PROVE  LET r == rec'[p] IN
         /\ r \in Records /\ r.id = rec[p].id /\ r.looked = rec[p].looked /\ r.started = rec[p].started
         /\ r.target = rec[p].target /\ r.steps \in Executions[Len(Chain)]
         /\ ~Kept => r.keptRed = ""
         /\ r.keptRed = "as_pinned" => /\ r.slow => ref[p] # None
                                       /\ ref[p] # None => ref[p].value = r.value
<1>1. TypeOK /\ Working(p) /\ pc[p] = "run" BY DEF IInv, AtWork, Execute
<1>2. /\ rec[p] \in Records /\ rec[p].keptRed = "" /\ ~rec[p].slow /\ p \in DOMAIN rec
  BY <1>1 DEF Working, Named, TypeOK
<1>3. PICK x \in Executions[Len(Chain)] :
        \/ Kept /\ rec' = [rec EXCEPT ![p] = [[rec[p] EXCEPT !.steps = x] EXCEPT !.keptRed = "not_as_pinned"]]
        \/ Kept /\ \E v \in Values, slow \in {FALSE, ref[p] # None} :
             LET w == [[rec[p] EXCEPT !.steps = x] EXCEPT !.value = v, !.slow = slow]
             IN rec' = [rec EXCEPT ![p] = [w EXCEPT !.keptRed = Drift(w, ref[p])]]
        \/ ~Kept /\ rec' = [rec EXCEPT ![p] = [rec[p] EXCEPT !.steps = x]]
  BY DEF Execute
<1>4. x \in Seq(Outcomes)
  <2>1. mode \in Modes BY <1>1 DEF TypeOK
  <2>2. Len(Chain) \in 0 .. Len(Chain) BY ChainAssumption
  <2> QED BY <2>1, <2>2, ExecutionHas
<1> DEFINE made(r) == /\ r \in Records /\ r.id = rec[p].id /\ r.looked = rec[p].looked /\ r.started = rec[p].started
                      /\ r.target = rec[p].target /\ r.steps = x
           r == [rec[p] EXCEPT !.steps = x]
<1>5. made(r) /\ r.keptRed = "" BY <1>2, <1>4 DEF Records
<1> HIDE DEF r
<1>6. CASE Kept /\ rec' = [rec EXCEPT ![p] = [r EXCEPT !.keptRed = "not_as_pinned"]]
  <2> DEFINE s == [r EXCEPT !.keptRed = "not_as_pinned"]
  <2>1. made(s) /\ s.keptRed = "not_as_pinned" BY <1>5 DEF Records
  <2>2. rec'[p] = s BY <1>2, <1>6
  <2> HIDE DEF s
  <2> QED BY <1>3, <1>6, <2>1, <2>2
<1>7. ASSUME NEW v \in Values, NEW slow \in {FALSE, ref[p] # None}, Kept,
             LET w == [r EXCEPT !.value = v, !.slow = slow]
             IN rec' = [rec EXCEPT ![p] = [w EXCEPT !.keptRed = Drift(w, ref[p])]]
      PROVE  /\ made(rec'[p])
             /\ rec'[p].keptRed = "as_pinned" => /\ rec'[p].slow => ref[p] # None
                                                 /\ ref[p] # None => ref[p].value = rec'[p].value
  <2> DEFINE w == [r EXCEPT !.value = v, !.slow = slow]
             s == [w EXCEPT !.keptRed = Drift(w, ref[p])]
  <2>1. slow \in BOOLEAN /\ (slow => ref[p] # None)
    <3>1. (ref[p] # None) \in BOOLEAN OBVIOUS
    <3>2. slow = FALSE \/ slow = (ref[p] # None) OBVIOUS
    <3>3. slow \in BOOLEAN BY <3>1, <3>2, Zenon
    <3> QED BY <3>2, <3>3
  <2>2. made(w) /\ w.value = v /\ w.slow = slow BY <1>5, <2>1 DEF Records
  <2>3. rec'[p] = s BY <1>2, <1>7
  <2>4. Drift(w, ref[p]) \in {"as_pinned", "not_as_pinned"} BY DEF Drift
  <2> HIDE DEF w
  <2>5. made(s) /\ s.value = v /\ s.slow = slow /\ s.keptRed = Drift(w, ref[p]) BY <2>2, <2>4 DEF Records
  <2> HIDE DEF s, made
  <2>6. s.keptRed = "as_pinned" => (ref[p] # None => ref[p].value = w.value) BY <2>5 DEF Drift
  <2>7. s.slow => ref[p] # None BY <2>1, <2>5, Zenon
  <2>8. s.value = w.value BY <2>2, <2>5
  <2> QED BY <2>3, <2>5, <2>6, <2>7, <2>8
<1>8. CASE ~Kept /\ rec' = [rec EXCEPT ![p] = r]
  <2>1. rec'[p] = r BY <1>2, <1>8
  <2> QED BY <1>3, <1>5, <1>8, <2>1
<1>9. CASE Kept /\ \E v \in Values, slow \in {FALSE, ref[p] # None} :
             LET w == [r EXCEPT !.value = v, !.slow = slow]
             IN rec' = [rec EXCEPT ![p] = [w EXCEPT !.keptRed = Drift(w, ref[p])]]
  <2>1. /\ made(rec'[p])
        /\ rec'[p].keptRed = "as_pinned" => /\ rec'[p].slow => ref[p] # None
                                            /\ ref[p] # None => ref[p].value = rec'[p].value
    BY <1>7, <1>9
  <2> QED BY <1>3, <1>9, <2>1
<1> QED BY <1>3, <1>6, <1>8, <1>9 DEF r

\* A run is executed, and its file is there and torn.
LEMMA ExecuteInv ==
  ASSUME IInv, NEW p \in Procs, Execute(p)
  PROVE  IInv'
<1> DEFINE i == rec[p].id
<1>1. TypeOK /\ FilesTrue /\ AtWork /\ Counted /\ Working(p) /\ mode \in Modes BY DEF IInv, AtWork, TypeOK
<1>2. /\ mode' = mode /\ clock' = clock /\ runs' = runs /\ clock \in Nat /\ pc[p] = "run" /\ clock > rec[p].started
      /\ pc'[p] = "fill" /\ \A q \in Procs \ {p} : pc'[q] = pc[q] /\ rec'[q] = rec[q]
      /\ \E at \in {-1, rec[p].started} : Put(i, Torn, at)
  <2>1. rec' = [rec EXCEPT ![p] = rec'[p]] BY <1>1 DEF Execute, TypeOK
  <2> QED BY <1>1, <2>1 DEF Execute, Keep, TypeOK
<1>0. PICK at \in {-1, rec[p].started} : Put(i, Torn, at) BY <1>2
<1>3. /\ DOMAIN files' = DOMAIN files \cup {i} /\ files'[i] = [rec |-> Torn, stated |-> at, saved |-> clock]
      /\ \A j \in DOMAIN files \ {i} : files'[j] = files[j]
  BY <1>0, PutIs
<1>4. /\ rec'[p] \in Records /\ rec'[p].id = i /\ rec'[p].looked = rec[p].looked /\ rec'[p].started = rec[p].started
      /\ rec'[p].steps \in Executions[Len(Chain)] /\ (~Kept => rec'[p].keptRed = "")
  BY Executed
<1>5. Named(rec[p]) /\ i \notin DOMAIN files BY <1>1, <1>2 DEF Working
<1>6. i \in Ids BY <1>5 DEF Named, Records
<1> HIDE DEF i
<1>7. Readable' = Readable /\ \A j \in Readable : files'[j] = files[j]
  <2>1. \A j \in DOMAIN files : files'[j] = files[j] BY <1>3, <1>5
  <2>2. files'[i].rec = Torn BY <1>3
  <2> QED BY <1>3, <2>1, <2>2 DEF Readable, Whole
<1>8. Executions' = Executions /\ Kept' = Kept BY <1>2, SameMode
<1>9. TypeOK'
  <2>1. pc' = [pc EXCEPT ![p] = "fill"] /\ ref' = [ref EXCEPT ![p] = None] /\ rec' = [q \in Procs |-> rec'[q]]
    BY <1>1 DEF Execute, Keep, TypeOK
  <2>2. \A j \in DOMAIN files' : files'[j].stated \in Int /\ files'[j].saved \in Nat /\ files'[j].saved <= clock
    <3>1. \A j \in DOMAIN files : files'[j] = files[j] BY <1>3, <1>5
    <3>2. files'[i].stated = at /\ files'[i].saved = clock BY <1>3
    <3>3. at \in Int
      <4>1. rec[p].started \in Nat BY <1>5 DEF Named, Records
      <4> QED BY <1>0, <4>1
    <3> QED BY <1>1, <1>2, <1>3, <3>1, <3>2, <3>3 DEF TypeOK
  <2> QED BY <1>1, <1>2, <1>3, <1>6, <2>1, <2>2 DEF TypeOK
<1>10. FilesTrue' BY <1>1, <1>2, <1>7, <1>8 DEF FilesTrue, Named, Made, SecondOf
<1>11. Working(p)'
  <2>1. Named(rec[p])' BY <1>2, <1>4, <1>5 DEF Named, SecondOf, i
  <2>2. Made(rec[p])' BY <1>4, <1>8 DEF Made
  <2>3. rec'[p].id \in DOMAIN files' /\ files'[rec'[p].id].rec = Torn
    <3>1. i \in DOMAIN files' /\ files'[i].rec = Torn BY <1>3
    <3>2. rec'[p].id = i BY <1>4
    <3> QED BY <3>1, <3>2, Zenon
  <2>4. rec'[p].started < clock'
    <3>1. rec[p].started \in Nat BY <1>5 DEF Named, Records
    <3> QED BY <1>2, <1>4, <3>1
  <2> QED BY <1>2, <2>1, <2>2, <2>3, <2>4 DEF Working, Whole
<1>12. \A q \in Procs : q # p => Working(q)'
  <2>1. \A q \in Procs : q # p => pc'[q] = pc[q] /\ rec'[q] = rec[q] BY <1>2
  <2>2. pc[p] \in {"run", "fill"} /\ \E r, u : Put(rec[p].id, r, u) BY <1>0, <1>2 DEF i
  <2> QED BY <1>1, <1>2, <2>1, <2>2, Others
<1>13. (\A x, y \in Procs : x # y /\ {pc[x], pc[y]} \subseteq {"run", "fill"} => rec[x].id # rec[y].id)'
  <2>1. \A q \in Procs : pc'[q] \in {"run", "fill"} => pc[q] \in {"run", "fill"} /\ rec'[q].id = rec[q].id
    BY <1>2, <1>4 DEF i
  <2> QED BY <1>1, <2>1, SameNames
<1>14. AtWork' BY <1>11, <1>12, <1>13 DEF AtWork
<1>15. Counted'
  <2>1. \A q \in Procs : pc'[q] = "run" => pc[q] = "run" /\ rec'[q] = rec[q] BY <1>2
  <2>2. \A j \in DOMAIN files' : j \in DOMAIN files \/ \E q \in Procs : pc[q] = "run" /\ j = rec[q].id
    BY <1>2, <1>3 DEF i
  <2> QED BY <1>1, <1>2, <2>1, <2>2, SameCount
<1> QED BY <1>9, <1>10, <1>14, <1>15 DEF IInv

\* The record is written into the file that was torn.
LEMMA SaveFillInv ==
  ASSUME IInv, NEW p \in Procs, SaveFill(p)
  PROVE  IInv'
<1> DEFINE i == rec[p].id
<1>1. TypeOK /\ FilesTrue /\ AtWork /\ Counted /\ Working(p) /\ mode \in Modes BY DEF IInv, AtWork, TypeOK
<1>2. /\ mode' = mode /\ clock' = clock /\ runs' = runs /\ clock \in Nat /\ pc[p] = "fill"
      /\ pc'[p] = IF Kept THEN "idle" ELSE "judge"
      /\ \A q \in Procs \ {p} : pc'[q] = pc[q] /\ rec'[q] = rec[q]
      /\ Put(i, rec[p], rec[p].started) /\ (~Kept => rec' = rec)
  BY <1>1 DEF SaveFill, Keep, TypeOK
<1>3. /\ DOMAIN files' = DOMAIN files \cup {i} /\ files'[i] = [rec |-> rec[p], stated |-> rec[p].started, saved |-> clock]
      /\ \A j \in DOMAIN files \ {i} : files'[j] = files[j]
  BY <1>2, PutIs
<1>4. Named(rec[p]) /\ Made(rec[p]) /\ i \in DOMAIN files /\ ~Whole(i) /\ rec[p].started < clock
  BY <1>1, <1>2 DEF Working
<1>5. Readable' \subseteq Readable \cup {i} /\ \A j \in Readable : j # i /\ files'[j] = files[j]
  <2>1. \A j \in Readable : j # i BY <1>4 DEF Readable
  <2> QED BY <1>3, <2>1 DEF Readable, Whole
<1>6. Executions' = Executions /\ Kept' = Kept BY <1>2, SameMode
<1>7. TypeOK'
  <2>1. ref' = ref /\ rec' = [q \in Procs |-> rec'[q]] BY <1>1 DEF SaveFill, TypeOK
  <2>2. pc' = [pc EXCEPT ![p] = IF Kept THEN "idle" ELSE "judge"] BY DEF SaveFill, Keep
  <2>3. \A j \in DOMAIN files' : files'[j].stated \in Int /\ files'[j].saved \in Nat /\ files'[j].saved <= clock
    <3>1. files'[i].stated \in Int /\ files'[i].saved = clock
      <4>1. rec[p].started \in Nat BY <1>4 DEF Named, Records
      <4> QED BY <1>3, <4>1
    <3> QED BY <1>1, <1>2, <1>3, <3>1 DEF TypeOK
  <2>4. DOMAIN files' \subseteq Ids BY <1>1, <1>3, <1>4 DEF TypeOK
  <2> QED BY <1>1, <1>2, <2>1, <2>2, <2>3, <2>4 DEF TypeOK
<1>8. FilesTrue'
  <2>1. files'[i].rec = rec[p] /\ files'[i].stated = rec[p].started /\ files'[i].saved = clock BY <1>3
  <2>2. ASSUME NEW j \in Readable
        PROVE  LET r == files'[j].rec IN Named(r) /\ Made(r) /\ r.id = j /\ r.started = files'[j].stated /\ r.started < files'[j].saved
    BY <1>1, <1>5 DEF FilesTrue
  <2>3. LET r == files'[i].rec IN Named(r) /\ Made(r) /\ r.id = i /\ r.started = files'[i].stated /\ r.started < files'[i].saved
    BY <1>4, <2>1
  <2>4. \A r : (Named(r) => Named(r)') /\ (Made(r) => Made(r)') BY <1>2, <1>6 DEF Named, Made, SecondOf
  <2> HIDE DEF i
  <2>5. \A j \in Readable' : LET r == files'[j].rec IN Named(r) /\ Made(r) /\ r.id = j /\ r.started = files'[j].stated /\ r.started < files'[j].saved
    BY <1>5, <2>2, <2>3
  <2> QED BY <1>2, <1>6, <2>5 DEF FilesTrue, Named, Made, SecondOf
<1>9. Working(p)'
  <2>1. ~Kept => Named(rec[p])' /\ Made(rec[p])' BY <1>2, <1>4, <1>6 DEF Named, Made, SecondOf
  <2> QED BY <1>2, <1>6, <2>1 DEF Working
<1>10. \A q \in Procs : q # p => Working(q)'
  <2>1. \A q \in Procs : q # p => pc'[q] = pc[q] /\ rec'[q] = rec[q] BY <1>2
  <2>2. pc[p] \in {"run", "fill"} /\ \E r, at : Put(rec[p].id, r, at) BY <1>2
  <2> QED BY <1>1, <1>2, <2>1, <2>2, Others
<1>11. (\A x, y \in Procs : x # y /\ {pc[x], pc[y]} \subseteq {"run", "fill"} => rec[x].id # rec[y].id)'
  <2>1. \A q \in Procs : pc'[q] \in {"run", "fill"} => pc[q] \in {"run", "fill"} /\ rec'[q].id = rec[q].id
    BY <1>2
  <2> QED BY <1>1, <2>1, SameNames
<1>12. AtWork' BY <1>9, <1>10, <1>11 DEF AtWork
<1>13. Counted'
  <2>1. \A q \in Procs : pc'[q] = "run" => pc[q] = "run" /\ rec'[q] = rec[q] BY <1>2
  <2>2. DOMAIN files' = DOMAIN files BY <1>3, <1>4
  <2> QED BY <1>1, <1>2, <2>1, <2>2, SameCount
<1> QED BY <1>7, <1>8, <1>12, <1>13 DEF IInv

\* A process that ends, judged or killed, leaves what it had written.
LEMMA EndInv ==
  ASSUME IInv, NEW p \in Procs, Judge(p) \/ Kill(p)
  PROVE  IInv'
<1>1. TypeOK /\ FilesTrue /\ AtWork /\ Counted BY DEF IInv
<1>2. /\ mode' = mode /\ files' = files /\ clock' = clock /\ runs' = runs /\ clock \in Nat
      /\ pc'[p] = "idle" /\ \A q \in Procs \ {p} : pc'[q] = pc[q] /\ rec'[q] = rec[q]
  BY <1>1 DEF Judge, Kill, Keep, TypeOK
<1>3. TypeOK' BY <1>1 DEF Judge, Kill, Keep, TypeOK
<1>4. FilesTrue' BY <1>1, <1>2, SameFiles
<1>5. Working(p)' BY <1>2 DEF Working
<1>6. \A q \in Procs : q # p => Working(q)' BY <1>1, <1>2, Others
<1>7. AtWork'
  <2>1. (\A x, y \in Procs : x # y /\ {pc[x], pc[y]} \subseteq {"run", "fill"} => rec[x].id # rec[y].id)'
    BY <1>1, <1>2, SameNames
  <2> QED BY <1>5, <1>6, <2>1 DEF AtWork
<1>8. Counted' BY <1>1, <1>2, SameCount
<1> QED BY <1>3, <1>4, <1>7, <1>8 DEF IInv

\* Time passes, or nothing happens.
LEMMA TickInv ==
  ASSUME IInv, Tick \/ UNCHANGED vars
  PROVE  IInv'
<1>1. TypeOK /\ FilesTrue /\ AtWork /\ Counted BY DEF IInv
<1>2. /\ mode' = mode /\ files' = files /\ runs' = runs /\ pc' = pc /\ rec' = rec /\ ref' = ref
      /\ clock \in Nat /\ clock' \in Nat /\ clock <= clock'
  BY <1>1 DEF Tick, vars, local, TypeOK
<1>3. /\ FilesTrue'
      /\ DOMAIN files' \subseteq Ids /\ \A id \in DOMAIN files' : files'[id].stated \in Int /\ files'[id].saved \in Nat /\ files'[id].saved <= clock'
  BY <1>1, <1>2, SameFiles
<1>4. TypeOK' BY <1>1, <1>2, <1>3 DEF TypeOK
<1>5. Executions' = Executions /\ Kept' = Kept BY <1>2, SameMode
<1>6. ASSUME NEW q \in Procs PROVE Working(q)'
  <2>1. Working(q) BY <1>1 DEF AtWork
  <2>2. pc[q] \in {"run", "fill", "judge"} => rec[q].started \in Nat /\ rec[q].started <= clock /\ Named(rec[q])
    BY <2>1 DEF Working, Named, Records
  <2>3. pc[q] \in {"run", "fill", "judge"} => rec[q].started <= clock' BY <1>2, <2>2
  <2>4. pc[q] \in {"run", "fill", "judge"} => Named(rec[q])' BY <1>2, <2>2, <2>3 DEF Named, SecondOf
  <2>5. pc[q] \in {"fill", "judge"} => Made(rec[q])' BY <1>2, <1>5, <2>1 DEF Working, Made
  <2>6. pc[q] = "start" => rec[q].looked <= clock' BY <1>2, <2>1 DEF Working
  <2>7. pc[q] = "fill" => rec[q].started < clock' BY <1>2, <2>1, <2>2 DEF Working
  <2> QED BY <1>2, <1>5, <2>1, <2>4, <2>5, <2>6, <2>7 DEF Working, Whole
<1>7. AtWork' BY <1>1, <1>2, <1>6 DEF AtWork
<1>8. Counted' BY <1>1, <1>2, SameCount
<1> QED BY <1>3, <1>4, <1>7, <1>8 DEF IInv

\* Every step keeps the invariant.
LEMMA StepInv == IInv /\ [Next]_vars => IInv'
<1> SUFFICES ASSUME IInv, [Next]_vars PROVE IInv' OBVIOUS
<1>1. ASSUME NEW p \in Procs, NEW t \in mode.targets, Look(p, t) PROVE IInv' BY <1>1, LookInv
<1>2. ASSUME NEW p \in Procs, NEW t \in mode.targets, NEW n \in RandSuffix, Start(p, t, n) PROVE IInv' BY <1>2, StartInv
<1>3. ASSUME NEW p \in Procs, Execute(p) PROVE IInv' BY <1>3, ExecuteInv
<1>4. ASSUME NEW p \in Procs, SaveFill(p) PROVE IInv' BY <1>4, SaveFillInv
<1>5. ASSUME NEW p \in Procs, Judge(p) \/ Kill(p) PROVE IInv' BY <1>5, EndInv
<1>6. CASE Tick \/ UNCHANGED vars BY <1>6, TickInv
<1> QED BY <1>1, <1>2, <1>3, <1>4, <1>5, <1>6 DEF Next

\* The invariant holds of every run of the system.
LEMMA Invariant == Spec => []IInv
BY InitInv, StepInv, PTL DEF Spec

\* For every chain, backend and number of processes: the record that `latest` names is
\* of the run that started last, and the search that stops at an earlier second finds
\* the last run before any given one.
THEOREM LatestIsTheLast == Spec => []LatestIsLast
BY Invariant, LastIsLast, PTL

(***************************************************************************)
(* A backend that answers the same way in every run                        *)
(***************************************************************************)
\* In no run does it answer a re-send or a step that it fails, and it errs nowhere else.
LEMMA FixedAnswers ==
  ASSUME mode \in Modes, mode.kind = "fixed", NEW x \in Executions[Len(Chain)], NEW s \in DOMAIN x
  PROVE  /\ x[s].err = None => x[s].first = None
         /\ x[s].err # None => s \in mode.at
         /\ s \in mode.at => x[s].status # "passed"
<1>1. x[s] \in Answers(s) \cup {Skipped}
  <2>1. Len(Chain) \in 0 .. Len(Chain) BY ChainAssumption
  <2> QED BY <2>1, ExecutionHas
<1>2. None \notin mode.error BY ModesAssumption
<1>3. CASE x[s] = Skipped BY <1>3 DEF Skipped
<1>4. CASE s \in mode.at /\ x[s] \in Answers(s)
  <2>1. x[s].err \in mode.error /\ x[s].status = "failed" BY <1>4, AnswersAre
  <2> QED BY <1>2, <1>4, <2>1
<1>5. CASE s \notin mode.at /\ x[s] \in Answers(s)
  <2>1. x[s] = Passed BY <1>5, AnswersAre
  <2> QED BY <1>5, <2>1 DEF Passed
<1> QED BY <1>1, <1>3, <1>4, <1>5

\* What the last run before one came to.
LEMMA LastMade ==
  ASSUME IInv, NEW r
  PROVE  /\ LatestRunBefore(r) # None => LatestRunBefore(r).steps \in Executions[Len(Chain)]
         /\ Earlier(r) # {} => LatestRunBefore(r) # None
         /\ \A s : PreviousRunAttempting(r, s) # None => PreviousRunAttempting(r, s).steps \in Executions[Len(Chain)]
<1>1. TypeOK /\ FilesTrue BY DEF IInv
<1>2. IsFiniteSet(DOMAIN files)
  <2>1. PICK I : IsFiniteSet(I) /\ DOMAIN files \subseteq I BY DEF IInv, Counted
  <2>2. DOMAIN files \in SUBSET I BY <2>1
  <2> QED BY <2>1, <2>2, FS_Subset
<1>3. \A l \in Readable : files[l].rec.steps \in Executions[Len(Chain)] /\ files[l].rec # None
  BY <1>1, NoneAssumption DEF FilesTrue, Named, Made
<1>4. Earlier(r) \subseteq Readable BY DEF Earlier
<1>5. Earlier(r) = {} => LatestRunBefore(r) = None BY <1>1, <1>2, LatestIs
<1>6. Earlier(r) # {} => \E l \in Readable : LatestRunBefore(r) = files[l].rec BY <1>1, <1>2, <1>4, LatestIs
<1>7. \A s : PreviousRunAttempting(r, s) # None => \E l \in Readable : PreviousRunAttempting(r, s) = files[l].rec
  BY <1>1, <1>2, PreviousIs
<1> QED BY <1>3, <1>5, <1>6, <1>7

\* The steps that a judged run shows as erred, and what is said of each.
ErredIn(r) == {s \in DOMAIN r.steps : ResentAnswered(r, s) \/ (r.steps[s].err # None /\ r.keptRed = "")}

\* A finding or a note is of a step that erred; what is called intermittent has a
\* finding that the last run did not have.
LEMMA Said ==
  ASSUME NEW r
  PROVE  LET said == DetectIntermittent(r)  last == LatestRunBefore(r) IN
         /\ \A f \in said.steps \cup said.weak : \E s \in ErredIn(r) : f = Evidence(r, last, s)
         /\ \A f \in said.weak : PreviousRunAttempting(r, f.at) # None /\ AnsweredAsExpected(PreviousRunAttempting(r, f.at), f.at)
         /\ said.kind = "intermittent" => \E f \in said.steps : ~f.repeated
<1> DEFINE last == LatestRunBefore(r)
           all == {Evidence(r, last, s) : s \in ErredIn(r)}
           steps == {f \in all : f.resent \/ f.sameRun \/ f.moved}
           weak == {f \in all \ steps : LET prev == PreviousRunAttempting(r, f.at) IN prev # None /\ AnsweredAsExpected(prev, f.at)}
           kind == IF steps = {} THEN "none" ELSE IF \A f \in steps : f.repeated THEN "repeated" ELSE "intermittent"
<1>1. DetectIntermittent(r) = [steps |-> steps, weak |-> weak, kind |-> kind] BY DEF DetectIntermittent, ErredIn
<1>2. steps \subseteq all /\ weak \subseteq all OBVIOUS
<1>3. \A f \in all : \E s \in ErredIn(r) : f = Evidence(r, last, s) OBVIOUS
<1>4. \A f \in weak : PreviousRunAttempting(r, f.at) # None /\ AnsweredAsExpected(PreviousRunAttempting(r, f.at), f.at) OBVIOUS
<1>5. kind = "intermittent" => \E f \in steps : ~f.repeated OBVIOUS
<1> HIDE DEF all, steps, weak, kind
<1>6. DetectIntermittent(r).steps = steps /\ DetectIntermittent(r).weak = weak /\ DetectIntermittent(r).kind = kind BY <1>1
<1> QED BY <1>2, <1>3, <1>4, <1>5, <1>6, Zenon

\* What is said on the strength of the records is true of such a backend.
LEMMA FixedIsNotFlaky == IInv => FlakyTrue
<1> SUFFICES ASSUME IInv, NEW p \in Procs, pc[p] = "judge", mode.kind # "flaky"
             PROVE  LET said == DetectIntermittent(rec[p]) IN
                    (\A f \in said.steps : ~f.resent /\ ~f.moved) /\ said.weak = {}
  BY Zenon DEF FlakyTrue
<1> DEFINE r == rec[p]
           last == LatestRunBefore(r)
           said == DetectIntermittent(r)
<1>1. mode \in Modes /\ mode.kind = "fixed" /\ r.steps \in Executions[Len(Chain)]
  <2>1. Working(p) /\ mode \in Modes BY DEF IInv, AtWork, TypeOK
  <2>2. ~Kept /\ Made(r) BY <2>1 DEF Working
  <2> QED BY <2>1, <2>2, ModesAssumption DEF Kept, Made
<1>2. \A s \in ErredIn(r) : ~ResentAnswered(r, s) /\ s \in mode.at
  <2>1. \A s \in DOMAIN r.steps : (r.steps[s].err = None => r.steps[s].first = None) /\ (r.steps[s].err # None => s \in mode.at)
    BY <1>1, FixedAnswers
  <2> QED BY <2>1 DEF ErredIn, ResentAnswered
<1>3. \A w : w.steps \in Executions[Len(Chain)] => \A s \in mode.at : ~AnsweredAsExpected(w, s)
  BY <1>1, FixedAnswers DEF AnsweredAsExpected
<1>4. \A s \in mode.at : ~Moved(r, last, s) BY <1>3, LastMade DEF Moved
<1>5. \A f \in said.steps \cup said.weak : \E s \in ErredIn(r) : f = Evidence(r, last, s) BY Said
<1> HIDE DEF r, last, said
<1>6. \A s \in ErredIn(r) : LET f == Evidence(r, last, s) IN f.at = s /\ ~f.resent /\ ~f.moved
  <2> SUFFICES ASSUME NEW s \in ErredIn(r) PROVE LET f == Evidence(r, last, s) IN f.at = s /\ ~f.resent /\ ~f.moved OBVIOUS
  <2>1. ~ResentAnswered(r, s) /\ ~Moved(r, last, s) BY <1>2, <1>4
  <2>2. /\ Evidence(r, last, s).at = s /\ Evidence(r, last, s).resent = ResentAnswered(r, s)
        /\ Evidence(r, last, s).moved = (~ResentAnswered(r, s) /\ Moved(r, last, s))
    BY DEF Evidence
  <2> QED BY <2>1, <2>2, Zenon
<1>7. \A f \in said.steps : ~f.resent /\ ~f.moved BY <1>5, <1>6
<1>8. said.weak = {}
  <2> SUFFICES ASSUME NEW f \in said.weak PROVE FALSE OBVIOUS
  <2>1. f.at \in mode.at BY <1>2, <1>5, <1>6
  <2>2. LET w == PreviousRunAttempting(r, f.at) IN w # None /\ AnsweredAsExpected(w, f.at) BY Said DEF said
  <2>3. PreviousRunAttempting(r, f.at).steps \in Executions[Len(Chain)] BY <2>2, LastMade
  <2> QED BY <1>3, <2>1, <2>2, <2>3
<1> QED BY <1>7, <1>8 DEF said, r

\* A backend that fails a step with one text makes the same run each time, so that what a
\* run shows is on the record of the run before it.
LEMMA FixedIsRepeated ==
  ASSUME \A m \in Modes : m.kind = "fixed" => \E e : m.error = {e}
  PROVE  IInv => RepeatedNamed
<1> SUFFICES ASSUME IInv, NEW p \in Procs, pc[p] = "judge", mode.kind = "fixed", Earlier(rec[p]) # {}
             PROVE  DetectIntermittent(rec[p]).kind # "intermittent"
  BY DEF RepeatedNamed
<1> DEFINE r == rec[p]
           last == LatestRunBefore(r)
<1>1. mode \in Modes /\ r.steps \in Executions[Len(Chain)] BY DEF IInv, AtWork, TypeOK, Working, Made
<1>2. last # None /\ last.steps \in Executions[Len(Chain)] BY LastMade
<1>3. last.steps = r.steps
  <2>1. PICK e : mode.error = {e} BY <1>1
  <2>2. Len(Chain) \in 0 .. Len(Chain) BY ChainAssumption
  <2> QED BY <1>1, <1>2, <2>1, <2>2, OneExecution
<1> HIDE DEF r, last
<1>4. \A s \in ErredIn(r) : Repeated(r, last, s) BY <1>2, <1>3 DEF ErredIn, Repeated
<1>5. \A s \in ErredIn(r) : Evidence(r, last, s).repeated
  <2>1. \A s : Evidence(r, last, s).repeated = Repeated(r, last, s) BY DEF Evidence
  <2> QED BY <1>4, <2>1, Zenon
<1>6. \A f \in DetectIntermittent(r).steps : f.repeated
  <2>1. \A f \in DetectIntermittent(r).steps : \E s \in ErredIn(r) : f = Evidence(r, last, s) BY Said DEF last
  <2> QED BY <1>5, <2>1
<1> QED BY <1>6, Said DEF r

\* For every chain: a backend that answers the same calls the same way in every run is not
\* said to answer a re-send, to fail now here and now there, or to have answered before
\* what it fails now.
THEOREM FlakyIsTrue == Spec => []FlakyTrue
BY Invariant, FixedIsNotFlaky, PTL

\* For every chain: where such a backend has one text for its errors, a run that has an
\* earlier one on record is not called intermittent.
THEOREM RepeatedIsNamed ==
  ASSUME \A m \in Modes : m.kind = "fixed" => \E e : m.error = {e}
  PROVE  Spec => []RepeatedNamed
BY Invariant, FixedIsRepeated, PTL

(***************************************************************************)
(* The reference of a chain that is kept red                               *)
(***************************************************************************)
\* What a chain kept red may be compared with: one of those that failed as pinned, and
\* not by a step that ran into its time limit.
Sound(t) == {id \in AsPinned(t) : ~files[id].rec.slow}

\* A run that failed as pinned has one before it, or is one, that is fit as a reference.
HasSound(t) == \A j \in AsPinned(t) : \E k \in Sound(t) : files[k].rec.started <= files[j].rec.started

\* What a process found: nothing, where no run had been saved as pinned before it
\* looked, or the record of such a run.
Referred(p) ==
  LET t == rec[p].target  at == rec[p].looked IN
  IF ref[p] = None THEN \A j \in AsPinned(t) : ~(files[j].saved < at)
  ELSE \E k \in Sound(t) : files[k].rec = ref[p] /\ files[k].rec.started < at

\* What a run that failed as pinned was judged on.
Judged(r) ==
  \/ \E k \in Sound(r.target) : files[k].rec.started < r.looked /\ files[k].rec.value = r.value
  \/ ~r.slow /\ \A j \in AsPinned(r.target) : ~(files[j].saved < r.looked)

\* The runs that failed as pinned, where no two overlapped, agree.
Agreed(t) ==
  (\A i, j \in AsPinned(t) : i # j => Apart(i, j)) => \A i, j \in AsPinned(t) : files[i].rec.value = files[j].rec.value

Compared ==
  /\ \A t : HasSound(t) /\ Agreed(t)
  /\ \A p \in Procs : /\ pc[p] \in {"start", "run"} /\ Kept => Referred(p)
                      /\ pc[p] = "fill" /\ rec[p].keptRed = "as_pinned" => Judged(rec[p])

\* The runs that failed as pinned, and those of them that are fit, are on record.
LEMMA AsPinnedIs ==
  ASSUME IInv, NEW t, NEW j \in AsPinned(t)
  PROVE  /\ j \in DOMAIN files /\ j \in Readable /\ Whole(j) /\ files[j].rec \in Records /\ files[j].rec # None
         /\ files[j].rec.keptRed = "as_pinned" /\ files[j].rec.target = t
         /\ files[j].rec.looked \in Nat /\ files[j].rec.started \in Nat /\ files[j].saved \in Nat
         /\ files[j].rec.looked <= files[j].rec.started /\ files[j].rec.started < files[j].saved /\ files[j].saved <= clock
         /\ Kept
<1>1. j \in Readable /\ files[j].rec.keptRed = "as_pinned" /\ files[j].rec.target = t BY DEF AsPinned
<1>2. Named(files[j].rec) /\ Made(files[j].rec) /\ files[j].rec.started < files[j].saved BY <1>1 DEF IInv, FilesTrue
<1>3. files[j].saved \in Nat /\ files[j].saved <= clock BY <1>1 DEF IInv, TypeOK, Readable
<1> QED BY <1>1, <1>2, <1>3, NoneAssumption DEF Named, Made, Records, Readable

\* While all runs are among those it searches, the reference is a run that fits, and
\* there is none only where no run fits.
LEMMA ReferenceIs ==
  ASSUME IInv, mode.runs <= Scan, NEW r
  PROVE  LET found == Found(PinnedReference(r)) IN
         IF found = None THEN \A i \in DOMAIN files : ~Fits(r, i)
         ELSE \E i \in DOMAIN files : Fits(r, i) /\ files[i].rec = found
<1> DEFINE n == Cardinality(DOMAIN files)
           ids == ListRuns
           fit == {k \in 1 .. n : Fits(r, ids[k])}
<1>1. TypeOK /\ FilesTrue BY DEF IInv
<1>2. IsFiniteSet(DOMAIN files) /\ n <= Scan
  <2>1. PICK I : IsFiniteSet(I) /\ Cardinality(I) <= runs /\ DOMAIN files \subseteq I BY DEF IInv, Counted
  <2>2. DOMAIN files \in SUBSET I BY <2>1
  <2>3. IsFiniteSet(DOMAIN files) /\ n <= Cardinality(I) BY <2>1, <2>2, FS_Subset
  <2>4. n \in Nat /\ Cardinality(I) \in Nat BY <2>1, <2>3, FS_CardinalityType
  <2>5. runs <= mode.runs /\ runs \in Nat /\ mode.runs \in Nat /\ Scan \in Nat
    BY <1>1, ModesAssumption, BoundsAssumption DEF IInv, Counted, TypeOK
  <2> HIDE DEF n
  <2>6. n <= Scan BY <2>1, <2>3, <2>4, <2>5
  <2> QED BY <2>3, <2>6
<1>3. /\ n \in Nat /\ ids \in [1 .. n -> DOMAIN files] /\ Len(ids) = n
      /\ \A i \in DOMAIN files : \E k \in 1 .. n : ids[k] = i
  BY <1>1, <1>2, ListIs
<1> HIDE DEF ids, n
<1>4. PinnedReference(r) = IF fit = {} THEN None ELSE ids[Max(fit)]
  <2> DEFINE last == IF Len(ids) > Scan THEN Len(ids) - Scan + 1 ELSE 1
             these == {k \in last .. Len(ids) : Fits(r, ids[k])}
  <2>1. PinnedReference(r) = IF these = {} THEN None ELSE ids[Max(these)] BY DEF PinnedReference, ids
  <2>2. Scan \in Nat BY BoundsAssumption
  <2>3. last = 1 BY <1>2, <1>3, <2>2
  <2>4. these = fit BY <1>3, <2>3
  <2> HIDE DEF these, fit
  <2> QED BY <2>1, <2>4
<1>5. fit # {} => Max(fit) \in fit
  <2> SUFFICES ASSUME fit # {} PROVE Max(fit) \in fit OBVIOUS
  <2> DEFINE ends == {k \in Nat : \E m \in fit : k = n - m}
  <2>1. fit \subseteq 1 .. n OBVIOUS
  <2> HIDE DEF fit
  <2>2. \A m \in fit : n - m \in ends BY <1>3, <2>1
  <2>3. ends \subseteq Nat /\ ends # {} BY <2>2
  <2>4. PICK k \in ends : \A j \in ends : k <= j
    <3> HIDE DEF ends
    <3> QED BY <2>3, MinExists
  <2>5. PICK m \in fit : k = n - m OBVIOUS
  <2>6. \A j \in fit : m >= j
    <3> SUFFICES ASSUME NEW j \in fit PROVE m >= j OBVIOUS
    <3>1. n - j \in ends /\ n - m <= n - j BY <2>2, <2>4, <2>5
    <3> QED BY <1>3, <2>1, <3>1
  <2>7. \E x \in fit : \A y \in fit : x >= y BY <2>6
  <2> QED BY <2>7 DEF Max
<1>6. CASE fit = {}
  <2>1. \A i \in DOMAIN files : ~Fits(r, i) BY <1>3, <1>6
  <2>2. Found(PinnedReference(r)) = None BY <1>4, <1>6 DEF Found
  <2> QED BY <2>1, <2>2
<1>7. CASE fit # {}
  <2> DEFINE i == ids[Max(fit)]
  <2>1. i \in DOMAIN files /\ Fits(r, i) BY <1>3, <1>5, <1>7
  <2>2. PinnedReference(r) = i BY <1>4, <1>7
  <2> HIDE DEF i
  <2>3. i \in Readable BY <2>1 DEF Fits, Readable
  <2>4. i # None BY <1>1, <2>1, NoneAssumption DEF TypeOK
  <2>5. files[i].rec # None BY <1>1, <2>3, NoneAssumption DEF FilesTrue, Named
  <2>6. Found(PinnedReference(r)) = files[i].rec BY <2>2, <2>4 DEF Found
  <2> QED BY <2>1, <2>5, <2>6
<1> QED BY <1>6, <1>7

\* In a step that saves no run, the runs on record are the same.
LEMMA SameAsPinned ==
  ASSUME Readable' = Readable, \A i \in Readable : files'[i] = files[i], clock' \in Nat, clock \in Nat
  PROVE  /\ \A t : AsPinned(t)' = AsPinned(t) /\ Sound(t)' = Sound(t)
         /\ \A t : \A j \in AsPinned(t) : files'[j] = files[j]
         /\ \A t : (HasSound(t) => HasSound(t)') /\ (Agreed(t) => Agreed(t)')
<1>1. \A t : AsPinned(t)' = AsPinned(t) BY DEF AsPinned
<1>2. \A t : \A j \in AsPinned(t) : files'[j] = files[j] BY DEF AsPinned
<1>3. \A t : Sound(t)' = Sound(t) BY <1>1, <1>2 DEF Sound
<1>4. ASSUME NEW t, HasSound(t) PROVE HasSound(t)'
  <2>1. \A k \in Sound(t) : k \in AsPinned(t) BY DEF Sound
  <2> QED BY <1>1, <1>2, <1>3, <1>4, <2>1 DEF HasSound
<1>5. ASSUME NEW t, Agreed(t) PROVE Agreed(t)' BY <1>1, <1>2, <1>5 DEF Agreed, Apart
<1> QED BY <1>1, <1>2, <1>3, <1>4, <1>5

\* What a process holds on the reference.
HoldsTo(p) ==
  /\ pc[p] \in {"start", "run"} /\ Kept => Referred(p)
  /\ pc[p] = "fill" /\ rec[p].keptRed = "as_pinned" => Judged(rec[p])

\* Runs are added to the record, and only such as are saved now: nobody's reference is
\* the worse for it.
LEMMA Persists ==
  ASSUME \A t : \A j \in AsPinned(t) : j \in AsPinned(t)' /\ files'[j] = files[j],
         \A t : \A j \in AsPinned(t)' : j \in AsPinned(t) \/ files'[j].saved = clock,
         clock \in Nat
  PROVE  /\ \A q \in Procs : Referred(q) /\ ref'[q] = ref[q] /\ rec'[q].target = rec[q].target
                               /\ rec'[q].looked = rec[q].looked /\ rec[q].looked \in Nat /\ rec[q].looked <= clock => Referred(q)'
         /\ \A r : Judged(r) /\ r.looked \in Nat /\ r.looked <= clock => Judged(r)'
<1>1. \A t : \A k \in Sound(t) : k \in Sound(t)' /\ files'[k] = files[k] BY DEF Sound
<1>2. ASSUME NEW t, NEW at \in Nat, at <= clock, \A j \in AsPinned(t) : ~(files[j].saved < at)
      PROVE  \A j \in AsPinned(t)' : ~(files'[j].saved < at)
  <2> SUFFICES ASSUME NEW j \in AsPinned(t)' PROVE ~(files'[j].saved < at) OBVIOUS
  <2>1. CASE j \in AsPinned(t) BY <1>2, <2>1
  <2>2. CASE files'[j].saved = clock BY <1>2, <2>2
  <2> QED BY <2>1, <2>2
<1>3. ASSUME NEW q \in Procs, NEW t, NEW at \in Nat, at <= clock, t = rec[q].target, at = rec[q].looked,
             Referred(q), ref'[q] = ref[q], rec'[q].target = t, rec'[q].looked = at
      PROVE  Referred(q)'
  <2>1. CASE ref[q] = None
    <3>1. \A j \in AsPinned(t) : ~(files[j].saved < at) BY <1>3, <2>1 DEF Referred
    <3>2. \A j \in AsPinned(t)' : ~(files'[j].saved < at) BY <1>2, <1>3, <3>1
    <3> QED BY <1>3, <2>1, <3>2 DEF Referred, AsPinned
  <2>2. CASE ref[q] # None
    <3>1. PICK k \in Sound(t) : files[k].rec = ref[q] /\ files[k].rec.started < at
      BY <1>3, <2>2 DEF Referred
    <3>2. k \in Sound(t)' /\ files'[k] = files[k] BY <1>1
    <3> QED BY <1>3, <2>2, <3>1, <3>2 DEF Referred, Sound, AsPinned
  <2> QED BY <2>1, <2>2
<1>4. ASSUME NEW r, Judged(r), r.looked \in Nat, r.looked <= clock PROVE Judged(r)'
  <2>1. CASE \E k \in Sound(r.target) : files[k].rec.started < r.looked /\ files[k].rec.value = r.value
    BY <1>1, <2>1 DEF Judged
  <2>2. CASE ~r.slow /\ \A j \in AsPinned(r.target) : ~(files[j].saved < r.looked)
    BY <1>2, <1>4, <2>2 DEF Judged
  <2> QED BY <1>4, <2>1, <2>2 DEF Judged
<1> QED BY <1>3, <1>4

\* What the others hold on their references, whatever a process does.
LEMMA OthersHold ==
  ASSUME IInv, Compared, mode' = mode, NEW q \in Procs, pc'[q] = pc[q], rec'[q] = rec[q], ref'[q] = ref[q],
         \A t : \A j \in AsPinned(t) : j \in AsPinned(t)' /\ files'[j] = files[j],
         \A t : \A j \in AsPinned(t)' : j \in AsPinned(t) \/ files'[j].saved = clock
  PROVE  HoldsTo(q)'
<1>1. clock \in Nat /\ Working(q) /\ Kept' = Kept BY SameMode DEF IInv, TypeOK, AtWork
<1>2. /\ \A p \in Procs : Referred(p) /\ ref'[p] = ref[p] /\ rec'[p].target = rec[p].target
                            /\ rec'[p].looked = rec[p].looked /\ rec[p].looked \in Nat /\ rec[p].looked <= clock => Referred(p)'
      /\ \A r : Judged(r) /\ r.looked \in Nat /\ r.looked <= clock => Judged(r)'
  BY <1>1, Persists
<1>3. pc[q] \in {"start", "run", "fill"} => rec[q].looked \in Nat /\ rec[q].looked <= clock
  <2>1. pc[q] = "start" => rec[q].looked \in Nat /\ rec[q].looked <= clock BY <1>1 DEF Working
  <2>2. pc[q] \in {"run", "fill"} => /\ rec[q].looked \in Nat /\ rec[q].started \in Nat
                                     /\ rec[q].looked <= rec[q].started /\ rec[q].started <= clock
    BY <1>1 DEF Working, Named, Records
  <2>3. pc[q] \in {"run", "fill"} => rec[q].looked <= clock BY <1>1, <2>2
  <2> QED BY <2>1, <2>2, <2>3
<1>4. pc'[q] \in {"start", "run"} /\ Kept' => Referred(q)'
  <2> SUFFICES ASSUME pc[q] \in {"start", "run"}, Kept PROVE Referred(q)' BY <1>1
  <2>1. Referred(q) BY DEF Compared
  <2> QED BY <1>2, <1>3, <2>1
<1>5. ASSUME NEW r, r = rec[q], pc[q] = "fill", rec[q].keptRed = "as_pinned" PROVE Judged(rec[q])'
  <2>1. Judged(rec[q]) BY <1>5 DEF Compared
  <2>2. Judged(r) BY <1>5, <2>1, Zenon
  <2>3. Judged(r)' BY <1>2, <1>3, <1>5, <2>2
  <2>4. rec'[q] = r BY <1>5
  <2> QED BY <2>3, <2>4 DEF Judged, Sound, AsPinned
<1>6. pc'[q] = "fill" /\ rec'[q].keptRed = "as_pinned" => Judged(rec[q])' BY <1>5
<1> QED BY <1>4, <1>6 DEF HoldsTo

\* A step that saves no run keeps what is known, if its own process holds on.
LEMMA QuietStep ==
  ASSUME IInv, Compared, mode' = mode, clock' \in Nat, NEW p \in Procs,
         \A q \in Procs : q # p => pc'[q] = pc[q] /\ rec'[q] = rec[q] /\ ref'[q] = ref[q],
         Readable' = Readable, \A i \in Readable : files'[i] = files[i], HoldsTo(p)'
  PROVE  Compared'
<1>1. clock \in Nat BY DEF IInv, TypeOK
<1>2. /\ \A t : AsPinned(t)' = AsPinned(t)
      /\ \A t : \A j \in AsPinned(t) : files'[j] = files[j]
      /\ \A t : (HasSound(t) => HasSound(t)') /\ (Agreed(t) => Agreed(t)')
  BY <1>1, SameAsPinned
<1>3. \A q \in Procs : q # p => HoldsTo(q)' BY <1>2, OthersHold
<1>4. \A q \in Procs : HoldsTo(q)' BY <1>3
<1>5. \A t : HasSound(t)' /\ Agreed(t)' BY <1>2 DEF Compared
<1> QED BY <1>4, <1>5 DEF Compared, HoldsTo

\* What a process finds when it looks is what it holds on.
LEMMA LookCompared ==
  ASSUME IInv, Compared, mode.runs <= Scan, NEW p \in Procs, NEW t \in mode.targets, Look(p, t)
  PROVE  Compared'
<1> DEFINE found == Found(PinnedReference([at |-> clock, target |-> t]))
<1>1. TypeOK /\ clock \in Nat BY DEF IInv, TypeOK
<1>2. /\ mode' = mode /\ files' = files /\ clock' = clock /\ pc'[p] = "start"
      /\ \A q \in Procs : q # p => pc'[q] = pc[q] /\ rec'[q] = rec[q] /\ ref'[q] = ref[q]
  BY <1>1 DEF Look, Keep, TypeOK
<1>3. rec'[p].target = t /\ rec'[p].looked = clock /\ ref'[p] = found
  <2>1. rec'[p] = [target |-> t, looked |-> clock] /\ ref'[p] = found BY <1>1 DEF Look, TypeOK
  <2> HIDE DEF found
  <2> QED BY <2>1
<1>4. IF found = None THEN \A i \in DOMAIN files : ~Fits([at |-> clock, target |-> t], i)
      ELSE \E i \in DOMAIN files : Fits([at |-> clock, target |-> t], i) /\ files[i].rec = found
  BY ReferenceIs
<1> HIDE DEF found
<1>5. \A i \in DOMAIN files : Fits([at |-> clock, target |-> t], i) <=> i \in Sound(t) /\ files[i].rec.started < clock
  BY DEF Fits, Sound, AsPinned, Readable
<1>6. Readable' = Readable BY <1>2 DEF Readable, Whole
<1>7. AsPinned(t)' = AsPinned(t) /\ Sound(t)' = Sound(t) BY <1>2, <1>6 DEF AsPinned, Sound
<1>8. Sound(t) \subseteq AsPinned(t) /\ \A j \in AsPinned(t) : j \in DOMAIN files BY AsPinnedIs DEF Sound
<1>9. Referred(p)'
  <2>1. CASE found = None
    <3>1. \A k \in Sound(t) : ~(files[k].rec.started < clock) BY <1>4, <1>5, <1>8, <2>1
    <3>2. ASSUME NEW j \in AsPinned(t), files[j].saved < clock PROVE FALSE
      <4>1. PICK k \in Sound(t) : files[k].rec.started <= files[j].rec.started BY DEF Compared, HasSound
      <4>2. files[j].rec.started \in Nat /\ files[j].saved \in Nat /\ files[j].rec.started < files[j].saved BY AsPinnedIs
      <4>3. files[k].rec.started \in Nat BY <1>8, AsPinnedIs
      <4> QED BY <1>1, <3>1, <3>2, <4>1, <4>2, <4>3
    <3>3. \A j \in AsPinned(t)' : ~(files'[j].saved < clock) BY <1>2, <1>7, <3>2
    <3> QED BY <1>3, <2>1, <3>3 DEF Referred, AsPinned
  <2>2. CASE found # None
    <3>1. PICK k \in Sound(t) : files[k].rec.started < clock /\ files[k].rec = found BY <1>4, <1>5, <2>2
    <3>2. k \in Sound(t)' /\ files'[k] = files[k] BY <1>2, <1>7
    <3> QED BY <1>3, <2>2, <3>1, <3>2 DEF Referred, Sound, AsPinned
  <2> QED BY <2>1, <2>2
<1>10. HoldsTo(p)' BY <1>2, <1>9 DEF HoldsTo
<1> QED BY <1>1, <1>2, <1>6, <1>10, QuietStep

\* What it holds on when it starts to run is what it found.
LEMMA StartCompared ==
  ASSUME IInv, Compared, NEW p \in Procs, NEW t \in mode.targets, NEW n \in RandSuffix, Start(p, t, n)
  PROVE  Compared'
<1>1. TypeOK /\ clock \in Nat /\ Working(p) BY DEF IInv, TypeOK, AtWork
<1>2. /\ mode' = mode /\ files' = files /\ clock' = clock /\ pc'[p] = "run" /\ ref' = ref
      /\ \A q \in Procs : q # p => pc'[q] = pc[q] /\ rec'[q] = rec[q] /\ ref'[q] = ref[q]
      /\ Kept => pc[p] = "start" /\ t = rec[p].target
  BY <1>1 DEF Start, Keep, TypeOK
<1>3. rec'[p].target = t /\ (Kept => rec'[p].looked = rec[p].looked)
  <2> DEFINE r == [id |-> <<SecondOf(clock), n>>, looked |-> IF Kept THEN rec[p].looked ELSE clock, started |-> clock,
                   target |-> t, steps |-> <<>>, keptRed |-> "", value |-> None, slow |-> FALSE]
  <2>1. rec'[p] = r BY <1>1 DEF Start, TypeOK
  <2>2. r.target = t /\ (Kept => r.looked = rec[p].looked) OBVIOUS
  <2> HIDE DEF r
  <2> QED BY <2>1, <2>2
<1>4. Readable' = Readable /\ \A i \in Readable : files'[i] = files[i] BY <1>2 DEF Readable, Whole
<1>5. \A u : AsPinned(u)' = AsPinned(u) BY <1>2, <1>4 DEF AsPinned
<1>6. Kept => Referred(p)'
  <2> SUFFICES ASSUME Kept PROVE Referred(p)' OBVIOUS
  <2>1. Referred(p) BY <1>2 DEF Compared
  <2>2. rec[p].looked \in Nat /\ rec[p].looked <= clock BY <1>1, <1>2 DEF Working
  <2>3. ref'[p] = ref[p] /\ rec'[p].target = rec[p].target /\ rec'[p].looked = rec[p].looked BY <1>2, <1>3
  <2>4. \A u : \A j \in AsPinned(u) : j \in AsPinned(u)' /\ files'[j] = files[j] BY <1>2, <1>5
  <2>5. \A u : \A j \in AsPinned(u)' : j \in AsPinned(u) \/ files'[j].saved = clock BY <1>5
  <2> QED BY <1>1, <2>1, <2>2, <2>3, <2>4, <2>5, Persists
<1>7. Kept' = Kept BY <1>2, SameMode
<1>8. HoldsTo(p)' BY <1>2, <1>6, <1>7 DEF HoldsTo
<1> QED BY <1>1, <1>2, <1>4, <1>8, QuietStep

\* What a run that fails as pinned is judged on is what its process holds on.
LEMMA ExecuteCompared ==
  ASSUME IInv, Compared, NEW p \in Procs, Execute(p)
  PROVE  Compared'
<1>1. TypeOK /\ clock \in Nat /\ Working(p) /\ pc[p] = "run" BY DEF IInv, TypeOK, AtWork, Execute
<1>2. /\ mode' = mode /\ clock' = clock /\ pc'[p] = "fill" /\ \E at : Put(rec[p].id, Torn, at)
      /\ \A q \in Procs : q # p => pc'[q] = pc[q] /\ rec'[q] = rec[q] /\ ref'[q] = ref[q]
  <2>1. rec' = [rec EXCEPT ![p] = rec'[p]] BY <1>1 DEF Execute, TypeOK
  <2> QED BY <1>1, <2>1 DEF Execute, Keep, TypeOK
<1>3. Readable' = Readable /\ \A i \in Readable : files'[i] = files[i]
  <2>1. rec[p].id \notin DOMAIN files BY <1>1 DEF Working
  <2>2. /\ DOMAIN files' = DOMAIN files \cup {rec[p].id} /\ files'[rec[p].id].rec = Torn
        /\ \A i \in DOMAIN files \ {rec[p].id} : files'[i] = files[i]
    <3>1. PICK at : Put(rec[p].id, Torn, at) BY <1>2
    <3>2. files'[rec[p].id] = [rec |-> Torn, stated |-> at, saved |-> clock] BY <3>1, PutIs
    <3>3. /\ DOMAIN files' = DOMAIN files \cup {rec[p].id}
          /\ \A i \in DOMAIN files \ {rec[p].id} : files'[i] = files[i]
      BY <3>1, PutIs
    <3> QED BY <3>2, <3>3
  <2>3. \A i \in DOMAIN files : files'[i] = files[i] BY <2>1, <2>2
  <2>4. files'[rec[p].id].rec = Torn BY <2>2
  <2> QED BY <2>2, <2>3, <2>4 DEF Readable, Whole
<1>4. \A t : AsPinned(t)' = AsPinned(t) /\ Sound(t)' = Sound(t) BY <1>3 DEF AsPinned, Sound
<1>5. \A t : \A j \in AsPinned(t) : files'[j] = files[j] BY <1>3 DEF AsPinned
<1>6. ASSUME NEW r, r = rec'[p], r.keptRed = "as_pinned" PROVE Judged(rec[p])'
  <2>1. /\ r.target = rec[p].target /\ r.looked = rec[p].looked /\ (~Kept => r.keptRed = "")
        /\ (r.slow => ref[p] # None) /\ (ref[p] # None => ref[p].value = r.value)
    BY <1>6, Executed
  <2>2. Referred(p) BY <1>1, <1>6, <2>1 DEF Compared
  <2>3. Judged(r)
    <3>1. CASE ref[p] = None
      <4>1. \A j \in AsPinned(r.target) : ~(files[j].saved < r.looked) BY <2>1, <2>2, <3>1 DEF Referred
      <4> QED BY <2>1, <3>1, <4>1 DEF Judged
    <3>2. CASE ref[p] # None
      <4>1. PICK k \in Sound(r.target) : files[k].rec = ref[p] /\ files[k].rec.started < r.looked
        BY <2>1, <2>2, <3>2 DEF Referred
      <4> QED BY <2>1, <3>2, <4>1 DEF Judged
    <3> QED BY <3>1, <3>2
  <2>4. r.looked \in Nat /\ r.looked <= clock
    <3>1. /\ rec[p].looked \in Nat /\ rec[p].started \in Nat /\ rec[p].looked <= rec[p].started /\ rec[p].started <= clock
      BY <1>1 DEF Working, Named, Records
    <3>2. rec[p].looked <= clock BY <1>1, <3>1
    <3>3. r.looked = rec[p].looked BY <2>1
    <3> QED BY <3>1, <3>2, <3>3
  <2>5. \A u : \A j \in AsPinned(u) : j \in AsPinned(u)' /\ files'[j] = files[j] BY <1>4, <1>5
  <2>6. \A u : \A j \in AsPinned(u)' : j \in AsPinned(u) \/ files'[j].saved = clock BY <1>4
  <2>7. Judged(r)' BY <1>1, <2>3, <2>4, <2>5, <2>6, Persists
  <2>8. rec'[p] = r BY <1>6
  <2> QED BY <2>7, <2>8 DEF Judged, Sound, AsPinned
<1>7. HoldsTo(p)' BY <1>2, <1>6 DEF HoldsTo
<1> QED BY <1>1, <1>2, <1>3, <1>7, QuietStep

\* A run that is saved as pinned agrees with those that were saved before it looked; any
\* other of its target overlapped with it.
LEMMA SaveFillCompared ==
  ASSUME IInv, Compared, NEW p \in Procs, SaveFill(p)
  PROVE  Compared'
<1>1. TypeOK /\ clock \in Nat /\ Working(p) /\ pc[p] = "fill" BY DEF IInv, TypeOK, AtWork, SaveFill
<1>2. PICK r : r = rec[p] OBVIOUS
<1>3. PICK i : i = r.id OBVIOUS
<1>4. /\ mode' = mode /\ clock' = clock /\ pc'[p] \in {"idle", "judge"} /\ Put(i, r, r.started)
      /\ \A q \in Procs : q # p => pc'[q] = pc[q] /\ rec'[q] = rec[q] /\ ref'[q] = ref[q]
  BY <1>1, <1>2, <1>3 DEF SaveFill, Keep, TypeOK
<1>5. /\ r \in Records /\ r.looked \in Nat /\ r.started \in Nat /\ r.looked <= r.started /\ r.started <= clock
      /\ i \in DOMAIN files /\ ~Whole(i)
  BY <1>1, <1>2, <1>3 DEF Working, Named, Records
<1>6. /\ DOMAIN files' = DOMAIN files /\ files'[i].rec = r /\ files'[i].saved = clock
      /\ \A j \in DOMAIN files \ {i} : files'[j] = files[j]
  <2>1. /\ DOMAIN files' = DOMAIN files \cup {i} /\ files'[i] = [rec |-> r, stated |-> r.started, saved |-> clock]
        /\ \A j \in DOMAIN files \ {i} : files'[j] = files[j]
    BY <1>4, PutIs
  <2> QED BY <1>5, <2>1
<1>7. Readable' = Readable \cup {i} /\ i \notin Readable /\ \A j \in Readable : files'[j] = files[j]
  <2>1. r # Torn BY <1>5, NoneAssumption
  <2> QED BY <1>5, <1>6, <2>1 DEF Readable, Whole
<1> DEFINE new(t) == r.keptRed = "as_pinned" /\ r.target = t
<1>8. \A t : AsPinned(t)' = IF new(t) THEN AsPinned(t) \cup {i} ELSE AsPinned(t)
  BY <1>6, <1>7 DEF AsPinned
<1>9. \A t : i \notin AsPinned(t) /\ \A j \in AsPinned(t) : files'[j] = files[j] BY <1>7 DEF AsPinned
<1>10. \A t : \A k \in Sound(t) : k \in Sound(t)' /\ k \in AsPinned(t) /\ files'[k] = files[k] BY <1>8, <1>9 DEF Sound
<1>11. \A t : new(t) => Judged(r)
  <2>1. rec[p].keptRed = "as_pinned" => Judged(rec[p]) BY <1>1 DEF Compared
  <2> QED BY <1>2, <2>1, Zenon
<1>12. ASSUME NEW t PROVE HasSound(t)'
  <2>1. HasSound(t) BY DEF Compared
  <2>2. \A j \in AsPinned(t) : \E k \in Sound(t)' : files'[k].rec.started <= files'[j].rec.started
    BY <1>9, <1>10, <2>1 DEF HasSound
  <2>3. ASSUME new(t) PROVE \E k \in Sound(t)' : files'[k].rec.started <= r.started
    <3>1. CASE \E k \in Sound(r.target) : files[k].rec.started < r.looked /\ files[k].rec.value = r.value
      <4>1. PICK k \in Sound(t) : files[k].rec.started < r.looked BY <2>3, <3>1
      <4>2. files[k].rec.started \in Nat BY <1>10, AsPinnedIs
      <4>3. files[k].rec.started <= r.started BY <1>5, <4>1, <4>2
      <4> QED BY <1>10, <4>3
    <3>2. CASE ~r.slow
      <4>1. i \in Sound(t)' BY <1>6, <1>8, <2>3, <3>2 DEF Sound
      <4>2. r.started <= r.started BY <1>5
      <4> QED BY <1>6, <4>1, <4>2
    <3> QED BY <1>11, <2>3, <3>1, <3>2 DEF Judged
  <2> QED BY <1>6, <1>8, <2>2, <2>3 DEF HasSound
<1>13. ASSUME NEW t PROVE Agreed(t)'
  <2>1. CASE ~new(t)
    <3>1. AsPinned(t)' = AsPinned(t) BY <1>8, <2>1
    <3>2. Agreed(t) BY DEF Compared
    <3> QED BY <1>9, <3>1, <3>2 DEF Agreed, Apart
  <2>2. CASE new(t)
    <3> DEFINE A == AsPinned(t)
    <3>1. AsPinned(t)' = A \cup {i} BY <1>8, <2>2
    <3>2. SUFFICES ASSUME \A j, k \in A \cup {i} : j # k => Apart(j, k)'
                   PROVE  \A j, k \in A \cup {i} : files'[j].rec.value = files'[k].rec.value
      BY <3>1 DEF Agreed
    <3>3. \A j, k \in A : files[j].rec.value = files[k].rec.value
      <4>1. Agreed(t) BY DEF Compared
      <4>2. \A j, k \in A : j # k => Apart(j, k) BY <1>9, <3>2 DEF Apart
      <4> QED BY <4>1, <4>2 DEF Agreed
    <3>4. ASSUME NEW j \in A PROVE files[j].rec.value = r.value
      <4>1. /\ files[j].rec.looked \in Nat /\ files[j].rec.started \in Nat /\ files[j].saved \in Nat
            /\ files[j].rec.looked <= files[j].rec.started /\ files[j].rec.started < files[j].saved /\ files[j].saved <= clock
        BY AsPinnedIs
      <4>2. files'[j] = files[j] /\ i # j BY <1>9
      <4>3. clock < files[j].rec.looked \/ files[j].saved < r.looked
        <5>1. Apart(i, j)' BY <3>2, <4>2
        <5> QED BY <1>6, <4>2, <5>1 DEF Apart
      <4>4. files[j].saved < r.looked BY <1>1, <4>1, <4>3
      <4>5. PICK k \in Sound(t) : files[k].rec.value = r.value BY <1>11, <2>2, <4>4 DEF Judged
      <4>6. k \in A BY <1>10
      <4> QED BY <3>3, <4>5, <4>6
    <3>5. \A j \in A : files'[j].rec.value = r.value BY <1>9, <3>4
    <3>6. files'[i].rec.value = r.value BY <1>6
    <3> HIDE DEF A
    <3> QED BY <3>5, <3>6
  <2> QED BY <2>1, <2>2
<1>14. \A q \in Procs : q # p => HoldsTo(q)'
  <2>1. \A t : \A j \in AsPinned(t) : j \in AsPinned(t)' /\ files'[j] = files[j] BY <1>8, <1>9
  <2>2. \A t : \A j \in AsPinned(t)' : j \in AsPinned(t) \/ files'[j].saved = clock BY <1>6, <1>8
  <2> HIDE DEF new
  <2> QED BY <1>4, <2>1, <2>2, OthersHold
<1>15. HoldsTo(p)' BY <1>4 DEF HoldsTo
<1>16. \A q \in Procs : HoldsTo(q)' BY <1>14, <1>15
<1>17. \A t : HasSound(t)' /\ Agreed(t)' BY <1>12, <1>13
<1> QED BY <1>16, <1>17 DEF Compared, HoldsTo

\* A process that ends holds on nothing.
LEMMA EndCompared ==
  ASSUME IInv, Compared, NEW p \in Procs, Judge(p) \/ Kill(p)
  PROVE  Compared'
<1>1. TypeOK /\ clock \in Nat BY DEF IInv, TypeOK
<1>2. /\ mode' = mode /\ files' = files /\ clock' = clock /\ pc'[p] = "idle"
      /\ \A q \in Procs : q # p => pc'[q] = pc[q] /\ rec'[q] = rec[q] /\ ref'[q] = ref[q]
  BY <1>1 DEF Judge, Kill, Keep, TypeOK
<1>3. Readable' = Readable /\ \A i \in Readable : files'[i] = files[i] BY <1>2 DEF Readable, Whole
<1>4. HoldsTo(p)' BY <1>2 DEF HoldsTo
<1> QED BY <1>1, <1>2, <1>3, <1>4, QuietStep

\* Time passes, or nothing happens.
LEMMA TickCompared ==
  ASSUME IInv, Compared, Tick \/ UNCHANGED vars
  PROVE  Compared'
<1>1. clock \in Nat /\ clock' \in Nat BY DEF IInv, TypeOK, Tick, vars
<1>2. mode' = mode /\ files' = files /\ pc' = pc /\ rec' = rec /\ ref' = ref BY DEF Tick, vars, local
<1>3. Readable' = Readable /\ \A i \in Readable : files'[i] = files[i] BY <1>2 DEF Readable, Whole
<1>4. /\ \A t : AsPinned(t)' = AsPinned(t) /\ Sound(t)' = Sound(t)
      /\ \A t : \A j \in AsPinned(t) : files'[j] = files[j]
      /\ \A t : (HasSound(t) => HasSound(t)') /\ (Agreed(t) => Agreed(t)')
  BY <1>1, <1>3, SameAsPinned
<1>5. \A q \in Procs : HoldsTo(q)'
  <2>1. \A t : \A j \in AsPinned(t) : j \in AsPinned(t)' /\ files'[j] = files[j] BY <1>4
  <2>2. \A t : \A j \in AsPinned(t)' : j \in AsPinned(t) \/ files'[j].saved = clock BY <1>4
  <2> QED BY <1>2, <2>1, <2>2, OthersHold
<1>6. \A t : HasSound(t)' /\ Agreed(t)' BY <1>4 DEF Compared
<1> QED BY <1>5, <1>6 DEF Compared, HoldsTo

\* What is known of the references holds at first and through every step.
LEMMA ComparedInit == Init => Compared
<1> SUFFICES ASSUME Init PROVE Compared OBVIOUS
<1>1. \A t : AsPinned(t) = {} BY DEF Init, AsPinned, Readable
<1>2. \A t : HasSound(t) /\ Agreed(t) BY <1>1 DEF HasSound, Agreed
<1>3. \A q \in Procs : pc[q] = "idle" BY DEF Init
<1> QED BY <1>2, <1>3 DEF Compared

\* While all runs are searched, every step keeps it.
LEMMA ComparedStep ==
  ASSUME \A m \in Modes : m.runs <= Scan
  PROVE  IInv /\ Compared /\ [Next]_vars => Compared'
<1> SUFFICES ASSUME IInv, Compared, [Next]_vars PROVE Compared' OBVIOUS
<1>1. mode.runs <= Scan BY DEF IInv, TypeOK
<1>2. ASSUME NEW p \in Procs, NEW t \in mode.targets, Look(p, t) PROVE Compared' BY <1>1, <1>2, LookCompared
<1>3. ASSUME NEW p \in Procs, NEW t \in mode.targets, NEW n \in RandSuffix, Start(p, t, n) PROVE Compared'
  BY <1>3, StartCompared
<1>4. ASSUME NEW p \in Procs, Execute(p) PROVE Compared' BY <1>4, ExecuteCompared
<1>5. ASSUME NEW p \in Procs, SaveFill(p) PROVE Compared' BY <1>5, SaveFillCompared
<1>6. ASSUME NEW p \in Procs, Judge(p) \/ Kill(p) PROVE Compared' BY <1>6, EndCompared
<1>7. CASE Tick \/ UNCHANGED vars BY <1>7, TickCompared
<1> QED BY <1>2, <1>3, <1>4, <1>5, <1>6, <1>7 DEF Next

\* For every chain kept red, while its runs are no more than those that pinnedReference
\* searches: runs that failed as pinned against one target, and did not overlap, returned
\* the same, so that what a pinned step returns cannot change unseen.
THEOREM DriftIsKept ==
  ASSUME \A m \in Modes : m.runs <= Scan
  PROVE  Spec => []DriftStays
<1>1. Init => IInv /\ Compared BY InitInv, ComparedInit
<1>2. (IInv /\ Compared) /\ [Next]_vars => (IInv /\ Compared)' BY StepInv, ComparedStep
<1>3. Compared => DriftStays BY DEF Compared, Agreed, DriftStays
<1> QED BY <1>1, <1>2, <1>3, PTL DEF Spec
=============================================================================
