-------------------------- MODULE TokenAuthProofs --------------------------
(***************************************************************************)
(* For any number of processes, profiles, calls, tokens and restarts: a    *)
(* call that may not be re-sent is performed at most once, and what a call *)
(* says of a refused token is true of its process.  For a process that has *)
(* the cache file to itself: a refused token is forgotten when the call is *)
(* over.                                                                   *)
(***************************************************************************)
EXTENDS TokenAuth, TLAPS

(***************************************************************************)
(* The inductive invariant                                                 *)
(***************************************************************************)
FileSteps == {"w_read", "d_read", "c_open", "c_fill", "c_rename"}

\* Where a call stands: a write of the cache file belongs to what follows it.
Phase(p) == IF pc[p] \in FileSteps THEN back[p] ELSE pc[p]

Unsent(p) == Phase(p) \in {"token", "login", "send"}
Again(p)  == Phase(p) \in {"again", "relogin", "resend"}

\* No token is anywhere before the backend issued it, so the next is a new one.
Issued == 1 .. issued \cup {None}
IssuedIn(p) ==
  /\ tok[p] \in Issued /\ first[p] \in Issued /\ snap[p] \in [Profiles -> Issued]
  /\ \A k \in Profiles : mem[p][k] # None => mem[p][k].tok \in Issued
OnlyIssued ==
  /\ \A f \in {cache, tmp} : Readable(f) => f \in [Profiles -> Issued]
  /\ \A p \in Procs : IssuedIn(p)

\* A call has a token when it is sent, a refused one when it is sent again,
\* and notes of a refusal only when it is over.
Staged(p) ==
  /\ Phase(p) \in {"send", "refused", "resend"} => tok[p] # None
  /\ Unsent(p) \/ Phase(p) = "refused" => first[p] = None /\ fresh[p] = "none"
  /\ Again(p) => first[p] # None /\ fresh[p] = "none"

\* A call that may not be re-sent is performed by its one answer that is no
\* 401, or by the answer to its re-send.
Performed(p) ==
  write[p] => /\ Unsent(p) \/ Again(p) => performed[p] = 0
              /\ Phase(p) = "refused" /\ answer[p] = "401" => performed[p] = 0
              /\ performed[p] <= 1

\* What a source notes of its token is true of the process.
SourcesTrue(p) ==
  \A k \in Profiles : mem[p][k] # None =>
    /\ mem[p][k].accepted => mem[p][k].tok \in took[p]
    /\ ~mem[p][k].cached => mem[p][k].tok \in obtained[p]

\* A token got by a login for the re-send is not the refused one.
NewForResend(p) ==
  Again(p) /\ mem[p][use[p]] # None /\ ~mem[p][use[p]].cached
    => mem[p][use[p]].tok # first[p]

Evidence(p) ==
  /\ fresh[p] = "accepted" => first[p] \in took[p]
  /\ fresh[p] = "minted" => first[p] \in obtained[p]
  /\ fresh[p] = "relogin" => tok[p] \in obtained[p] /\ first[p] # None /\ tok[p] # first[p]

CallOK(p) == Staged(p) /\ Performed(p) /\ SourcesTrue(p) /\ NewForResend(p) /\ Evidence(p)

IInv == TypeOK /\ OnlyIssued /\ \A p \in Procs : CallOK(p)

\* A process alone.
Alone == \A p, q \in Procs : p = q
Dropping(p) == pc[p] \in FileSteps /\ back[p] \in {"again", "idle"}
\* t is not a token of k that p has dropped.
Out(p, k, t) == <<k, t>> \notin dropped[p]
\* How a process alone stands with the cache file.
Writing(p) ==
  /\ pc[p] = "c_fill" => tmp = NoEntries /\ fd[p] = "tmp"
  /\ pc[p] = "c_rename" => tmp = snap[p]
  /\ pc[p] = "d_read" => back[p] \in {"again", "idle"}
  /\ pc[p] = "w_read" => back[p] \in {"send", "resend"}
\* What was dropped was issued, and is not what is held, about to be sent, about
\* to be written, or in the file, unless it is being taken out of it.
DroppedOut(p) ==
  /\ \A d \in dropped[p] : d[2] \in 1 .. issued
  /\ \A k \in Profiles : mem[p][k] # None => Out(p, k, mem[p][k].tok)
  /\ Phase(p) \in {"send", "resend"} => Out(p, use[p], tok[p])
  /\ pc[p] \in {"c_open", "c_fill", "c_rename"} => \A k \in Profiles : Out(p, k, snap[p][k])
  /\ Readable(cache) => \A k \in Profiles : (Dropping(p) /\ k = use[p]) \/ Out(p, k, cache[k])
Forgets(p) == Writing(p) /\ DroppedOut(p)

(***************************************************************************)
(* Shapes                                                                  *)
(***************************************************************************)
\* The sentinels are no tokens and no entries.
LEMMA Sentinels ==
  /\ None # Torn /\ None \notin Nat /\ Torn \notin Nat
  /\ None \notin Entries /\ Torn \notin Entries
  /\ None \notin Tokens
  /\ MaxTokens \in Nat
  BY SentinelAssumption, BoundsAssumption DEF Entries, Tokens

\* Nothing is held, written or noted at the start.
LEMMA InitType == Init => TypeOK
<1> SUFFICES ASSUME Init PROVE TypeOK OBVIOUS
<1> USE Sentinels DEF Init, NoEntries
<1>1. issued \in 0 .. MaxTokens /\ live \subseteq 1 .. issued OBVIOUS
<1>2. age \in [Tokens -> {"fresh", "late", "expired"}] OBVIOUS
<1>3. cache \in File /\ tmp \in File BY DEF File
<1>4. mem \in [Procs -> [Profiles -> Held \cup {None}]] OBVIOUS
<1>5. snap \in [Procs -> Entries] BY DEF Entries
<1> QED BY <1>1, <1>2, <1>3, <1>4, <1>5 DEF TypeOK, Labels

\* What the cache holds for a profile, as far as it can be read.
LEMMA CachedType ==
  ASSUME TypeOK, NEW k \in Profiles
  PROVE  Cached(k) \in Tokens \cup {None}
  BY DEF TypeOK, File, Entries, Cached, Readable

\* The new token of a login.
LEMMA MintType ==
  ASSUME TypeOK, NEW p \in Procs, NEW k \in Profiles, issued < MaxTokens, Mint(p, k, issued + 1)
  PROVE  /\ issued + 1 \in Tokens
         /\ issued' \in 0 .. MaxTokens /\ live' \subseteq 1 .. issued'
         /\ mem' \in [Procs -> [Profiles -> Held \cup {None}]]
         /\ obtained' \in [Procs -> SUBSET Tokens]
<1>1. issued + 1 \in Tokens /\ issued' = issued + 1 /\ issued' \in 0 .. MaxTokens
  BY Sentinels DEF TypeOK, Tokens, Mint
<1>2. live' \subseteq 1 .. issued'
  <2>1. issued \in Nat /\ live \subseteq 1 .. issued BY DEF TypeOK
  <2>2. live' = live \cup {issued + 1} /\ issued' = issued + 1 BY DEF Mint
  <2> QED BY <2>1, <2>2
<1>3. [tok |-> issued + 1, cached |-> FALSE, accepted |-> FALSE] \in Held
  BY <1>1 DEF Held
<1>4. mem' \in [Procs -> [Profiles -> Held \cup {None}]]
  BY <1>3 DEF TypeOK, Mint
<1>5. obtained' \in [Procs -> SUBSET Tokens]
  BY <1>1 DEF TypeOK, Mint
<1> QED BY <1>1, <1>2, <1>4, <1>5

\* An answer changes what is held and counted, and keeps its shape.
LEMMA SentType ==
  ASSUME TypeOK, NEW p \in Procs, NEW a, Sent(p, a)
  PROVE  /\ a \in {"ok", "401", "unauth", "lost"}
         /\ mem' \in [Procs -> [Profiles -> Held \cup {None}]]
         /\ took' \in [Procs -> SUBSET Tokens]
         /\ performed' \in [Procs -> Nat]
<1>1. a \in {"ok", "401", "unauth", "lost"} BY DEF Sent, Answers
<1>2. PICK done \in Performs(tok[p], a) :
        performed' = [performed EXCEPT ![p] = IF done THEN @ + 1 ELSE @]
  BY DEF Sent
<1>3. performed' \in [Procs -> Nat] BY <1>2 DEF TypeOK
<1> DEFINE k == use[p]
           accepts == a = "ok" /\ mem[p][k] # None /\ mem[p][k].tok = tok[p]
<1>4. CASE accepts
  <2>1. k \in Profiles /\ mem[p][k] \in Held BY <1>4 DEF TypeOK
  <2>2. tok[p] \in Tokens BY <1>4, <2>1 DEF Held
  <2>3. [mem[p][k] EXCEPT !.accepted = TRUE] \in Held BY <2>1 DEF Held
  <2>4. /\ mem' = [mem EXCEPT ![p][k].accepted = TRUE]
        /\ took' = [took EXCEPT ![p] = @ \cup {tok[p]}]
    BY <1>4 DEF Sent
  <2>5. mem' = [mem EXCEPT ![p] = [mem[p] EXCEPT ![k] = [mem[p][k] EXCEPT !.accepted = TRUE]]]
    BY <2>4, Zenon
  <2>6. took' \in [Procs -> SUBSET Tokens] BY <2>2, <2>4 DEF TypeOK
  <2> DEFINE h == [mem[p][k] EXCEPT !.accepted = TRUE]
  <2> HIDE DEF k, h
  <2>7. [mem[p] EXCEPT ![k] = h] \in [Profiles -> Held \cup {None}] BY <2>1, <2>3 DEF TypeOK, h
  <2>8. mem' \in [Procs -> [Profiles -> Held \cup {None}]] BY <2>5, <2>7 DEF TypeOK, h
  <2> QED BY <1>1, <1>3, <2>6, <2>8
<1>5. CASE ~accepts
  <2>1. UNCHANGED <<mem, took>> BY <1>5 DEF Sent
  <2> QED BY <1>1, <1>3, <2>1 DEF TypeOK
<1> QED BY <1>4, <1>5

\* A step of a process keeps every shape.
LEMMA TypeCall ==
  ASSUME TypeOK, NEW p \in Procs, Call(p)
  PROVE  TypeOK'
<1> USE Sentinels DEF Labels, At, Goto
<1>1. ASSUME NEW k \in Profiles, NEW w \in BOOLEAN, Start(p, k, w) PROVE TypeOK'
  BY <1>1 DEF Start, TypeOK, backend, file
<1>2. ASSUME NEW k \in Profiles, Seed(p, k) PROVE TypeOK'
  BY <1>2, MintType DEF Seed, TypeOK, file, call
<1>3. ASSUME NEW from, NEW send \in Labels, NEW login \in Labels, Token(p, from, send, login)
      PROVE  TypeOK'
  <2> DEFINE k == use[p]  h == mem[p][k]  c == Cached(k)
             held == h # None /\ ~Stale(k, h.tok)
             read == c # None /\ ~Stale(k, c)
  <2>1. k \in Profiles /\ h \in Held \cup {None} BY DEF TypeOK
  <2>2. c \in Tokens \cup {None} BY <2>1, CachedType
  <2>3. UNCHANGED <<backend, file, use, write, first, snap, back, resent, fresh, answer, ghosts>>
    BY <1>3 DEF Token
  <2>4. /\ mem' \in [Procs -> [Profiles -> Held \cup {None}]]
        /\ tok' \in [Procs -> Tokens \cup {None}]
        /\ pc' \in [Procs -> Labels]
    <3>1. CASE held
      <4>1. tok' = [tok EXCEPT ![p] = h.tok] /\ pc' = [pc EXCEPT ![p] = send] /\ UNCHANGED mem
        BY <1>3, <3>1 DEF Token
      <4>2. h.tok \in Tokens BY <2>1, <3>1 DEF Held
      <4> HIDE DEF h
      <4> QED BY <4>1, <4>2 DEF TypeOK
    <3>2. CASE ~held /\ read
      <4> DEFINE new == [tok |-> c, cached |-> TRUE, accepted |-> FALSE]
      <4>1. /\ mem' = [mem EXCEPT ![p][k] = new]
            /\ tok' = [tok EXCEPT ![p] = c] /\ pc' = [pc EXCEPT ![p] = send]
        BY <1>3, <3>2 DEF Token
      <4>2. new \in Held /\ c \in Tokens BY <2>2, <3>2 DEF Held
      <4> HIDE DEF new, c, k
      <4> QED BY <2>1, <4>1, <4>2 DEF TypeOK
    <3>3. CASE ~held /\ ~read
      <4>1. /\ mem' = IF c = None THEN mem ELSE [mem EXCEPT ![p][k] = None]
            /\ pc' = [pc EXCEPT ![p] = login] /\ UNCHANGED tok
        BY <1>3, <3>3 DEF Token
      <4> HIDE DEF c, k
      <4> QED BY <2>1, <4>1 DEF TypeOK
    <3> QED BY <3>1, <3>2, <3>3
  <2> QED BY <2>3, <2>4 DEF TypeOK, backend, file, ghosts
<1>4. ASSUME NEW from, NEW send \in {"send", "resend"}, Login(p, from, send) PROVE TypeOK'
  <2>1. CASE issued < MaxTokens /\ Mint(p, use[p], issued + 1)
             /\ tok' = [tok EXCEPT ![p] = issued + 1]
             /\ back' = [back EXCEPT ![p] = send] /\ Goto(p, "w_read") /\ UNCHANGED answer
    <3>1. use[p] \in Profiles BY DEF TypeOK
    <3>2. /\ issued + 1 \in Tokens
          /\ issued' \in 0 .. MaxTokens /\ live' \subseteq 1 .. issued'
          /\ mem' \in [Procs -> [Profiles -> Held \cup {None}]]
          /\ obtained' \in [Procs -> SUBSET Tokens]
      BY <2>1, <3>1, MintType
    <3> QED BY <1>4, <2>1, <3>2 DEF Login, TypeOK, file
  <2>2. CASE Ends(p, "error") /\ UNCHANGED <<issued, live, mem, tok, back, obtained>>
    BY <1>4, <2>2 DEF Login, Ends, TypeOK, file
  <2> QED BY <1>4, <2>1, <2>2 DEF Login
<1>5. ASSUME NEW a, Send(p, a) PROVE TypeOK'
  <2>1. /\ a \in {"ok", "401", "unauth", "lost"}
        /\ mem' \in [Procs -> [Profiles -> Held \cup {None}]]
        /\ took' \in [Procs -> SUBSET Tokens]
        /\ performed' \in [Procs -> Nat]
    BY <1>5, SentType DEF Send
  <2>2. /\ pc' \in [Procs -> Labels]
        /\ answer' \in [Procs -> {"none", "ok", "401", "unauth", "lost", "error"}]
    <3>1. PICK l \in {"refused", "idle"} : pc' = [pc EXCEPT ![p] = l]
      BY <1>5 DEF Send, Ends
    <3>2. answer' = [answer EXCEPT ![p] = a] BY <1>5 DEF Send, Ends
    <3> QED BY <2>1, <3>1, <3>2 DEF TypeOK
  <2>3. UNCHANGED <<backend, file, use, write, tok, first, snap, back, resent, fresh, obtained, dropped, calls, restarts>>
    BY <1>5 DEF Send
  <2> QED BY <2>1, <2>2, <2>3 DEF TypeOK, backend, file
<1>6. ASSUME NEW a, Resend(p, a) PROVE TypeOK'
  <2>1. /\ a \in {"ok", "401", "unauth", "lost"}
        /\ mem' \in [Procs -> [Profiles -> Held \cup {None}]]
        /\ took' \in [Procs -> SUBSET Tokens]
        /\ performed' \in [Procs -> Nat]
    BY <1>6, SentType DEF Resend
  <2> QED BY <1>6, <2>1 DEF Resend, Ends, TypeOK, backend, file
<1>7. CASE Refused(p)
  BY <1>7 DEF Refused, Invalidated, TypeOK, backend, file, ghosts
<1>8. CASE WriteRead(p)
  <2> DEFINE e == IF Readable(cache) THEN cache ELSE NoEntries
             s == [k \in Profiles |-> IF k = use[p] THEN tok[p]
                     ELSE IF e[k] # None /\ k \notin NoExpiry /\ age[e[k]] = "expired"
                     THEN None ELSE e[k]]
  <2>1. e \in Entries BY DEF TypeOK, File, Readable, Entries, NoEntries
  <2>2. s \in Entries BY <2>1 DEF TypeOK, Entries
  <2>3. snap' = [snap EXCEPT ![p] = s] BY <1>8 DEF WriteRead
  <2> HIDE DEF s
  <2>4. snap' \in [Procs -> Entries] BY <2>2, <2>3 DEF TypeOK
  <2>5. /\ pc' = [pc EXCEPT ![p] = "c_open"]
        /\ UNCHANGED <<backend, file, mem, use, write, tok, first, back, resent, fresh, answer, ghosts>>
    BY <1>8 DEF WriteRead
  <2> QED BY <2>4, <2>5 DEF TypeOK, backend, file, ghosts
<1>9. CASE DropRead(p)
  <2>1. UNCHANGED <<backend, file, mem, use, write, tok, first, back, resent, fresh, answer, ghosts>>
    BY <1>9 DEF DropRead
  <2>2. CASE Readable(cache) /\ cache[use[p]] # None
    <3>1. [cache EXCEPT ![use[p]] = None] \in Entries
      BY <2>2 DEF TypeOK, File, Entries, Readable
    <3>2. snap' = [snap EXCEPT ![p] = [cache EXCEPT ![use[p]] = None]] /\ pc' = [pc EXCEPT ![p] = "c_open"]
      BY <1>9, <2>2 DEF DropRead
    <3> QED BY <2>1, <3>1, <3>2 DEF TypeOK, backend, file, ghosts
  <2>3. CASE ~(Readable(cache) /\ cache[use[p]] # None)
    <3>1. pc' = [pc EXCEPT ![p] = back[p]] /\ UNCHANGED snap
      BY <1>9, <2>3 DEF DropRead
    <3> QED BY <2>1, <3>1 DEF TypeOK, backend, file, ghosts
  <2> QED BY <2>2, <2>3
<1>10. CASE CacheOpen(p)
  <2>1. NoEntries \in File BY DEF NoEntries, Entries, File
  <2>2. tmp' = NoEntries /\ fd' = [fd EXCEPT ![p] = "tmp"] /\ UNCHANGED cache
    BY <1>10 DEF CacheOpen
  <2>3. tmp' \in File /\ fd' \in [Procs -> {"none", "tmp", "cache", "gone"}]
    BY <2>1, <2>2 DEF TypeOK
  <2>4. pc' \in [Procs -> Labels] BY <1>10 DEF CacheOpen, Shared, Goto, TypeOK, Labels
  <2> QED BY <1>10, <2>2, <2>3, <2>4 DEF CacheOpen, Shared, TypeOK, backend, ghosts
<1>11. CASE CacheFill(p)
  <2>1. Torn \in File /\ snap[p] \in File BY DEF TypeOK, File
  <2>2. cache' \in {cache, snap[p], Torn} /\ tmp' \in {tmp, snap[p], Torn}
    BY <1>11 DEF CacheFill, Filled
  <2>3. cache' \in File /\ tmp' \in File BY <2>1, <2>2 DEF TypeOK
  <2>4. fd' \in [Procs -> {"none", "tmp", "cache", "gone"}] BY <1>11 DEF CacheFill, TypeOK
  <2>5. pc' \in [Procs -> Labels] BY <1>11 DEF CacheFill, Shared, Goto, TypeOK, Labels
  <2> QED BY <1>11, <2>3, <2>4, <2>5 DEF CacheFill, Shared, TypeOK, backend, ghosts
<1>12. CASE CacheRename(p)
  <2>1. cache' \in {cache, tmp} /\ tmp' \in {tmp, None}
    BY <1>12 DEF CacheRename, file
  <2>2. cache' \in File /\ tmp' \in File BY <2>1 DEF TypeOK, File
  <2>3. \A q \in Procs : Renamed(fd[q]) \in {"none", "tmp", "cache", "gone"}
    BY DEF Renamed, TypeOK
  <2>4. fd' = fd \/ fd' = [q \in Procs |-> Renamed(fd[q])]
    BY <1>12 DEF CacheRename, file
  <2>5. fd' \in [Procs -> {"none", "tmp", "cache", "gone"}] BY <2>3, <2>4 DEF TypeOK
  <2>6. pc' \in [Procs -> Labels] BY <1>12 DEF CacheRename, Shared, Goto, TypeOK, Labels
  <2> QED BY <1>12, <2>2, <2>5, <2>6 DEF CacheRename, Shared, TypeOK, backend, ghosts
<1>13. CASE FirstToken(p) \/ NextToken(p)
  BY <1>3, <1>13 DEF FirstToken, NextToken
<1>14. CASE FirstLogin(p) \/ NextLogin(p)
  BY <1>4, <1>14 DEF FirstLogin, NextLogin
<1> QED BY <1>1, <1>2, <1>5, <1>6, <1>7, <1>8, <1>9, <1>10, <1>11, <1>12, <1>13, <1>14 DEF Call

\* So does every step of the backend, a restart, and a step of nothing.
LEMMA TypeStep ==
  ASSUME TypeOK, [Next]_vars
  PROVE  TypeOK'
<1>1. ASSUME NEW t \in Tokens, Revoke(t) PROVE TypeOK'
  BY <1>1 DEF Revoke, TypeOK, file, call, ghosts
<1>2. ASSUME NEW t \in Tokens, Older(t) PROVE TypeOK'
  BY <1>2 DEF Older, TypeOK, file, call, ghosts
<1>3. ASSUME NEW p \in Procs, Restart(p) PROVE TypeOK'
  BY <1>3 DEF Restart, TypeOK, NoEntries, Entries, Labels, Goto, file, backend
<1>4. CASE UNCHANGED vars
  BY <1>4 DEF TypeOK, vars, backend, file, call, ghosts
<1> QED BY <1>1, <1>2, <1>3, <1>4, TypeCall DEF Next

\* The cache file, the sources and the calls keep the shape the code gives
\* them, whatever the processes interleave and wherever they are killed.
THEOREM TypeCorrect == Spec => []TypeOK
<1> QED BY InitType, TypeStep, PTL DEF Spec

(***************************************************************************)
(* What a step leaves alone                                                *)
(***************************************************************************)
\* What a process has of its own: its sources, its call and its history.
Own(p) == <<mem[p], pc[p], use[p], write[p], tok[p], first[p], snap[p], back[p], resent[p],
            fresh[p], answer[p], obtained[p], took[p], dropped[p], performed[p]>>

\* A step of one process changes nothing of another.
LEMMA OthersKeep ==
  ASSUME TypeOK, NEW p \in Procs, Call(p) \/ Restart(p), NEW q \in Procs, q # p
  PROVE  UNCHANGED Own(q)
<1> USE DEF Own, At, Goto
<1>1. ASSUME NEW k \in Profiles, NEW w \in BOOLEAN, Start(p, k, w) PROVE UNCHANGED Own(q)
  BY <1>1 DEF Start, TypeOK
<1>2. ASSUME NEW k \in Profiles, Seed(p, k) PROVE UNCHANGED Own(q)
  BY <1>2 DEF Seed, Mint, TypeOK, call
<1>3. ASSUME NEW from, NEW send, NEW login, Token(p, from, send, login) PROVE UNCHANGED Own(q)
  <2>1. mem'[q] = mem[q] BY <1>3 DEF Token, TypeOK
  <2>2. tok'[q] = tok[q] BY <1>3 DEF Token, TypeOK
  <2>3. pc'[q] = pc[q] BY <1>3 DEF Token, TypeOK
  <2>4. UNCHANGED <<use, write, first, snap, back, resent, fresh, answer, ghosts>> BY <1>3 DEF Token
  <2> QED BY <2>1, <2>2, <2>3, <2>4 DEF ghosts
<1>4. ASSUME NEW from, NEW send, Login(p, from, send) PROVE UNCHANGED Own(q)
  BY <1>4 DEF Login, Mint, Ends, TypeOK
<1>5. ASSUME NEW a, Sent(p, a) PROVE UNCHANGED <<mem[q], took[q], performed[q]>>
  BY <1>5 DEF Sent, TypeOK
<1>6. ASSUME NEW a, Send(p, a) PROVE UNCHANGED Own(q)
  <2>1. UNCHANGED <<mem[q], took[q], performed[q]>> BY <1>5, <1>6 DEF Send
  <2>2. UNCHANGED <<pc[q], answer[q]>> BY <1>6 DEF Send, Ends, TypeOK
  <2>3. UNCHANGED <<use, write, tok, first, snap, back, resent, fresh, obtained, dropped>> BY <1>6 DEF Send
  <2> QED BY <2>1, <2>2, <2>3
<1>7. ASSUME NEW a, Resend(p, a) PROVE UNCHANGED Own(q)
  <2>1. UNCHANGED <<mem[q], took[q], performed[q]>> BY <1>5, <1>7 DEF Resend
  <2>2. UNCHANGED <<pc[q], answer[q], resent[q], fresh[q]>> BY <1>7 DEF Resend, Ends, TypeOK
  <2>3. UNCHANGED <<use, write, tok, first, snap, back, obtained, dropped>> BY <1>7 DEF Resend
  <2> QED BY <2>1, <2>2, <2>3
<1>8. CASE Refused(p) BY <1>8 DEF Refused, TypeOK, ghosts
<1>9. CASE WriteRead(p) BY <1>9 DEF WriteRead, TypeOK, ghosts
<1>10. CASE DropRead(p) BY <1>10 DEF DropRead, TypeOK, ghosts
<1>11. CASE CacheOpen(p) BY <1>11 DEF CacheOpen, Shared, TypeOK, ghosts
<1>12. CASE CacheFill(p) BY <1>12 DEF CacheFill, Shared, TypeOK, ghosts
<1>13. CASE CacheRename(p) BY <1>13 DEF CacheRename, Shared, TypeOK, ghosts
<1>14. CASE Restart(p) BY <1>14 DEF Restart, TypeOK
<1>15. CASE FirstToken(p) \/ NextToken(p) BY <1>3, <1>15 DEF FirstToken, NextToken
<1>16. CASE FirstLogin(p) \/ NextLogin(p) BY <1>4, <1>16 DEF FirstLogin, NextLogin
<1> QED BY <1>1, <1>2, <1>6, <1>7, <1>8, <1>9, <1>10, <1>11, <1>12, <1>13, <1>14, <1>15, <1>16 DEF Call

\* A step on the cache file leaves a call where it stands and what it knows.
LEMMA FileStep ==
  ASSUME TypeOK, NEW p \in Procs,
         WriteRead(p) \/ DropRead(p) \/ CacheOpen(p) \/ CacheFill(p) \/ CacheRename(p)
  PROVE  /\ Phase(p)' = Phase(p)
         /\ UNCHANGED <<backend, mem, use, write, tok, first, back, resent, fresh, answer, ghosts>>
<1>1. UNCHANGED <<backend, mem, use, write, tok, first, back, resent, fresh, answer, ghosts>>
  BY DEF WriteRead, DropRead, CacheOpen, CacheFill, CacheRename, Shared
<1>2. pc[p] \in FileSteps
  BY DEF WriteRead, DropRead, CacheOpen, CacheFill, CacheRename, At, FileSteps
<1>3. pc' = [pc EXCEPT ![p] = pc'[p]] /\ pc'[p] \in FileSteps \cup {back[p]}
  <2>1. CASE WriteRead(p) BY <2>1 DEF WriteRead, TypeOK, Goto, FileSteps
  <2>2. CASE DropRead(p) BY <2>2 DEF DropRead, TypeOK, Goto, FileSteps
  <2>3. CASE CacheOpen(p) BY <2>3 DEF CacheOpen, Shared, TypeOK, Goto, FileSteps
  <2>4. CASE CacheFill(p) BY <2>4 DEF CacheFill, Shared, TypeOK, Goto, FileSteps
  <2>5. CASE CacheRename(p) BY <2>5 DEF CacheRename, Shared, TypeOK, Goto, FileSteps
  <2> QED BY <2>1, <2>2, <2>3, <2>4, <2>5
<1>4. back[p] \notin FileSteps BY DEF TypeOK, FileSteps
<1> QED BY <1>1, <1>2, <1>3, <1>4 DEF Phase

(***************************************************************************)
(* Tokens are issued before they are anywhere.                             *)
(***************************************************************************)
\* The count of issued tokens only grows.
LEMMA IssuedGrows ==
  ASSUME TypeOK, [Next]_vars
  PROVE  issued' \in Nat /\ issued <= issued' /\ Issued \subseteq Issued'
<1>1. issued' \in Nat /\ issued <= issued'
  <2>1. issued' \in Nat BY TypeStep, Sentinels DEF TypeOK
  <2>2. issued' = issued \/ issued' = issued + 1
    <3>1. ASSUME NEW p \in Procs, Call(p) PROVE issued' = issued \/ issued' = issued + 1
      BY <3>1 DEF Call, Start, Seed, Mint, FirstToken, NextToken, Token, FirstLogin, NextLogin,
         Login, Ends, Send, Resend, Refused, WriteRead, DropRead, CacheOpen, CacheFill,
         CacheRename, Shared, backend
    <3>2. ASSUME NEW p \in Procs, Restart(p) PROVE issued' = issued
      BY <3>2 DEF Restart, backend
    <3>3. ASSUME NEW t \in Tokens, Revoke(t) \/ Older(t) PROVE issued' = issued
      BY <3>3 DEF Revoke, Older
    <3>4. CASE UNCHANGED vars BY <3>4 DEF vars, backend
    <3> QED BY <3>1, <3>2, <3>3, <3>4 DEF Next
  <2> QED BY <2>1, <2>2 DEF TypeOK
<1> QED BY <1>1 DEF Issued, TypeOK

\* A step of a process puts only issued tokens into its sources, its call and
\* the file.
LEMMA IssuedCall ==
  ASSUME TypeOK, OnlyIssued, NEW p \in Procs, Call(p), Issued \subseteq Issued'
  PROVE  OnlyIssued'
<1> DEFINE Files == \A f \in {cache, tmp} : Readable(f) => f \in [Profiles -> Issued]
<1> USE DEF At, Goto
<1>a. SUFFICES Files' /\ IssuedIn(p)'
  <2>1. ASSUME NEW q \in Procs, q # p PROVE IssuedIn(q)'
    <3>1. UNCHANGED Own(q) BY <2>1, OthersKeep
    <3>2. IssuedIn(q) BY DEF OnlyIssued
    <3> QED BY <3>1, <3>2 DEF IssuedIn, Own
  <2> QED BY <2>1 DEF OnlyIssued
<1>b. Files /\ IssuedIn(p) BY DEF OnlyIssued
<1>c. None \in Issued /\ None \in Issued' BY DEF Issued
<1>f. ASSUME UNCHANGED file PROVE Files' BY <1>b, <1>f DEF file
<1>1. ASSUME NEW k \in Profiles, NEW w \in BOOLEAN, Start(p, k, w) PROVE IssuedIn(p)' /\ Files'
  BY <1>1, <1>b, <1>c DEF Start, TypeOK, IssuedIn, file, Issued, backend
<1>m. ASSUME NEW k \in Profiles, Mint(p, k, issued + 1), issued < MaxTokens
      PROVE  /\ issued + 1 \in Issued'
             /\ \A j \in Profiles : mem'[p][j] # None => mem'[p][j].tok \in Issued'
  <2>1. issued' = issued + 1 /\ issued + 1 \in Tokens BY <1>m, MintType DEF Mint
  <2>2. issued + 1 \in Issued' BY <2>1 DEF Issued, Tokens
  <2> DEFINE new == [tok |-> issued + 1, cached |-> FALSE, accepted |-> FALSE]
  <2>3. mem' = [mem EXCEPT ![p][k] = new] BY <1>m DEF Mint
  <2>4. new.tok = issued + 1 OBVIOUS
  <2> HIDE DEF new
  <2>5. \A j \in Profiles : mem'[p][j] = IF j = k THEN new ELSE mem[p][j] BY <2>3 DEF TypeOK
  <2> QED BY <1>b, <2>2, <2>4, <2>5 DEF IssuedIn
<1>2. ASSUME NEW k \in Profiles, Seed(p, k) PROVE IssuedIn(p)' /\ Files'
  BY <1>2, <1>m, <1>b, <1>f DEF Seed, IssuedIn, file, call
<1>3. ASSUME NEW from, NEW send, NEW login, Token(p, from, send, login) PROVE IssuedIn(p)' /\ Files'
  <2> DEFINE k == use[p]  h == mem[p][k]  c == Cached(k)
             held == h # None /\ ~Stale(k, h.tok)
             read == c # None /\ ~Stale(k, c)
  <2>1. k \in Profiles BY DEF TypeOK
  <2>2. c \in Issued BY <1>b, <1>c, <2>1 DEF Cached
  <2>3. UNCHANGED <<backend, file, first, snap>> BY <1>3 DEF Token
  <2>4. tok'[p] \in Issued' /\ \A j \in Profiles : mem'[p][j] # None => mem'[p][j].tok \in Issued'
    <3>1. CASE held
      <4>1. tok' = [tok EXCEPT ![p] = h.tok] /\ UNCHANGED mem BY <1>3, <3>1 DEF Token
      <4> HIDE DEF h
      <4>2. h.tok \in Issued BY <1>b, <2>1, <3>1 DEF IssuedIn, h
      <4> QED BY <4>1, <4>2, <1>b DEF TypeOK, IssuedIn
    <3>2. CASE ~held /\ read
      <4> DEFINE new == [tok |-> c, cached |-> TRUE, accepted |-> FALSE]
      <4>1. mem' = [mem EXCEPT ![p][k] = new] /\ tok' = [tok EXCEPT ![p] = c]
        BY <1>3, <3>2 DEF Token
      <4>2. new.tok = c OBVIOUS
      <4> HIDE DEF new, c, k
      <4>3. \A j \in Profiles : mem'[p][j] = IF j = k THEN new ELSE mem[p][j] BY <4>1 DEF TypeOK
      <4> QED BY <1>b, <2>1, <2>2, <4>1, <4>2, <4>3 DEF TypeOK, IssuedIn
    <3>3. CASE ~held /\ ~read
      <4>1. mem' = (IF c = None THEN mem ELSE [mem EXCEPT ![p][k] = None]) /\ UNCHANGED tok
        BY <1>3, <3>3 DEF Token
      <4> HIDE DEF c, k
      <4>2. \A j \in Profiles : mem'[p][j] = mem[p][j] \/ mem'[p][j] = None BY <4>1, <2>1 DEF TypeOK
      <4> QED BY <1>b, <4>1, <4>2 DEF IssuedIn
    <3> QED BY <3>1, <3>2, <3>3
  <2> QED BY <1>b, <1>f, <2>3, <2>4 DEF IssuedIn
<1>4. ASSUME NEW from, NEW send, Login(p, from, send) PROVE IssuedIn(p)' /\ Files'
  <2>0. use[p] \in Profiles BY DEF TypeOK
  <2>1. CASE issued < MaxTokens /\ Mint(p, use[p], issued + 1) /\ tok' = [tok EXCEPT ![p] = issued + 1]
    <3>1. /\ issued + 1 \in Issued'
          /\ \A j \in Profiles : mem'[p][j] # None => mem'[p][j].tok \in Issued'
      BY <1>m, <2>0, <2>1
    <3> QED BY <1>4, <1>b, <1>f, <2>1, <3>1 DEF Login, IssuedIn, TypeOK
  <2>2. CASE UNCHANGED <<mem, tok>>
    BY <1>4, <1>b, <1>f, <2>2 DEF Login, IssuedIn
  <2> QED BY <1>4, <2>1, <2>2 DEF Login
<1>5. ASSUME NEW a, Sent(p, a), UNCHANGED <<file, tok, first, snap>> PROVE IssuedIn(p)' /\ Files'
  <2>1. \A j \in Profiles : mem'[p][j] # None =>
           mem[p][j] # None /\ mem'[p][j].tok = mem[p][j].tok
    <3>1. CASE UNCHANGED mem BY <3>1
    <3>2. CASE mem[p][use[p]] # None /\ mem' = [mem EXCEPT ![p][use[p]].accepted = TRUE]
      <4> DEFINE k == use[p]  h == [mem[p][k] EXCEPT !.accepted = TRUE]
      <4>1. k \in Profiles /\ mem[p][k] \in Held BY <3>2 DEF TypeOK
      <4>2. h.tok = mem[p][k].tok BY <4>1 DEF Held
      <4>3. mem' = [mem EXCEPT ![p] = [mem[p] EXCEPT ![k] = h]] BY <3>2, Zenon
      <4> HIDE DEF h, k
      <4>4. \A j \in Profiles : mem'[p][j] = IF j = k THEN h ELSE mem[p][j] BY <4>3 DEF TypeOK
      <4> QED BY <3>2, <4>2, <4>4 DEF k
    <3> QED BY <1>5, <3>1, <3>2 DEF Sent
  <2> QED BY <1>5, <1>b, <1>f, <2>1 DEF IssuedIn
<1>6. ASSUME NEW a, Send(p, a) \/ Resend(p, a) PROVE IssuedIn(p)' /\ Files'
  BY <1>5, <1>6 DEF Send, Resend
<1>7. CASE Refused(p)
  <2>1. /\ mem' = [mem EXCEPT ![p][use[p]] = None] /\ first' = [first EXCEPT ![p] = tok[p]]
        /\ UNCHANGED <<file, tok, snap>>
    BY <1>7 DEF Refused, Invalidated
  <2>2. \A j \in Profiles : mem'[p][j] = mem[p][j] \/ mem'[p][j] = None BY <2>1 DEF TypeOK
  <2> QED BY <1>b, <1>f, <2>1, <2>2 DEF IssuedIn, TypeOK
<1>8. CASE WriteRead(p)
  <2> DEFINE e == IF Readable(cache) THEN cache ELSE NoEntries
             s == [k \in Profiles |-> IF k = use[p] THEN tok[p]
                     ELSE IF e[k] # None /\ k \notin NoExpiry /\ age[e[k]] = "expired"
                     THEN None ELSE e[k]]
  <2>1. e \in [Profiles -> Issued] BY <1>b, <1>c DEF NoEntries
  <2>2. s \in [Profiles -> Issued] BY <1>b, <1>c, <2>1 DEF IssuedIn
  <2>3. snap' = [snap EXCEPT ![p] = s] /\ UNCHANGED <<file, mem, tok, first>> BY <1>8 DEF WriteRead
  <2> HIDE DEF s
  <2> QED BY <1>b, <1>f, <2>2, <2>3 DEF IssuedIn, TypeOK
<1>9. CASE DropRead(p)
  <2>1. UNCHANGED <<file, mem, tok, first>> BY <1>9 DEF DropRead
  <2>2. snap'[p] \in [Profiles -> Issued]
    <3>1. CASE Readable(cache) /\ cache[use[p]] # None
      <4>1. snap' = [snap EXCEPT ![p] = [cache EXCEPT ![use[p]] = None]]
        BY <1>9, <3>1 DEF DropRead
      <4>2. cache \in [Profiles -> Issued] BY <1>b, <3>1
      <4>3. [cache EXCEPT ![use[p]] = None] \in [Profiles -> Issued] BY <1>c, <4>2
      <4> QED BY <1>b, <4>1, <4>3 DEF TypeOK
    <3>2. CASE ~(Readable(cache) /\ cache[use[p]] # None)
      BY <1>9, <1>b, <3>2 DEF DropRead, IssuedIn
    <3> QED BY <3>1, <3>2
  <2> QED BY <1>b, <1>f, <2>1, <2>2 DEF IssuedIn
<1>10. CASE CacheOpen(p)
  <2>1. tmp' = NoEntries /\ UNCHANGED <<cache, mem, tok, first, snap>>
    BY <1>10 DEF CacheOpen, Shared
  <2>2. NoEntries \in [Profiles -> Issued] BY <1>c DEF NoEntries
  <2> QED BY <1>b, <2>1, <2>2 DEF IssuedIn
<1>11. CASE CacheFill(p)
  <2>1. cache' \in {cache, snap[p], Torn} /\ tmp' \in {tmp, snap[p], Torn}
    BY <1>11 DEF CacheFill, Filled
  <2>2. UNCHANGED <<mem, tok, first, snap>> BY <1>11 DEF CacheFill, Shared
  <2> QED BY <1>b, <2>1, <2>2 DEF IssuedIn, Readable
<1>12. CASE CacheRename(p)
  <2>1. cache' \in {cache, tmp} /\ tmp' \in {tmp, None} BY <1>12 DEF CacheRename, file
  <2>2. UNCHANGED <<mem, tok, first, snap>> BY <1>12 DEF CacheRename, Shared
  <2> QED BY <1>b, <2>1, <2>2 DEF IssuedIn, Readable
<1>13. CASE FirstToken(p) \/ NextToken(p) BY <1>3, <1>13 DEF FirstToken, NextToken
<1>14. CASE FirstLogin(p) \/ NextLogin(p) BY <1>4, <1>14 DEF FirstLogin, NextLogin
<1> HIDE DEF Files
<1> QED BY <1>1, <1>2, <1>6, <1>7, <1>8, <1>9, <1>10, <1>11, <1>12, <1>13, <1>14 DEF Call

\* So do the steps of the backend, and a restart.
LEMMA IssuedStep ==
  ASSUME TypeOK, OnlyIssued, [Next]_vars
  PROVE  OnlyIssued'
<1>1. Issued \subseteq Issued' BY IssuedGrows
<1>2. ASSUME NEW t \in Tokens, Revoke(t) \/ Older(t) PROVE OnlyIssued'
  BY <1>1, <1>2 DEF Revoke, Older, OnlyIssued, IssuedIn, file, call
<1>3. ASSUME NEW p \in Procs, Restart(p) PROVE OnlyIssued'
  <2>1. ASSUME NEW q \in Procs, q # p PROVE IssuedIn(q)'
    <3>1. UNCHANGED Own(q) BY <1>3, <2>1, OthersKeep
    <3>2. IssuedIn(q) BY DEF OnlyIssued
    <3> QED BY <1>1, <3>1, <3>2 DEF IssuedIn, Own
  <2>2. IssuedIn(p)' BY <1>3 DEF Restart, TypeOK, IssuedIn, Issued, NoEntries
  <2>3. UNCHANGED <<cache, tmp>> BY <1>3 DEF Restart
  <2> QED BY <1>1, <2>1, <2>2, <2>3 DEF OnlyIssued
<1>4. CASE UNCHANGED vars
  BY <1>4 DEF vars, OnlyIssued, IssuedIn, Issued, backend, file, call
<1> QED BY <1>1, <1>2, <1>3, <1>4, IssuedCall DEF Next

(***************************************************************************)
(* What a call performs, and what it says of a refused token               *)
(***************************************************************************)
\* The sources stay true when a login adds a token.
LEMMA MintTrue ==
  ASSUME TypeOK, NEW p \in Procs, NEW k \in Profiles, SourcesTrue(p),
         Mint(p, k, issued + 1), UNCHANGED took
  PROVE  SourcesTrue(p)' /\ obtained[p] \subseteq obtained'[p] /\ issued + 1 \in obtained'[p]
<1> DEFINE new == [tok |-> issued + 1, cached |-> FALSE, accepted |-> FALSE]
<1>1. mem' = [mem EXCEPT ![p][k] = new] /\ obtained' = [obtained EXCEPT ![p] = @ \cup {issued + 1}]
  BY DEF Mint
<1>2. new.tok = issued + 1 /\ ~new.cached /\ ~new.accepted OBVIOUS
<1> HIDE DEF new
<1>3. \A j \in Profiles : mem'[p][j] = IF j = k THEN new ELSE mem[p][j] BY <1>1 DEF TypeOK
<1>4. obtained'[p] = obtained[p] \cup {issued + 1} BY <1>1 DEF TypeOK
<1> QED BY <1>2, <1>3, <1>4 DEF SourcesTrue

\* An answer keeps the sources true, and only a token the backend still knows
\* has the call performed.
LEMMA SentTrue ==
  ASSUME TypeOK, NEW p \in Procs, SourcesTrue(p), NEW a, Sent(p, a), UNCHANGED obtained
  PROVE  /\ SourcesTrue(p)' /\ took[p] \subseteq took'[p]
         /\ performed'[p] \in {performed[p], performed[p] + 1}
         /\ a = "401" => performed'[p] = performed[p]
         /\ \A k \in Profiles : mem'[p][k] # None =>
               /\ mem[p][k] # None /\ mem'[p][k].tok = mem[p][k].tok
               /\ mem'[p][k].cached = mem[p][k].cached
<1>1. PICK done \in Performs(tok[p], a) :
        performed' = [performed EXCEPT ![p] = IF done THEN @ + 1 ELSE @]
  BY DEF Sent
<1>2. performed'[p] \in {performed[p], performed[p] + 1} BY <1>1 DEF TypeOK
<1>3. a = "401" => performed'[p] = performed[p]
  <2>1. a = "401" => done = FALSE BY DEF Performs
  <2> QED BY <1>1, <2>1 DEF TypeOK
<1>4. CASE UNCHANGED <<mem, took>> BY <1>2, <1>3, <1>4 DEF SourcesTrue
<1>5. CASE /\ mem[p][use[p]] # None /\ mem[p][use[p]].tok = tok[p]
           /\ mem' = [mem EXCEPT ![p][use[p]].accepted = TRUE]
           /\ took' = [took EXCEPT ![p] = @ \cup {tok[p]}]
  <2> DEFINE k == use[p]  h == [mem[p][k] EXCEPT !.accepted = TRUE]
  <2>1. k \in Profiles /\ mem[p][k] \in Held BY <1>5 DEF TypeOK
  <2>2. h.tok = mem[p][k].tok /\ h.cached = mem[p][k].cached BY <2>1 DEF Held
  <2>3. mem' = [mem EXCEPT ![p] = [mem[p] EXCEPT ![k] = h]] BY <1>5, Zenon
  <2>4. took'[p] = took[p] \cup {tok[p]} BY <1>5 DEF TypeOK
  <2>5. mem[p][k].tok = tok[p] /\ mem[p][k] # None BY <1>5
  <2> HIDE DEF h, k
  <2>6. \A j \in Profiles : mem'[p][j] = IF j = k THEN h ELSE mem[p][j] BY <2>3 DEF TypeOK
  <2> QED BY <1>2, <1>3, <2>1, <2>2, <2>4, <2>5, <2>6 DEF SourcesTrue
<1> QED BY <1>4, <1>5 DEF Sent

\* Every step of a process keeps what its call promises.
LEMMA CallStep ==
  ASSUME TypeOK, OnlyIssued, NEW p \in Procs, CallOK(p), Call(p)
  PROVE  CallOK(p)'
<1> USE DEF At, Goto, FileSteps, Unsent, Again
<1>1. /\ Staged(p) /\ Performed(p) /\ SourcesTrue(p) /\ NewForResend(p) /\ Evidence(p)
      /\ IssuedIn(p)
  BY DEF CallOK, OnlyIssued
<1>2. ASSUME NEW k \in Profiles, NEW w \in BOOLEAN, Start(p, k, w) PROVE CallOK(p)'
  <2>1. /\ Phase(p)' = "token" /\ first'[p] = None /\ fresh'[p] = "none" /\ performed'[p] = 0
        /\ UNCHANGED <<mem, obtained, took>>
    BY <1>2 DEF Start, TypeOK, Phase
  <2> QED BY <1>1, <2>1 DEF CallOK, Staged, Performed, SourcesTrue, NewForResend, Evidence
<1>3. ASSUME NEW k \in Profiles, Seed(p, k) PROVE CallOK(p)'
  <2>1. pc[p] = "idle" /\ UNCHANGED <<call, took, performed>> /\ Mint(p, k, issued + 1)
    BY <1>3 DEF Seed
  <2>2. Phase(p)' = "idle" /\ Phase(p) = "idle" BY <2>1 DEF Phase, call
  <2>3. SourcesTrue(p)' /\ obtained[p] \subseteq obtained'[p] BY <1>1, <2>1, MintTrue
  <2> QED BY <1>1, <2>1, <2>2, <2>3
     DEF CallOK, Staged, Performed, NewForResend, Evidence, call
<1>4. ASSUME NEW from, NEW send, NEW login, Token(p, from, send, login),
             <<from, send, login>> \in {<<"token", "send", "login">>, <<"again", "resend", "relogin">>}
      PROVE  CallOK(p)'
  <2> DEFINE k == use[p]  h == mem[p][k]  c == Cached(k)
             held == h # None /\ ~Stale(k, h.tok)
             read == c # None /\ ~Stale(k, c)
  <2>1. k \in Profiles BY DEF TypeOK
  <2>2. UNCHANGED <<use, write, first, back, resent, fresh, answer, ghosts>> /\ pc[p] = from
    BY <1>4 DEF Token
  <2>3. Phase(p) = from BY <1>4, <2>2 DEF Phase
  <2>4. /\ fresh'[p] = "none" /\ performed'[p] = performed[p]
        /\ from = "token" => first'[p] = None
        /\ from = "again" => first'[p] # None
        /\ write'[p] => performed'[p] = 0
    BY <1>1, <1>4, <2>2, <2>3 DEF Staged, Performed, ghosts
  <2>5. \/ pc'[p] = send /\ tok'[p] # None
        \/ pc'[p] = login
    <3>1. CASE held
      <4>1. h \in Held BY <2>1, <3>1 DEF TypeOK
      <4>2. h.tok # None BY <4>1, Sentinels DEF Held
      <4> QED BY <1>4, <3>1, <4>2 DEF Token, TypeOK
    <3>2. CASE ~held /\ read
      <4> HIDE DEF h
      <4> QED BY <1>4, <3>2 DEF Token, TypeOK, h
    <3>3. CASE ~held /\ ~read
      BY <1>4, <3>3 DEF Token, TypeOK
    <3> QED BY <3>1, <3>2, <3>3
  <2>6. Phase(p)' \in {send, login} /\ (Phase(p)' = send => tok'[p] # None)
    BY <1>4, <2>5 DEF Phase
  <2>7. Staged(p)' BY <1>4, <2>4, <2>6 DEF Staged
  <2>8. Performed(p)' BY <1>4, <2>4, <2>6 DEF Performed
  <2>9. Evidence(p)' BY <2>4 DEF Evidence
  <2>10. SourcesTrue(p)' /\ NewForResend(p)'
    <3> DEFINE new == [tok |-> c, cached |-> TRUE, accepted |-> FALSE]
    <3>1. new.cached /\ ~new.accepted OBVIOUS
    <3>2. \/ UNCHANGED mem
          \/ mem' = [mem EXCEPT ![p][k] = new]
          \/ mem' = [mem EXCEPT ![p][k] = None]
      BY <1>4 DEF Token
    <3> HIDE DEF new, c, k
    <3>3. \A j \in Profiles : mem'[p][j] = mem[p][j] \/ mem'[p][j] = None \/ mem'[p][j] = new
      BY <2>1, <3>2 DEF TypeOK
    <3>4. SourcesTrue(p)' BY <1>1, <2>2, <3>1, <3>3 DEF SourcesTrue, ghosts
    <3>5. Again(p)' => Again(p)
      BY <1>4, <2>3, <2>6
    <3>6. NewForResend(p)' BY <1>1, <2>1, <2>2, <3>1, <3>3, <3>5 DEF NewForResend, k
    <3> QED BY <3>4, <3>6
  <2> QED BY <2>7, <2>8, <2>9, <2>10 DEF CallOK
<1>5. ASSUME NEW from, NEW send, Login(p, from, send),
             <<from, send>> \in {<<"login", "send">>, <<"relogin", "resend">>}
      PROVE  CallOK(p)'
  <2>1. UNCHANGED <<use, write, first, fresh, took, performed>> /\ pc[p] = from
    BY <1>5 DEF Login
  <2>2. Phase(p) = from BY <1>5, <2>1 DEF Phase
  <2>3. /\ fresh'[p] = "none"
        /\ from = "login" => first'[p] = None
        /\ from = "relogin" => first'[p] # None
        /\ write'[p] => performed'[p] = 0
    BY <1>1, <1>5, <2>1, <2>2 DEF Staged, Performed
  <2>4. CASE /\ issued < MaxTokens /\ Mint(p, use[p], issued + 1)
             /\ tok' = [tok EXCEPT ![p] = issued + 1]
             /\ back' = [back EXCEPT ![p] = send] /\ Goto(p, "w_read")
    <3>1. use[p] \in Profiles BY DEF TypeOK
    <3>2. issued + 1 \in Tokens BY <2>4, <3>1, MintType
    <3>3. Phase(p)' = send /\ tok'[p] = issued + 1 BY <2>4 DEF Phase, TypeOK
    <3>4. tok'[p] # None BY <3>2, <3>3, Sentinels
    <3>5. SourcesTrue(p)' BY <1>1, <2>1, <2>4, <3>1, MintTrue
    <3>6. first[p] # issued + 1
      BY <1>1, <3>2, Sentinels DEF IssuedIn, Issued, Tokens, TypeOK
    <3>7. mem'[p][use[p]].tok = issued + 1 BY <2>4, <3>1 DEF Mint, TypeOK
    <3>8. NewForResend(p)' BY <2>1, <3>6, <3>7 DEF NewForResend
    <3> QED BY <1>5, <2>3, <3>3, <3>4, <3>5, <3>8 DEF CallOK, Staged, Performed, Evidence
  <2>5. CASE Ends(p, "error") /\ UNCHANGED <<mem, tok, back, obtained>>
    <3>1. Phase(p)' = "idle" BY <2>5 DEF Ends, Phase, TypeOK
    <3> QED BY <1>1, <2>1, <2>3, <2>5, <3>1
       DEF CallOK, Staged, Performed, SourcesTrue, NewForResend, Evidence
  <2> QED BY <1>5, <2>4, <2>5 DEF Login
<1>6. ASSUME NEW a, Send(p, a) PROVE CallOK(p)'
  <2>1. pc[p] = "send" /\ UNCHANGED <<use, write, tok, first, back, resent, fresh, obtained>> /\ Sent(p, a)
    BY <1>6 DEF Send
  <2>2. Phase(p) = "send" BY <2>1 DEF Phase
  <2>3. /\ SourcesTrue(p)' /\ performed'[p] \in {performed[p], performed[p] + 1}
        /\ a = "401" => performed'[p] = performed[p]
    BY <1>1, <2>1, SentTrue
  <2>4. (Phase(p)' = "refused" /\ answer'[p] = a) \/ Phase(p)' = "idle"
    BY <1>6 DEF Send, Ends, Phase, TypeOK
  <2>5. tok'[p] # None /\ first'[p] = None /\ fresh'[p] = "none" /\ (write'[p] => performed[p] = 0)
    BY <1>1, <2>1, <2>2 DEF Staged, Performed
  <2> QED BY <2>3, <2>4, <2>5 DEF CallOK, Staged, Performed, NewForResend, Evidence
<1>7. ASSUME NEW a, Resend(p, a) PROVE CallOK(p)'
  <2>1. pc[p] = "resend" /\ UNCHANGED <<use, write, tok, first, back, obtained>> /\ Sent(p, a)
    BY <1>7 DEF Resend
  <2>2. Phase(p) = "resend" BY <2>1 DEF Phase
  <2>3. SourcesTrue(p)' /\ performed'[p] \in {performed[p], performed[p] + 1}
    BY <1>1, <2>1, SentTrue
  <2>4. Phase(p)' = "idle" BY <1>7 DEF Resend, Ends, Phase, TypeOK
  <2>5. first[p] # None /\ fresh[p] = "none" /\ (write'[p] => performed[p] = 0)
    BY <1>1, <2>1, <2>2 DEF Staged, Performed
  <2>6. fresh'[p] = "none" \/ (fresh'[p] = "relogin" /\ Minted(p, mem[p][use[p]]))
    BY <1>7, <2>5 DEF Resend, TypeOK
  <2>7. Evidence(p)'
    <3>1. CASE fresh'[p] = "none" BY <3>1 DEF Evidence
    <3>2. CASE fresh'[p] = "relogin" /\ Minted(p, mem[p][use[p]])
      <4>1. use[p] \in Profiles BY DEF TypeOK
      <4>2. tok[p] \in obtained[p] BY <1>1, <3>2, <4>1 DEF Minted, SourcesTrue
      <4>3. tok[p] # first[p] BY <1>1, <2>2, <3>2 DEF Minted, NewForResend
      <4> QED BY <2>1, <2>5, <3>2, <4>2, <4>3 DEF Evidence
    <3> QED BY <2>6, <3>1, <3>2
  <2> QED BY <2>3, <2>4, <2>5, <2>7 DEF CallOK, Staged, Performed, NewForResend
<1>8. CASE Refused(p)
  <2> DEFINE k == use[p]  h == mem[p][k]  again == UntriedCached(p) \/ ~write[p]
  <2>1. /\ pc[p] = "refused"
        /\ UNCHANGED <<use, write, tok, answer, obtained, took, performed>>
    BY <1>8 DEF Refused
  <2>2. Phase(p) = "refused" BY <2>1 DEF Phase
  <2>3. /\ mem' = [mem EXCEPT ![p][k] = None] /\ first' = [first EXCEPT ![p] = tok[p]]
        /\ back' = [back EXCEPT ![p] = IF again THEN "again" ELSE "idle"]
        /\ pc' = [pc EXCEPT ![p] = "d_read"]
    BY <1>8 DEF Refused, Invalidated
  <2>4. Phase(p)' = IF again THEN "again" ELSE "idle" BY <2>3 DEF Phase, TypeOK
  <2>5. first'[p] = tok[p] /\ tok[p] # None BY <1>1, <2>2, <2>3 DEF Staged, TypeOK
  <2>6. k \in Profiles /\ mem'[p][k] = None BY <2>3 DEF TypeOK
  <2>7. \A j \in Profiles : mem'[p][j] = mem[p][j] \/ mem'[p][j] = None BY <2>3 DEF TypeOK
  <2>8. SourcesTrue(p)' BY <1>1, <2>1, <2>7 DEF SourcesTrue, ghosts
  <2>9. NewForResend(p)' BY <2>1, <2>6 DEF NewForResend
  <2>10. Performed(p)'
    <3>1. again /\ write[p] => performed[p] = 0
      BY <1>1, <2>2 DEF Performed, UntriedCached
    <3>2. write[p] => performed[p] <= 1 BY <1>1 DEF Performed
    <3> QED BY <2>1, <2>4, <3>1, <3>2 DEF Performed, ghosts
  <2>11. \/ fresh'[p] = "none"
         \/ fresh'[p] = "accepted" /\ ~again /\ TookIt(h, tok[p])
         \/ fresh'[p] = "minted" /\ ~again /\ Minted(p, h)
    BY <1>8 DEF Refused, TypeOK
  <2>12. Evidence(p)'
    <3>1. TookIt(h, tok[p]) => tok[p] \in took[p] BY <1>1, <2>6 DEF TookIt, SourcesTrue
    <3>2. Minted(p, h) => tok[p] \in obtained[p] BY <1>1, <2>6 DEF Minted, SourcesTrue
    <3> QED BY <2>1, <2>5, <2>11, <3>1, <3>2 DEF Evidence, ghosts
  <2>13. Staged(p)'
    <3>1. again => fresh'[p] = "none" BY <2>11
    <3> QED BY <2>4, <2>5, <3>1 DEF Staged
  <2> QED BY <2>8, <2>9, <2>10, <2>12, <2>13 DEF CallOK
<1>9. CASE WriteRead(p) \/ DropRead(p) \/ CacheOpen(p) \/ CacheFill(p) \/ CacheRename(p)
  <2>1. /\ Phase(p)' = Phase(p)
        /\ UNCHANGED <<backend, mem, use, write, tok, first, back, resent, fresh, answer, ghosts>>
    BY <1>9, FileStep
  <2> QED BY <1>1, <2>1 DEF CallOK, Staged, Performed, SourcesTrue, NewForResend, Evidence, ghosts
<1>10. CASE FirstToken(p) \/ NextToken(p) BY <1>4, <1>10 DEF FirstToken, NextToken
<1>11. CASE FirstLogin(p) \/ NextLogin(p) BY <1>5, <1>11 DEF FirstLogin, NextLogin
<1> QED BY <1>2, <1>3, <1>6, <1>7, <1>8, <1>9, <1>10, <1>11 DEF Call

\* What each call promises depends on nothing that another process, the
\* backend or a restart of another changes; a restart leaves nothing to promise.
LEMMA CallsStep ==
  ASSUME TypeOK, OnlyIssued, \A p \in Procs : CallOK(p), [Next]_vars
  PROVE  \A p \in Procs : CallOK(p)'
<1>1. ASSUME NEW p \in Procs, UNCHANGED Own(p) PROVE CallOK(p)'
  <2>1. CallOK(p) OBVIOUS
  <2> QED BY <1>1, <2>1 DEF Own, CallOK, Staged, Performed, SourcesTrue, NewForResend, Evidence,
        Unsent, Again, Phase
<1>2. ASSUME NEW t \in Tokens, Revoke(t) \/ Older(t), NEW p \in Procs PROVE CallOK(p)'
  BY <1>1, <1>2 DEF Revoke, Older, Own, call, ghosts
<1>3. ASSUME NEW q \in Procs, Call(q), NEW p \in Procs PROVE CallOK(p)'
  BY <1>1, <1>3, OthersKeep, CallStep
<1>4. ASSUME NEW q \in Procs, Restart(q), NEW p \in Procs PROVE CallOK(p)'
  <2>1. CASE p = q
    <3>1. /\ pc'[p] = "idle" /\ performed'[p] = 0 /\ fresh'[p] = "none"
          /\ \A k \in Profiles : mem'[p][k] = None
      BY <1>4, <2>1 DEF Restart, Goto, TypeOK
    <3> QED BY <3>1 DEF CallOK, Staged, Performed, SourcesTrue, NewForResend, Evidence,
          Unsent, Again, Phase, FileSteps
  <2> QED BY <1>1, <1>4, <2>1, OthersKeep
<1>5. CASE UNCHANGED vars
  BY <1>1, <1>5 DEF vars, Own, call, ghosts
<1> QED BY <1>2, <1>3, <1>4, <1>5 DEF Next

\* At the start nothing is held, called or noted.
LEMMA InitInv == Init => IInv
<1> SUFFICES ASSUME Init PROVE IInv OBVIOUS
<1>1. TypeOK BY InitType
<1>2. OnlyIssued BY DEF Init, OnlyIssued, IssuedIn, Issued, Readable, NoEntries
<1>3. ASSUME NEW p \in Procs PROVE CallOK(p)
  BY DEF Init, CallOK, Staged, Performed, SourcesTrue, NewForResend, Evidence,
     Unsent, Again, Phase, FileSteps
<1> QED BY <1>1, <1>2, <1>3 DEF IInv

\* The inductive invariant is one.
LEMMA InvStep ==
  ASSUME IInv, [Next]_vars
  PROVE  IInv'
  BY TypeStep, IssuedStep, CallsStep DEF IInv

\* What each call promises holds in every state.
LEMMA InvHolds == Spec => []IInv
<1> QED BY InitInv, InvStep, PTL DEF Spec

\* A call that may not be re-sent is performed at most once: the re-send that
\* it is given after a 401 (tokenrefusal.go) is of a call the backend did not
\* perform, whatever other processes do to the cache file meanwhile.
THEOREM PerformedOnce == Spec => []WritesOnce
<1>1. IInv => WritesOnce BY DEF IInv, CallOK, Performed, WritesOnce
<1> QED BY InvHolds, <1>1, PTL

\* "accepted", "minted" and "relogin" are said of a refused token only when
\* they are true of this process.
THEOREM RefusalEvidence == Spec => []EvidenceTrue
<1>1. IInv => EvidenceTrue BY DEF IInv, CallOK, Evidence, EvidenceTrue
<1> QED BY InvHolds, <1>1, PTL

(***************************************************************************)
(* A process that has the cache file to itself                             *)
(***************************************************************************)
\* Every step of the process keeps the dropped tokens out of what it holds and of
\* what it is about to send or write.
LEMMA ForgetsCall ==
  ASSUME TypeOK, OnlyIssued, NEW p \in Procs, CallOK(p), Forgets(p), Call(p), issued <= issued', issued' \in Nat
  PROVE  Forgets(p)'
<1> USE DEF At, Goto, FileSteps, Dropping, Phase, Out
<1>1. /\ use[p] \in Profiles /\ Staged(p) /\ IssuedIn(p) /\ issued \in Nat
      /\ pc[p] \in Labels /\ back[p] \in {"idle", "send", "resend", "again"}
  BY Sentinels DEF CallOK, OnlyIssued, TypeOK
<1>2. Writing(p) /\ DroppedOut(p) BY DEF Forgets
<1>n. \A k : Out(p, k, None)
  BY <1>2, Sentinels DEF DroppedOut
<1>i. UNCHANGED dropped => \A d \in dropped'[p] : d[2] \in 1 .. issued'
  BY <1>1, <1>2 DEF DroppedOut
<1>f. Readable(cache) /\ pc[p] \notin FileSteps => \A k \in Profiles : Out(p, k, cache[k])
  BY <1>2 DEF DroppedOut
<1>s. ASSUME pc'[p] \notin FileSteps PROVE Writing(p)'
  BY <1>s DEF Writing
<1>3. ASSUME NEW k \in Profiles, NEW w \in BOOLEAN, Start(p, k, w) PROVE Forgets(p)'
  <2>1. pc[p] = "idle" /\ pc'[p] = "token" /\ UNCHANGED <<mem, file, dropped>>
    BY <1>3 DEF Start, TypeOK, ghosts
  <2>2. DroppedOut(p)' BY <1>2, <1>i, <1>f, <2>1 DEF DroppedOut, file, Readable
  <2> QED BY <1>s, <2>1, <2>2 DEF Forgets
\* The token of a login is new, so it was not dropped.
<1>m. ASSUME NEW k \in Profiles, Mint(p, k, issued + 1), issued < MaxTokens, UNCHANGED dropped
      PROVE  /\ Out(p, k, issued + 1)
             /\ \A j \in Profiles : mem'[p][j] # None => Out(p, j, mem'[p][j].tok)
  <2>1. issued + 1 \notin 1 .. issued BY <1>1
  <2>2. Out(p, k, issued + 1) BY <1>2, <2>1 DEF DroppedOut
  <2> DEFINE new == [tok |-> issued + 1, cached |-> FALSE, accepted |-> FALSE]
  <2>3. new.tok = issued + 1 /\ mem' = [mem EXCEPT ![p][k] = new] BY <1>m DEF Mint
  <2> HIDE DEF new
  <2>4. \A j \in Profiles : mem'[p][j] = IF j = k THEN new ELSE mem[p][j] BY <2>3 DEF TypeOK
  <2> QED BY <1>2, <2>2, <2>3, <2>4 DEF DroppedOut
<1>4. ASSUME NEW k \in Profiles, Seed(p, k) PROVE Forgets(p)'
  <2>1. /\ pc[p] = "idle" /\ UNCHANGED <<call, file, dropped>> /\ Mint(p, k, issued + 1) /\ issued < MaxTokens
    BY <1>4 DEF Seed
  <2>2. \A j \in Profiles : mem'[p][j] # None => Out(p, j, mem'[p][j].tok) BY <1>m, <2>1
  <2>3. DroppedOut(p)' BY <1>i, <1>f, <2>1, <2>2 DEF DroppedOut, call, file, Readable
  <2> QED BY <1>s, <2>1, <2>3 DEF Forgets, call
<1>5. ASSUME NEW from \in {"token", "again"}, NEW send \in {"send", "resend"}, NEW login \in {"login", "relogin"},
             Token(p, from, send, login)
      PROVE  Forgets(p)'
  <2> DEFINE k == use[p]  h == mem[p][k]  c == Cached(k)
             held == h # None /\ ~Stale(k, h.tok)
             read == c # None /\ ~Stale(k, c)
  <2>1. pc[p] = from /\ UNCHANGED <<file, use, snap, back, dropped>> BY <1>5 DEF Token, ghosts
  <2>2. Out(p, k, c) BY <1>1, <1>n, <1>f, <2>1 DEF Cached
  <2>3. /\ pc'[p] \in {send, login}
        /\ pc'[p] = send => Out(p, k, tok'[p])
        /\ \A j \in Profiles : mem'[p][j] # None => Out(p, j, mem'[p][j].tok)
    <3>1. CASE held
      <4>1. tok' = [tok EXCEPT ![p] = h.tok] /\ pc' = [pc EXCEPT ![p] = send] /\ UNCHANGED mem
        BY <1>5, <3>1 DEF Token
      <4>2. Out(p, k, h.tok) BY <1>1, <1>2, <3>1 DEF DroppedOut
      <4> HIDE DEF h
      <4> QED BY <1>2, <4>1, <4>2 DEF TypeOK, DroppedOut
    <3>2. CASE ~held /\ read
      <4> DEFINE new == [tok |-> c, cached |-> TRUE, accepted |-> FALSE]
      <4>1. /\ mem' = [mem EXCEPT ![p][k] = new]
            /\ tok' = [tok EXCEPT ![p] = c] /\ pc' = [pc EXCEPT ![p] = send]
        BY <1>5, <3>2 DEF Token
      <4>2. new.tok = c OBVIOUS
      <4> HIDE DEF new, c
      <4>3. \A j \in Profiles : mem'[p][j] = IF j = k THEN new ELSE mem[p][j] BY <1>1, <4>1 DEF TypeOK
      <4> QED BY <1>2, <2>2, <4>1, <4>2, <4>3 DEF TypeOK, DroppedOut
    <3>3. CASE ~held /\ ~read
      <4>1. /\ mem' = IF c = None THEN mem ELSE [mem EXCEPT ![p][k] = None]
            /\ pc' = [pc EXCEPT ![p] = login]
        BY <1>5, <3>3 DEF Token
      <4> HIDE DEF c
      <4>2. \A j \in Profiles : mem'[p][j] = mem[p][j] \/ mem'[p][j] = None BY <1>1, <4>1 DEF TypeOK
      <4>3. login # send OBVIOUS
      <4> QED BY <1>2, <4>1, <4>2, <4>3 DEF TypeOK, DroppedOut
    <3> QED BY <3>1, <3>2, <3>3
  <2>4. DroppedOut(p)' BY <1>i, <1>f, <2>1, <2>3 DEF DroppedOut, file, Readable
  <2> QED BY <1>s, <2>3, <2>4 DEF Forgets
<1>6. ASSUME NEW from \in {"login", "relogin"}, NEW send \in {"send", "resend"}, Login(p, from, send)
      PROVE  Forgets(p)'
  <2>1. pc[p] = from /\ UNCHANGED <<file, use, snap, dropped>> BY <1>6 DEF Login
  <2>2. CASE /\ issued < MaxTokens /\ Mint(p, use[p], issued + 1)
             /\ tok' = [tok EXCEPT ![p] = issued + 1]
             /\ back' = [back EXCEPT ![p] = send] /\ Goto(p, "w_read")
    <3>1. /\ Out(p, use[p], issued + 1)
          /\ \A j \in Profiles : mem'[p][j] # None => Out(p, j, mem'[p][j].tok)
      BY <1>1, <1>m, <2>1, <2>2
    <3>2. tok'[p] = issued + 1 /\ back'[p] = send /\ pc'[p] = "w_read" BY <2>2 DEF TypeOK
    <3>3. DroppedOut(p)' BY <1>i, <1>f, <2>1, <3>1, <3>2 DEF DroppedOut, file, Readable
    <3> QED BY <3>2, <3>3 DEF Forgets, Writing
  <2>3. CASE Ends(p, "error") /\ UNCHANGED <<mem, tok, back>>
    <3>1. pc'[p] = "idle" BY <2>3 DEF Ends, TypeOK
    <3>2. DroppedOut(p)' BY <1>2, <1>i, <1>f, <2>1, <2>3, <3>1 DEF DroppedOut, file, Readable
    <3> QED BY <1>s, <3>1, <3>2 DEF Forgets
  <2> QED BY <1>6, <2>2, <2>3 DEF Login
<1>7. ASSUME NEW a, Send(p, a) \/ Resend(p, a) PROVE Forgets(p)'
  <2>1. pc[p] \in {"send", "resend"} /\ UNCHANGED <<file, use, tok, snap, back, obtained, dropped>> /\ Sent(p, a)
    BY <1>7 DEF Send, Resend
  <2>2. pc'[p] \in {"idle", "refused"} BY <1>7 DEF Send, Resend, Ends, TypeOK
  <2>3. \A k \in Profiles : mem'[p][k] # None => mem[p][k] # None /\ mem'[p][k].tok = mem[p][k].tok
    BY <1>1, <2>1, SentTrue DEF CallOK
  <2>4. DroppedOut(p)' BY <1>2, <1>i, <1>f, <2>1, <2>2, <2>3 DEF DroppedOut, file, Readable
  <2> QED BY <1>s, <2>2, <2>4 DEF Forgets
<1>8. CASE Refused(p)
  <2> DEFINE again == UntriedCached(p) \/ ~write[p]
  <2>1. /\ mem' = [mem EXCEPT ![p][use[p]] = None]
        /\ dropped' = [dropped EXCEPT ![p] = @ \cup {<<use[p], tok[p]>>}]
        /\ back' = [back EXCEPT ![p] = IF again THEN "again" ELSE "idle"]
        /\ pc' = [pc EXCEPT ![p] = "d_read"] /\ pc[p] = "refused" /\ UNCHANGED <<use, file, issued>>
    BY <1>8 DEF Refused, Invalidated, backend
  <2>2. back'[p] \in {"again", "idle"} /\ pc'[p] = "d_read" /\ mem'[p][use[p]] = None
    BY <1>1, <2>1 DEF TypeOK
  <2>3. \A k \in Profiles : k # use[p] => mem'[p][k] = mem[p][k]
    BY <2>1 DEF TypeOK
  <2>4. dropped'[p] = dropped[p] \cup {<<use[p], tok[p]>>}
    BY <2>1 DEF TypeOK
  <2>5. tok[p] \in 1 .. issued
    BY <1>1, <2>1 DEF Staged, IssuedIn, Issued
  <2>6. \A d \in dropped'[p] : d[2] \in 1 .. issued'
    BY <1>2, <2>1, <2>4, <2>5 DEF DroppedOut
  <2>7. \A k \in Profiles : \A t : k # use[p] /\ Out(p, k, t) => <<k, t>> \notin dropped'[p]
    BY <2>4
  <2>8. DroppedOut(p)'
    BY <1>2, <1>f, <2>1, <2>2, <2>3, <2>6, <2>7 DEF DroppedOut, file, Readable
  <2> QED BY <2>2, <2>8 DEF Forgets, Writing
<1>9. CASE WriteRead(p)
  <2> DEFINE e == IF Readable(cache) THEN cache ELSE NoEntries
             s == [k \in Profiles |-> IF k = use[p] THEN tok[p]
                     ELSE IF e[k] # None /\ k \notin NoExpiry /\ age[e[k]] = "expired"
                     THEN None ELSE e[k]]
  <2>1. pc[p] = "w_read" /\ pc'[p] = "c_open" /\ UNCHANGED <<file, mem, use, tok, back, dropped>>
    BY <1>9 DEF WriteRead, TypeOK, ghosts
  <2>2. back[p] \in {"send", "resend"} BY <1>2, <2>1 DEF Writing
  <2>3. Out(p, use[p], tok[p]) BY <1>2, <2>1, <2>2 DEF DroppedOut
  <2>4. Readable(cache) => \A k \in Profiles : Out(p, k, cache[k])
    BY <1>2, <2>2 DEF DroppedOut
  <2>5. \A k \in Profiles : Out(p, k, s[k])
    BY <1>n, <2>3, <2>4 DEF NoEntries
  <2>6. snap' = [snap EXCEPT ![p] = s] BY <1>9 DEF WriteRead
  <2> HIDE DEF s
  <2>7. snap'[p] = s BY <2>6 DEF TypeOK
  <2>8. DroppedOut(p)' BY <1>2, <1>i, <2>1, <2>2, <2>3, <2>4, <2>5, <2>7 DEF DroppedOut, file, Readable
  <2> QED BY <2>1, <2>8 DEF Forgets, Writing
<1>10. CASE DropRead(p)
  <2>1. pc[p] = "d_read" /\ UNCHANGED <<file, mem, use, tok, back, dropped>> BY <1>10 DEF DropRead, ghosts
  <2>2. back[p] \in {"again", "idle"} BY <1>2, <2>1 DEF Writing
  <2>3. CASE Readable(cache) /\ cache[use[p]] # None
    <3>1. pc'[p] = "c_open" /\ snap'[p] = [cache EXCEPT ![use[p]] = None]
      BY <1>10, <2>3 DEF DropRead, TypeOK
    <3>2. cache \in [Profiles -> Tokens \cup {None}]
      BY <2>3 DEF TypeOK, File, Entries, Readable
    <3>3. \A k \in Profiles : Out(p, k, snap'[p][k])
      BY <1>n, <1>2, <2>3, <3>1, <3>2 DEF DroppedOut
    <3>4. DroppedOut(p)' BY <1>2, <1>i, <2>1, <2>2, <3>1, <3>3 DEF DroppedOut, file, Readable
    <3> QED BY <3>1, <3>4 DEF Forgets, Writing
  <2>4. CASE ~(Readable(cache) /\ cache[use[p]] # None)
    <3>1. pc'[p] = back[p] BY <1>10, <2>4 DEF DropRead, TypeOK
    <3>2. Readable(cache) => \A k \in Profiles : Out(p, k, cache[k])
      BY <1>n, <1>2, <2>4 DEF DroppedOut
    <3>3. DroppedOut(p)' BY <1>2, <1>i, <2>1, <2>2, <3>1, <3>2 DEF DroppedOut, file, Readable
    <3> QED BY <1>s, <2>2, <3>1, <3>3 DEF Forgets
  <2> QED BY <2>3, <2>4
<1>11. CASE CacheOpen(p)
  <2>1. /\ pc[p] = "c_open" /\ pc'[p] = "c_fill" /\ tmp' = NoEntries /\ fd'[p] = "tmp"
        /\ UNCHANGED <<cache, mem, use, tok, snap, back, dropped>>
    BY <1>11 DEF CacheOpen, Shared, TypeOK, ghosts
  <2>2. DroppedOut(p)' BY <1>2, <1>i, <2>1 DEF DroppedOut, Readable
  <2> QED BY <2>1, <2>2 DEF Forgets, Writing
<1>12. CASE CacheFill(p)
  <2>1. pc[p] = "c_fill" /\ pc'[p] = "c_rename" /\ UNCHANGED <<mem, use, tok, snap, back, dropped>>
    BY <1>12 DEF CacheFill, Shared, TypeOK, ghosts
  <2>2. tmp = NoEntries /\ fd[p] = "tmp" BY <1>2, <2>1 DEF Writing
  <2>3. tmp' = snap[p] /\ UNCHANGED cache BY <1>12, <2>2 DEF CacheFill, Filled
  <2>4. DroppedOut(p)' BY <1>2, <1>i, <2>1, <2>3 DEF DroppedOut, Readable
  <2> QED BY <2>1, <2>3, <2>4 DEF Forgets, Writing
<1>13. CASE CacheRename(p)
  <2>1. pc[p] = "c_rename" /\ pc'[p] = back[p] /\ UNCHANGED <<mem, use, tok, snap, back, dropped>>
    BY <1>13 DEF CacheRename, Shared, TypeOK, ghosts
  <2>2. tmp = snap[p] BY <1>2, <2>1 DEF Writing
  <2>3. tmp # None BY <2>2, Sentinels DEF TypeOK
  <2>4. cache' = snap[p] BY <1>13, <2>2, <2>3 DEF CacheRename
  <2>5. \A k \in Profiles : Out(p, k, snap[p][k]) BY <1>2, <2>1 DEF DroppedOut
  <2>6. DroppedOut(p)' BY <1>1, <1>2, <1>i, <2>1, <2>4, <2>5 DEF DroppedOut
  <2> QED BY <1>1, <1>s, <2>1, <2>6 DEF Forgets
<1>14. CASE FirstToken(p) \/ NextToken(p) BY <1>5, <1>14 DEF FirstToken, NextToken
<1>15. CASE FirstLogin(p) \/ NextLogin(p) BY <1>6, <1>15 DEF FirstLogin, NextLogin
<1> QED BY <1>3, <1>4, <1>7, <1>8, <1>9, <1>10, <1>11, <1>12, <1>13, <1>14, <1>15 DEF Call

\* Nobody else is there to disturb it, and the next process has dropped nothing.
LEMMA ForgetsStep ==
  ASSUME Alone, IInv, \A p \in Procs : Forgets(p), [Next]_vars
  PROVE  \A p \in Procs : Forgets(p)'
<1> SUFFICES ASSUME NEW p \in Procs PROVE Forgets(p)' OBVIOUS
<1>1. TypeOK /\ OnlyIssued /\ CallOK(p) /\ Forgets(p) BY DEF IInv
<1> USE DEF Forgets, Writing, DroppedOut, Dropping, Out, Phase, Readable
<1>2. ASSUME NEW t \in Tokens, Revoke(t) \/ Older(t) PROVE Forgets(p)'
  BY <1>1, <1>2 DEF Revoke, Older, file, call, ghosts
<1>3. ASSUME NEW q \in Procs, Call(q) PROVE Forgets(p)'
  <2>1. q = p BY DEF Alone
  <2>2. issued' \in Nat /\ issued <= issued' BY <1>1, IssuedGrows
  <2> HIDE DEF Forgets
  <2> QED BY <1>1, <1>3, <2>1, <2>2, ForgetsCall
<1>4. ASSUME NEW q \in Procs, Restart(q) PROVE Forgets(p)'
  <2>1. q = p BY DEF Alone
  <2>2. pc'[p] = "idle" /\ dropped'[p] = {} BY <1>1, <1>4, <2>1 DEF Restart, Goto, TypeOK
  <2> QED BY <2>2 DEF FileSteps
<1>5. CASE UNCHANGED vars
  BY <1>1, <1>5 DEF vars, backend, file, call, ghosts
<1> QED BY <1>2, <1>3, <1>4, <1>5 DEF Next

\* A process that has the cache file to itself never sends a token again that was
\* refused and invalidated, and hands none on in the file when a call is over,
\* through re-sends, logins and kills at any step.  With a second process this is
\* false: that one may write back the entries it read before the token was dropped.
THEOREM RefusedIsForgotten ==
  ASSUME Alone
  PROVE  Spec => []RefusedForgotten
<1>1. Init => \A p \in Procs : Forgets(p)
  BY DEF Init, Forgets, Writing, DroppedOut, Dropping, Out, Phase, FileSteps
<1>2. (\A p \in Procs : Forgets(p)) /\ IInv /\ [Next]_vars => (\A p \in Procs : Forgets(p))'
  BY ForgetsStep
<1>3. (\A p \in Procs : Forgets(p)) => RefusedForgotten
  BY DEF Forgets, DroppedOut, Out, Phase, RefusedForgotten, At, Dropping, FileSteps
<1> QED BY InvHolds, <1>1, <1>2, <1>3, PTL DEF Spec
=============================================================================
