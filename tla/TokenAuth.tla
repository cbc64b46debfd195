----------------------------- MODULE TokenAuth -----------------------------
(***************************************************************************)
(* How a call gets its token and what is done when the token is refused:   *)
(* LoginTokenSource and WithAuthRouter of package transport, for several   *)
(* shrt processes that share one token cache file.  A process makes one    *)
(* call at a time; its source of a profile is its memory, behind it the    *)
(* entry of the profile in the file, behind it a login.  The file is read, *)
(* changed and written back through one .tmp file and a rename, without a  *)
(* lock.  The backend may end a session at any time.                       *)
(***************************************************************************)
EXTENDS Integers, FiniteSets

CONSTANTS Procs,      \* shrt processes
          Profiles,   \* auth profiles: one entry of the cache file each
          Uses,       \* Uses[p]: the profiles that the calls of p run as
          NoExpiry,   \* profiles whose login states no expiry
          MaxTokens,  \* bound: tokens the backend issues
          MaxCalls,   \* bound: calls of a process
          MaxRestarts, \* bound: processes that end and are started again
          None, Torn

ASSUME BoundsAssumption == {MaxTokens, MaxCalls, MaxRestarts} \subseteq Nat
ASSUME UsesAssumption == Uses \in [Procs -> SUBSET Profiles] /\ NoExpiry \subseteq Profiles

Tokens == 1..MaxTokens
ASSUME SentinelAssumption ==
  /\ None # Torn /\ {None, Torn} \cap (Nat \cup Profiles) = {}
  /\ None \notin [Profiles -> Tokens \cup {None}] /\ Torn \notin [Profiles -> Tokens \cup {None}]

VARIABLES
  issued,    \* tokens issued so far: 1..issued
  live,      \* tokens the backend accepts
  age,       \* age[t]: "fresh", "late" (within the leeway of its stated expiry), "expired"
  cache,     \* the cache file: a token per profile; None is no file, Torn is no JSON
  tmp,       \* the .tmp file next to it
  fd,        \* fd[p]: where the file that p opened for writing is by now
  mem,       \* mem[p][k]: what the source of k in p holds, None when it holds no token
  pc, use, write,   \* the call of each process: its step, its profile, not re-sendable
  tok,       \* tok[p]: the token last put in the header
  first,     \* first[p]: the token refused before the re-send, None before that
  snap, back,       \* the entries to write back to the file, and the step after that
  resent, fresh,    \* what is noted on the call: auth_retry, auth_refused_fresh
  answer,           \* how the last finished call was answered
  obtained, took,   \* history: tokens each process got by a login, had accepted
  dropped,   \* history: <<profile, token>> that each process invalidated
  performed, calls, \* history: how often the backend performed the call; calls made
  restarts

file == <<cache, tmp, fd>>
call == <<pc, use, write, tok, first, snap, back, resent, fresh, answer>>
backend == <<issued, live, age>>
ghosts == <<obtained, took, dropped, performed, calls, restarts>>
vars == <<backend, file, mem, call, ghosts>>

Held == [tok : Tokens, cached : BOOLEAN, accepted : BOOLEAN]
Entries == [Profiles -> Tokens \cup {None}]
NoEntries == [k \in Profiles |-> None]

Labels == {"idle", "token", "login", "send", "refused", "again", "relogin", "resend",
           "w_read", "d_read", "c_open", "c_fill", "c_rename"}

Init ==
  /\ issued = 0 /\ live = {} /\ age = [t \in Tokens |-> "fresh"]
  /\ cache = None /\ tmp = None /\ fd = [p \in Procs |-> "none"]
  /\ mem = [p \in Procs |-> [k \in Profiles |-> None]]
  /\ pc = [p \in Procs |-> "idle"]
  /\ use \in [Procs -> Profiles] /\ write = [p \in Procs |-> FALSE]
  /\ tok = [p \in Procs |-> None] /\ first = [p \in Procs |-> None]
  /\ snap = [p \in Procs |-> NoEntries] /\ back = [p \in Procs |-> "idle"]
  /\ resent = [p \in Procs |-> "no"] /\ fresh = [p \in Procs |-> "none"]
  /\ answer = [p \in Procs |-> "none"]
  /\ obtained = [p \in Procs |-> {}] /\ took = [p \in Procs |-> {}]
  /\ dropped = [p \in Procs |-> {}]
  /\ performed = [p \in Procs |-> 0] /\ calls = [p \in Procs |-> 0] /\ restarts = 0

At(p, l) == pc[p] = l
Goto(p, l) == pc' = [pc EXCEPT ![p] = l]
Readable(f) == f \notin {None, Torn}

(***************************************************************************)
(* The backend                                                             *)
(***************************************************************************)
\* A session ends: it expires, is replaced, or the backend restarts.
Revoke(t) == t \in live /\ live' = live \ {t} /\ UNCHANGED <<issued, age, file, mem, call, ghosts>>

\* Time passes the stated expiry of t less the leeway, then the expiry.
Older(t) ==
  /\ t <= issued /\ age[t] # "expired"
  /\ age' = [age EXCEPT ![t] = IF @ = "fresh" THEN "late" ELSE "expired"]
  /\ UNCHANGED <<issued, live, file, mem, call, ghosts>>

\* What it answers to a call under token t: 401 is an answer of the layer in
\* front of the handler, "unauth" a refusal in the body or the error code, which
\* a handler may give after it did its work, and "lost" no answer at all.
Answers(t) == {"unauth", "lost"} \cup (IF t \in live THEN {"ok"} ELSE {"401"})
Performs(t, a) == CASE a = "ok"     -> {TRUE}
                    [] a = "401"    -> {FALSE}
                    [] OTHER        -> IF t \in live THEN {TRUE, FALSE} ELSE {FALSE}
Unauthenticated(a) == a \in {"401", "unauth"}

(***************************************************************************)
(* The cache file                                                          *)
(***************************************************************************)
\* readCache: an entry without an expiry is not used.
Cached(k) == IF Readable(cache) /\ k \notin NoExpiry THEN cache[k] ELSE None
Stale(k, t) == k \notin NoExpiry /\ age[t] # "fresh"

\* writeCache starts from the entries on disk, without those of other
\* profiles that expired; a file that is no JSON counts as empty.
WriteRead(p) ==
  /\ At(p, "w_read")
  /\ LET e == IF Readable(cache) THEN cache ELSE NoEntries
         Gone(k) == e[k] # None /\ k \notin NoExpiry /\ age[e[k]] = "expired"
     IN  snap' = [snap EXCEPT ![p] = [k \in Profiles |->
                    IF k = use[p] THEN tok[p] ELSE IF Gone(k) THEN None ELSE e[k]]]
  /\ Goto(p, "c_open")
  /\ UNCHANGED <<backend, file, mem, use, write, tok, first, back, resent, fresh, answer, ghosts>>

\* The entry is looked for and then left in the file.
DropReadSlip(p) ==
  /\ At(p, "d_read") /\ Goto(p, back[p])
  /\ UNCHANGED <<backend, file, mem, use, write, tok, first, snap, back, resent, fresh, answer, ghosts>>

\* dropCache leaves a file that cannot be read, or has no entry, alone.
DropRead(p) ==
  /\ At(p, "d_read")
  /\ IF Readable(cache) /\ cache[use[p]] # None
     THEN /\ snap' = [snap EXCEPT ![p] = [cache EXCEPT ![use[p]] = None]]
          /\ Goto(p, "c_open")
     ELSE /\ Goto(p, back[p])
          /\ UNCHANGED snap
  /\ UNCHANGED <<backend, file, mem, use, write, tok, first, back, resent, fresh, answer, ghosts>>

Shared(p, l) ==
  /\ Goto(p, l)
  /\ UNCHANGED <<backend, mem, use, write, tok, first, snap, back, resent, fresh, answer, ghosts>>

\* What is truncated reads as a file without entries does.
CacheOpen(p) ==
  /\ At(p, "c_open")
  /\ tmp' = NoEntries /\ fd' = [fd EXCEPT ![p] = "tmp"]
  /\ UNCHANGED cache
  /\ Shared(p, "c_fill")

\* A file that another process filled since it was opened may keep a tail of it.
Filled(f, e) == IF f = NoEntries THEN {e} ELSE {e, Torn}

\* The bytes go to the file that was opened, which another process may by now
\* have renamed into place, or replaced there by the next.
CacheFill(p) ==
  /\ At(p, "c_fill")
  /\ \/ fd[p] = "tmp"   /\ tmp' \in Filled(tmp, snap[p]) /\ UNCHANGED cache
     \/ fd[p] = "cache" /\ cache' \in Filled(cache, snap[p]) /\ UNCHANGED tmp
     \/ fd[p] = "gone"  /\ UNCHANGED <<cache, tmp>>
  /\ fd' = [fd EXCEPT ![p] = "none"]
  /\ Shared(p, "c_rename")

Renamed(d) == CASE d = "tmp" -> "cache" [] d = "cache" -> "gone" [] OTHER -> d

CacheRename(p) ==
  /\ At(p, "c_rename")
  /\ IF tmp = None THEN UNCHANGED file
     ELSE cache' = tmp /\ tmp' = None /\ fd' = [q \in Procs |-> Renamed(fd[q])]
  /\ Shared(p, back[p])

(***************************************************************************)
(* A call                                                                  *)
(***************************************************************************)
Start(p, k, w) ==
  /\ At(p, "idle") /\ k \in Uses[p] /\ calls[p] < MaxCalls
  /\ calls' = [calls EXCEPT ![p] = @ + 1]
  /\ performed' = [performed EXCEPT ![p] = 0]
  /\ Goto(p, "token")
  /\ use' = [use EXCEPT ![p] = k] /\ write' = [write EXCEPT ![p] = w]
  /\ tok' = [tok EXCEPT ![p] = None] /\ first' = [first EXCEPT ![p] = None]
  /\ resent' = [resent EXCEPT ![p] = "no"] /\ fresh' = [fresh EXCEPT ![p] = "none"]
  /\ answer' = [answer EXCEPT ![p] = "none"]
  /\ UNCHANGED <<backend, file, mem, snap, back, obtained, took, dropped, restarts>>

\* Token: the one in memory, else the cached one, else a login; neither of the
\* first two when it is stale.
Token(p, from, send, login) ==
  LET k == use[p]
      h == mem[p][k]
      c == Cached(k)
      held == h # None /\ ~Stale(k, h.tok)
      read == c # None /\ ~Stale(k, c)
  IN
  /\ At(p, from)
  /\ \/ /\ held
        /\ tok' = [tok EXCEPT ![p] = h.tok] /\ Goto(p, send)
        /\ UNCHANGED mem
     \/ /\ ~held /\ read
        /\ mem' = [mem EXCEPT ![p][k] = [tok |-> c, cached |-> TRUE, accepted |-> FALSE]]
        /\ tok' = [tok EXCEPT ![p] = c] /\ Goto(p, send)
     \/ /\ ~held /\ ~read
        /\ mem' = IF c = None THEN mem ELSE [mem EXCEPT ![p][k] = None]
        /\ Goto(p, login)
        /\ UNCHANGED tok
  /\ UNCHANGED <<backend, file, use, write, first, snap, back, resent, fresh, answer, ghosts>>

FirstToken(p) == Token(p, "token", "send", "login")
NextToken(p)  == Token(p, "again", "resend", "relogin")

Ends(p, a) == Goto(p, "idle") /\ answer' = [answer EXCEPT ![p] = a]

\* A new token that takes over what was known of the one before.
MintSlip(p, k, t) ==
  /\ issued' = t /\ live' = live \cup {t}
  /\ mem' = [mem EXCEPT ![p][k] =
               [tok |-> t, cached |-> FALSE, accepted |-> @ # None /\ @.accepted]]
  /\ obtained' = [obtained EXCEPT ![p] = @ \cup {t}]

Mint(p, k, t) ==
  /\ issued' = t /\ live' = live \cup {t}
  /\ mem' = [mem EXCEPT ![p][k] = [tok |-> t, cached |-> FALSE, accepted |-> FALSE]]
  /\ obtained' = [obtained EXCEPT ![p] = @ \cup {t}]

\* login answers a token, which is written to the cache file before it is used,
\* or is rejected, which fails the call.
Login(p, from, send) ==
  /\ At(p, from)
  /\ \/ /\ issued < MaxTokens
        /\ Mint(p, use[p], issued + 1)
        /\ tok' = [tok EXCEPT ![p] = issued + 1]
        /\ back' = [back EXCEPT ![p] = send] /\ Goto(p, "w_read")
        /\ UNCHANGED answer
     \/ /\ Ends(p, "error")
        /\ UNCHANGED <<issued, live, mem, tok, back, obtained>>
  /\ UNCHANGED <<age, file, use, write, first, snap, resent, fresh, took, dropped, performed, calls, restarts>>

FirstLogin(p) == Login(p, "login", "send")
NextLogin(p)  == Login(p, "relogin", "resend")

\* The answer of the backend, and Accepted when there is one and it is no refusal.
Sent(p, a) ==
  /\ a \in Answers(tok[p])
  /\ \E done \in Performs(tok[p], a) :
        performed' = [performed EXCEPT ![p] = IF done THEN @ + 1 ELSE @]
  /\ LET k == use[p] IN
     IF a = "ok" /\ mem[p][k] # None /\ mem[p][k].tok = tok[p]
     THEN /\ mem' = [mem EXCEPT ![p][k].accepted = TRUE]
          /\ took' = [took EXCEPT ![p] = @ \cup {tok[p]}]
     ELSE UNCHANGED <<mem, took>>

MintedSlip(p, h) == h # None /\ h.tok = tok[p]  \* a cached one counts as well
Minted(p, h) == h # None /\ h.tok = tok[p] /\ ~h.cached
TookIt(h, t) == h # None /\ h.tok = t /\ h.accepted

Send(p, a) ==
  /\ At(p, "send") /\ Sent(p, a)
  /\ IF Unauthenticated(a)
     THEN /\ Goto(p, "refused")
          /\ answer' = [answer EXCEPT ![p] = a]
     ELSE Ends(p, a)
  /\ UNCHANGED <<backend, file, use, write, tok, first, snap, back, resent, fresh, obtained, dropped, calls, restarts>>

\* UntriedCached for any refusal, in-band ones included.
UntriedCachedSlip(p) ==
  LET h == mem[p][use[p]] IN h # None /\ h.tok = tok[p] /\ h.cached /\ ~h.accepted

\* A re-send of a call that may not be: only for a 401 to a cached token that
\* this process had not seen accepted.
UntriedCached(p) ==
  LET h == mem[p][use[p]] IN
  answer[p] = "401" /\ h # None /\ h.tok = tok[p] /\ h.cached /\ ~h.accepted

\* The token is blanked, what is known of it is kept.
InvalidatedSlip(h) == IF h = None THEN None ELSE [h EXCEPT !.tok = None]

Invalidated(h) == None

\* The refused token is forgotten, in memory and in the file; then the call is
\* re-sent, or given back with what is known of the token.
Refused(p) ==
  LET k == use[p]  h == mem[p][k]  again == UntriedCached(p) \/ ~write[p] IN
  /\ At(p, "refused")
  /\ mem' = [mem EXCEPT ![p][k] = Invalidated(h)]
  /\ first' = [first EXCEPT ![p] = tok[p]]
  /\ dropped' = [dropped EXCEPT ![p] = @ \cup {<<k, tok[p]>>}]
  /\ resent' = [resent EXCEPT ![p] = IF again THEN @ ELSE "not_resent"]
  /\ fresh' = [fresh EXCEPT ![p] = IF again THEN "none"
                                   ELSE IF TookIt(h, tok[p]) THEN "accepted"
                                   ELSE IF Minted(p, h) THEN "minted" ELSE "none"]
  /\ back' = [back EXCEPT ![p] = IF again THEN "again" ELSE "idle"]
  /\ Goto(p, "d_read")
  /\ UNCHANGED <<backend, file, use, write, tok, snap, answer, obtained, took, performed, calls, restarts>>

\* The answer to the re-send is the answer to the call.
Resend(p, a) ==
  /\ At(p, "resend") /\ Sent(p, a) /\ Ends(p, a)
  /\ resent' = [resent EXCEPT ![p] = "resent"]
  /\ fresh' = [fresh EXCEPT ![p] = IF Unauthenticated(a) /\ Minted(p, mem[p][use[p]])
                                   THEN "relogin" ELSE @]
  /\ UNCHANGED <<backend, file, use, write, tok, first, snap, back, obtained, dropped, calls, restarts>>

\* A step of the chain is a login itself, as the profile's own credentials:
\* its token is put in memory, not in the file.
Seed(p, k) ==
  /\ At(p, "idle") /\ k \in Uses[p] /\ issued < MaxTokens
  /\ Mint(p, k, issued + 1)
  /\ UNCHANGED <<age, file, call, took, dropped, performed, calls, restarts>>

\* A process ends, between calls or killed at any step of one, and the next
\* command starts with nothing in memory.
Restart(p) ==
  /\ restarts < MaxRestarts /\ restarts' = restarts + 1
  /\ Goto(p, "idle")
  /\ mem' = [mem EXCEPT ![p] = [k \in Profiles |-> None]]
  /\ tok' = [tok EXCEPT ![p] = None] /\ first' = [first EXCEPT ![p] = None]
  /\ snap' = [snap EXCEPT ![p] = NoEntries] /\ back' = [back EXCEPT ![p] = "idle"]
  /\ resent' = [resent EXCEPT ![p] = "no"] /\ fresh' = [fresh EXCEPT ![p] = "none"]
  /\ answer' = [answer EXCEPT ![p] = "none"]
  /\ obtained' = [obtained EXCEPT ![p] = {}] /\ took' = [took EXCEPT ![p] = {}]
  /\ dropped' = [dropped EXCEPT ![p] = {}]
  /\ performed' = [performed EXCEPT ![p] = 0]
  /\ fd' = [fd EXCEPT ![p] = "none"]
  /\ UNCHANGED <<backend, cache, tmp, use, write, calls>>

Call(p) ==
  \/ \E k \in Profiles, w \in BOOLEAN : Start(p, k, w)
  \/ \E k \in Profiles : Seed(p, k)
  \/ FirstToken(p) \/ FirstLogin(p) \/ NextToken(p) \/ NextLogin(p)
  \/ \E a \in {"ok", "401", "unauth", "lost"} : Send(p, a) \/ Resend(p, a)
  \/ Refused(p)
  \/ WriteRead(p) \/ DropRead(p) \/ CacheOpen(p) \/ CacheFill(p) \/ CacheRename(p)

Next == \/ \E t \in Tokens : Revoke(t) \/ Older(t)
        \/ \E p \in Procs : Call(p) \/ Restart(p)

Spec == Init /\ [][Next]_vars

(***************************************************************************)
(* Properties                                                              *)
(***************************************************************************)
File == {None, Torn} \cup Entries

\* The files, the sources and the calls have the shape the code gives them.
TypeOK ==
  /\ issued \in 0..MaxTokens /\ live \subseteq 1..issued
  /\ age \in [Tokens -> {"fresh", "late", "expired"}]
  /\ cache \in File /\ tmp \in File /\ fd \in [Procs -> {"none", "tmp", "cache", "gone"}]
  /\ mem \in [Procs -> [Profiles -> Held \cup {None}]]
  /\ pc \in [Procs -> Labels] /\ back \in [Procs -> {"idle", "send", "resend", "again"}]
  /\ use \in [Procs -> Profiles] /\ write \in [Procs -> BOOLEAN]
  /\ tok \in [Procs -> Tokens \cup {None}] /\ first \in [Procs -> Tokens \cup {None}]
  /\ snap \in [Procs -> Entries]
  /\ resent \in [Procs -> {"no", "resent", "not_resent"}]
  /\ fresh \in [Procs -> {"none", "accepted", "minted", "relogin"}]
  /\ answer \in [Procs -> {"none", "ok", "401", "unauth", "lost", "error"}]
  /\ obtained \in [Procs -> SUBSET Tokens] /\ took \in [Procs -> SUBSET Tokens]
  /\ dropped \in [Procs -> SUBSET (Profiles \X (Tokens \cup {None}))]
  /\ performed \in [Procs -> Nat] /\ calls \in [Procs -> Nat] /\ restarts \in Nat

\* A call that may not be re-sent is performed at most once, although a
\* handler may refuse in-band what it has performed (not_resent, auth.go:350).
WritesOnce == \A p \in Procs : write[p] => performed[p] <= 1

\* The evidence by which a refused step becomes an error and not a failure is
\* true of this process: it had the token accepted before, or got it itself by
\* a login, or logged in again and the new token was refused as well.
EvidenceTrue ==
  \A p \in Procs :
    /\ fresh[p] = "accepted" => first[p] \in took[p]
    /\ fresh[p] = "minted" => first[p] \in obtained[p]
    /\ fresh[p] = "relogin" => tok[p] \in obtained[p] /\ first[p] # None /\ tok[p] # first[p]

\* A token that was refused and invalidated (auth.go:344) is not sent again by the
\* process, in this call or a later one, and when a call is over the file hands
\* none on to the next process.  The token of a re-send is not invalidated when it
\* is refused as well (auth.go:368-375): the next call tries it once more.
RefusedForgotten ==
  \A p \in Procs :
    /\ pc[p] \in {"send", "resend"} => <<use[p], tok[p]>> \notin dropped[p]
    /\ At(p, "idle") /\ Readable(cache) =>
         \A k \in Profiles : <<k, cache[k]>> \notin dropped[p]
=============================================================================
