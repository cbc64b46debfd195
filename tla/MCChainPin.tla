---------------------------- MODULE MCChainPin ----------------------------
\* Chains of up to five steps, and what is wrong with the backend, for ChainPin.
EXTENDS ChainPin

CONSTANTS v1, order, item

Nothing(n) == [s \in 1 .. n |-> {}]
\* A chain whose step 1 creates and whose every other step reads what it created;
\* every step can fail, in a way of its own.
Plain(n) ==
  [n |-> n, write |-> {1}, request |-> [s \in 1 .. n |-> IF s = 1 THEN {} ELSE {1}], expect |-> Nothing(n), sound |-> Nothing(n),
   acts |-> [s \in 1 .. n |-> IF s = 1 THEN {order} ELSE {}], mentions |-> [s \in 1 .. n |-> {order}],
   readBy |-> Nothing(n), listedBy |-> Nothing(n), unknown |-> {}, shape |-> [s \in 1 .. n |-> s], fresh |-> {},
   cause |-> [s \in 1 .. n |-> None], needs |-> Nothing(n), flaky |-> {}]
Bad(q, S) == [q EXCEPT !.cause = [s \in 1 .. q.n |-> IF s \in S THEN {} ELSE @[s]]]

\* Several defects, with the same shape or not, that come and go or not.
Reads == {Bad(Plain(4), {2, 3, 4}), Bad(Plain(4), {3, 4}), [Bad(Plain(4), {2, 4}) EXCEPT !.shape[4] = 2],
          [Bad(Plain(3), {2, 3}) EXCEPT !.shape[3] = 2, !.flaky = {3}], [Bad(Plain(3), {2}) EXCEPT !.flaky = {2}],
          Bad(Plain(3), {1}), [Bad(Plain(3), {1}) EXCEPT !.sound[2] = {1}, !.request[2] = {}, !.expect[3] = {1}, !.request[3] = {}]}

\* Step 2 changes what step 1 made: the defect of step 4 shows after it only, or
\* step 4 needs it, or step 3, which 4 reads, does.  It is known to or not.
Changes ==
  LET q == [Plain(4) EXCEPT !.write = {1, 2}, !.acts[2] = {order}, !.request[4] = {3}, !.readBy[2] = {4}]
      apart == [q EXCEPT !.acts[2] = {item}, !.mentions[2] = {item}]
  IN UNION {{[r EXCEPT !.cause[4] = {2}], [Bad(r, {4}) EXCEPT !.needs[3] = {2}], [Bad(r, {4}) EXCEPT !.readBy[2] = {3}],
             Bad(r, {2, 4}), [r EXCEPT !.cause[4] = {2}, !.needs[4] = {2}, !.write = {1, 2, 3}, !.acts[3] = {order}, !.readBy[3] = {2}]} : r \in {q, apart}}

\* The created record is named by a fresh value, and the target is that or reads it.
Fresh == {[Bad(Plain(2), s) EXCEPT !.fresh = {1}] : s \in {{}, {2}}}

\* Step 2 is not seen to matter to the target, step 3, or to step 4; step 5 reads
\* step 4 and fails as 3 does, so the slice runs past 3 and breaks 4.
Beside ==
  {[Bad(Plain(5), {5}) EXCEPT !.write = {1, 2}, !.acts[2] = {item}, !.mentions[2] = {item}, !.cause[3] = {2}, !.needs[4] = {2},
      !.request[5] = {4}, !.shape[5] = 3]}

\* Steps 2 and 3 fail alike, 3 now and then, and step 4 reads 3: it goes with 3,
\* which the slice of 2 has and may not pin.
Along == {[Bad(Plain(4), {2, 3}) EXCEPT !.request[4] = {3}, !.shape[3] = 2, !.flaky = {3}]}

\* Step 3 has an expectation that step 1, which fails, holds back, and fails itself,
\* or lacks step 2 when that is left out, which tells no record; or 3 lists what 2 made.
Judged ==
  LET q == [Bad(Plain(3), {1}) EXCEPT !.expect[3] = {1}, !.request = Nothing(3)]
      r == [q EXCEPT !.write = {1, 2}, !.acts[2] = {item}, !.mentions[2] = {item}]
  IN {Bad(q, {3}), [r EXCEPT !.needs[3] = {2}, !.unknown = {2}],
      [r EXCEPT !.cause = [s \in 1 .. 3 |-> IF s = 3 THEN {2} ELSE None], !.listedBy[2] = {3}]}

\* Three defects in a chain of four steps.
Threefold == {Bad(Plain(4), {2, 3, 4})}
MCPrograms == Reads \cup Changes \cup Beside \cup Along \cup Judged \cup Fresh
=============================================================================
