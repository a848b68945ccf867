----------------------------- MODULE RateLimiter -----------------------------
(***************************************************************************)
(* The limit on one client's requests (ratelimit): the middleware, the     *)
(* counter each process may keep (ratelimit/memory) and the one all        *)
(* replicas share (ratelimit/pgstore), asked about the same requests.      *)
(*                                                                         *)
(* Both count within a window that starts with the first request after     *)
(* the last one ended.  Time passes in ticks, and is kept relative to now. *)
(***************************************************************************)
EXTENDS Integers, FiniteSets

CONSTANTS
    Replicas,       \* processes of the API
    Limit,          \* requests per window
    Window,         \* length of a window, in ticks
    MaxBurst        \* bound: requests within a tick

ASSUME LimiterBounds == /\ {Limit, Window, MaxBurst} \subseteq Nat
                        /\ Limit > 0 /\ Window > 0

VARIABLES
    burst,          \* requests within this tick
    memory,         \* the counter of each replica
    shared,         \* the row of rate_limit_counters
    passed,         \* history: requests each counter let pass, by age
    told            \* history: did the two differ, and did they have to agree?

limiterVars == <<burst, memory, shared, passed, told>>

\* No request counted, or none in a window that has not ended.
NoCounter == [count |-> 0, left |-> -1]
Ages == 0 .. Window

\* The row as one of the counters.
Row == "row"
ASSUME RowIsNoReplica == Row \notin Replicas
Counters == Replicas \cup {Row}

LimiterInit ==
    /\ burst = 0
    /\ memory = [r \in Replicas |-> NoCounter]
    /\ shared = NoCounter
    /\ passed = [c \in Counters |-> [t \in Ages |-> 0]]
    /\ told = [agree |-> TRUE, alike |-> TRUE]

-----------------------------------------------------------------------------
(* Counters                                                                *)

First == [count |-> 1, left |-> Window]

\* Mutant: a window that ends now is over.
AllowInMemoryEarly(c) ==
    IF c.left <= 0 THEN [ok |-> TRUE, counter |-> First]
    ELSE IF c.count < Limit THEN [ok |-> TRUE, counter |-> [c EXCEPT !.count = @ + 1]]
    ELSE [ok |-> FALSE, counter |-> c]

\* memory.Store.Allow: a request refused is not counted.
AllowInMemory(c) ==
    IF c.left < 0 THEN [ok |-> TRUE, counter |-> First]
    ELSE IF c.count < Limit THEN [ok |-> TRUE, counter |-> [c EXCEPT !.count = @ + 1]]
    ELSE [ok |-> FALSE, counter |-> c]

\* pgstore.Store.Allow: one that is refused is.
AllowInStore(c) ==
    LET next == IF c.left < 0 THEN First ELSE [c EXCEPT !.count = @ + 1]
    IN  [ok |-> next.count <= Limit, counter |-> next]

-----------------------------------------------------------------------------
(* Requests                                                                *)

\* A request at replica r, which asks either counter.
Request(r) ==
    LET m == AllowInMemory(memory[r])
        s == AllowInStore(shared)
        pass(ok) == IF ok THEN 1 ELSE 0
    IN  /\ burst < MaxBurst
        /\ burst' = burst + 1
        /\ memory' = [memory EXCEPT ![r] = m.counter]
        /\ shared' = s.counter
        /\ passed' = [passed EXCEPT ![r][0] = @ + pass(m.ok), ![Row][0] = @ + pass(s.ok)]
        /\ told' = [agree |-> told.agree /\ m.ok = s.ok,
                    alike |-> told.alike /\ \A q \in Replicas \ {r} : memory[q].left < 0]

\* The database fails, before or after it counted: the middleware lets the
\* request pass, which no counter knows of.
RequestFailsOpen(r) ==
    /\ burst < MaxBurst
    /\ burst' = burst + 1
    /\ shared' \in {shared, AllowInStore(shared).counter}
    /\ memory' = [memory EXCEPT ![r] = AllowInMemory(@).counter]
    /\ passed' = [passed EXCEPT ![r][0] = @ + IF AllowInMemory(memory[r]).ok THEN 1 ELSE 0]
    /\ told' = [told EXCEPT !.alike = FALSE]

\* A process restarts with empty counters.
Restart(r) ==
    /\ memory[r] # NoCounter
    /\ memory' = [memory EXCEPT ![r] = NoCounter]
    /\ passed' = [passed EXCEPT ![r] = [t \in Ages |-> 0]]
    /\ told' = [told EXCEPT !.alike = FALSE]
    /\ UNCHANGED <<burst, shared>>

\* DeleteExpired.
DeleteExpired ==
    /\ shared # NoCounter /\ shared.left < 0
    /\ shared' = NoCounter
    /\ UNCHANGED <<burst, memory, passed, told>>

Tick ==
    LET later(c) == [c EXCEPT !.left = IF @ < 0 THEN @ ELSE @ - 1]
    IN  /\ burst' = 0
        /\ memory' = [r \in Replicas |-> later(memory[r])]
        /\ shared' = later(shared)
        /\ passed' = [c \in Counters |-> [t \in Ages |-> IF t = 0 THEN 0 ELSE passed[c][t - 1]]]
        /\ UNCHANGED told

LimiterNext ==
    \/ \E r \in Replicas : Request(r) \/ RequestFailsOpen(r) \/ Restart(r)
    \/ DeleteExpired \/ Tick

LimiterSpec == LimiterInit /\ [][LimiterNext]_limiterVars

-----------------------------------------------------------------------------
(* Properties                                                              *)

\* What a counter let pass, not longer ago than `age`.
Total(byAge, age) ==
    LET count[t \in Ages] == byAge[t] + IF t = 0 THEN 0 ELSE count[t - 1]
    IN  count[age]

PassedSince(c, age) == Total(passed[c], age)

\* What a client may send: one window's limit, and, since a window starts
\* with a request and not with the clock, never more than two limits within
\* a window's length, at each counter.  The counters tell a client the same
\* unless it reaches several replicas, a call fails or a process restarts,
\* although one counts refused requests and the other does not.
LimitHolds ==
    /\ \A c \in Counters :
          /\ PassedSince(c, Window) <= 2 * Limit
          /\ LET counter == IF c = Row THEN shared ELSE memory[c]
             IN  counter.left >= 0 => PassedSince(c, Window - counter.left) <= Limit
    /\ told.alike => told.agree
=============================================================================
