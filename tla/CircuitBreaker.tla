---------------------------- MODULE CircuitBreaker ----------------------------
(***************************************************************************)
(* CircuitBreakerSource (src/pkg/search/circuit_breaker.go) for one source:*)
(* after failThreshold failures in a row the source is benched for a while.*)
(*                                                                         *)
(* The health record lives in a sync.Map.  Its Load, LoadOrStore, Store    *)
(* and Delete are atomic; a call of Search is not: it loads the record,    *)
(* asks the source, and then reads, increments and stores the record in    *)
(* two further steps, with other calls in between.                         *)
(***************************************************************************)
EXTENDS Naturals, Sequences, FiniteSets

CONSTANTS
  Callers,        \* concurrent calls of Search
  FailThreshold,  \* failThreshold
  MaxFails,       \* bound: the failure count is capped here
  None            \* no record

ASSUME BreakerAssumption ==
  /\ FailThreshold \in Nat \ {0}
  /\ MaxFails \in Nat /\ MaxFails > FailThreshold

Record == [fails : 0 .. MaxFails, benched : BOOLEAN]

ASSUME NoneAssumption == None \notin Record

VARIABLES
  health,  \* the record of the source, or None; benched: skipUntil is in the future
  pc,      \* per caller
  seen,    \* per caller: the failures in the record it has loaded
  streak,  \* history: failures recorded since the last success was recorded
  debt,    \* history: the same, but a success counts only if no failure is being recorded
  overlap  \* history: calls have overlapped since a success that was alone

vars == <<health, pc, seen, streak, debt, overlap>>

Init ==
  /\ health = None
  /\ pc = [c \in Callers |-> "idle"]
  /\ seen = [c \in Callers |-> 0]
  /\ streak = 0 /\ debt = 0 /\ overlap = FALSE

Benched == health # None /\ health.benched
Capped(n) == IF n > MaxFails THEN MaxFails ELSE n
Recording(c) == pc[c] = "failed"
Alone(c) == \A d \in Callers \ {c} : pc[d] = "idle"

-----------------------------------------------------------------------------
\* The check on entry; a benched source is skipped, which changes nothing.
Ask(c) ==
  /\ pc[c] = "idle" /\ ~Benched
  /\ pc' = [pc EXCEPT ![c] = "asking"]
  /\ overlap' = (overlap \/ ~Alone(c))
  /\ UNCHANGED <<health, seen, streak, debt>>

Recovered(c) ==
  /\ pc[c] = "asking"
  /\ streak' = 0
  /\ debt' = IF \E d \in Callers : Recording(d) THEN debt ELSE 0
  /\ pc' = [pc EXCEPT ![c] = "idle"]
  /\ overlap' = (overlap /\ ~Alone(c))
  /\ UNCHANGED seen

\* The source answers (or the cache around it does): the record is deleted.
SucceedKeepsRecord(c) == Recovered(c) /\ UNCHANGED health  \* mutant
Succeed(c) == Recovered(c) /\ health' = None

\* An error, whatever it is: LoadOrStore.  The source fails, or its answer is not waited
\* for: the client of the HTTP request has gone and its context is cancelled.
Fail(c) ==
  /\ pc[c] = "asking"
  /\ seen' = [seen EXCEPT ![c] = IF health = None THEN 0 ELSE health.fails]
  /\ health' = IF health = None THEN [fails |-> 0, benched |-> FALSE] ELSE health
  /\ pc' = [pc EXCEPT ![c] = "failed"]
  /\ UNCHANGED <<streak, debt, overlap>>

\* Store of the loaded record with one failure more.  skipUntil moves only from the
\* threshold on; below it no skipUntil was ever set in the record.
Recorded(c) ==
  /\ Recording(c)
  /\ streak' = Capped(streak + 1) /\ debt' = Capped(debt + 1)
  /\ pc' = [pc EXCEPT ![c] = "idle"]
  /\ UNCHANGED <<seen, overlap>>

RecordFailure(c) ==
  Recorded(c) /\ health' = [fails |-> Capped(seen[c] + 1), benched |-> seen[c] + 1 >= FailThreshold]

\* The cooldown passes.  The count of failures stays.
CooldownOver ==
  /\ Benched
  /\ health' = [health EXCEPT !.benched = FALSE]
  /\ UNCHANGED <<pc, seen, streak, debt, overlap>>

Next ==
  \/ \E c \in Callers : Ask(c) \/ Succeed(c) \/ Fail(c) \/ RecordFailure(c)
  \/ CooldownOver

Spec == Init /\ [][Next]_vars

-----------------------------------------------------------------------------
(* Properties.                                                              *)

\* The types of the breaker's state; the record that benches the source has counted up
\* to the threshold, so that after the cooldown one more failure benches it again.
TypeOK ==
  /\ health \in Record \cup {None}
  /\ Benched => health.fails >= FailThreshold
  /\ pc \in [Callers -> {"idle", "asking", "failed"}]
  /\ seen \in [Callers -> 0 .. MaxFails]
  /\ streak \in 0 .. MaxFails /\ debt \in 0 .. MaxFails /\ overlap \in BOOLEAN

\* However calls overlap, a source is never benched for fewer failures than the
\* threshold: the count is at most the number of failures recorded since a success that
\* met no failure on its way into the record.
NeverBenchedForFewer ==
  health # None => health.fails <= debt /\ (health.benched => debt >= FailThreshold)

\* README.md:68, "Consecutive failures temporarily bench a source": as long as calls have
\* not overlapped, the record of a quiet breaker counts the whole streak.
Quiet == \A c \in Callers : ~Recording(c)
StreakCounted == ~overlap /\ Quiet => streak = IF health = None THEN 0 ELSE health.fails

\* The other half: without overlap only failures in a row bench a source, whatever
\* cooldowns pass, and a success in between unbenches it.
OnlyStreakBenches == ~overlap /\ Benched => streak >= FailThreshold

\* What a benched source owes to its failures.
BenchingJust == NeverBenchedForFewer /\ StreakCounted /\ OnlyStreakBenches
=============================================================================
