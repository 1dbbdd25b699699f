----------------------------- MODULE SearchManager -----------------------------
(***************************************************************************)
(* Manager.Search (src/pkg/search/manager.go): one call asks the enabled   *)
(* sources concurrently, one goroutine each.  A WaitGroup counts them; a   *)
(* further goroutine closes the channel of answers when they are done; the *)
(* caller collects answers until the channel is closed.                    *)
(***************************************************************************)
EXTENDS Naturals, Sequences, FiniteSets, SequencesExt

CONSTANTS
  Sources,     \* registered sources
  Names,       \* what can stand in config.yaml or in a request
  Id,          \* ID() of each source
  Configured,  \* names in scraper.sources
  AnySource    \* the request names no source

ASSUME ManagerAssumption ==
  /\ IsFiniteSet(Sources)   \* m.sources is a slice
  /\ Id \in [Sources -> Names]
  /\ Configured \subseteq Names
  /\ AnySource \notin Names

VARIABLES
  target,     \* the source the request names, or AnySource
  at, toAsk,  \* the caller: where it is, sources its loop has not reached
  pc,         \* per source, its goroutine
  wg,         \* the WaitGroup's counter
  closer,     \* the goroutine that waits for the counter
  chan, closed, panicked,  \* the channel, and whether something was sent on it closed
  answers,    \* what the caller has collected
  outcome     \* history: how each source that was asked ended

vars == <<target, at, toAsk, pc, wg, closer, chan, closed, panicked, answers, outcome>>

Capacity == Cardinality(Sources)

Init ==
  /\ target \in Names \cup {AnySource}
  /\ at = "asking" /\ toAsk = Sources
  /\ pc = [s \in Sources |-> "none"]
  /\ wg = 0 /\ closer = "none"
  /\ chan = << >> /\ closed = FALSE /\ panicked = FALSE
  /\ answers = << >>
  /\ outcome = [s \in Sources |-> "none"]

-----------------------------------------------------------------------------
(* The caller.                                                              *)

\* Configured by ID, and named by the request if it names one (names are compared
\* without regard to case, which Names leaves out).
Wanted(s) == Id[s] \in Configured /\ target \in {AnySource, Id[s]}

SkipSource(s) ==
  /\ at = "asking" /\ s \in toAsk /\ ~Wanted(s)
  /\ toAsk' = toAsk \ {s}
  /\ UNCHANGED <<target, at, pc, wg, closer, chan, closed, panicked, answers, outcome>>

Ask(s) ==
  /\ at = "asking" /\ s \in toAsk /\ Wanted(s)
  /\ toAsk' = toAsk \ {s}
  /\ wg' = wg + 1
  /\ pc' = [pc EXCEPT ![s] = "asking"]
  /\ UNCHANGED <<target, at, closer, chan, closed, panicked, answers, outcome>>

StartCloser ==
  /\ at = "asking" /\ toAsk = {}
  /\ at' = "collecting" /\ closer' = "waiting"
  /\ UNCHANGED <<target, toAsk, pc, wg, chan, closed, panicked, answers, outcome>>

Collect ==
  /\ at = "collecting" /\ chan # << >>
  /\ answers' = Append(answers, Head(chan)) /\ chan' = Tail(chan)
  /\ UNCHANGED <<target, at, toAsk, pc, wg, closer, closed, panicked, outcome>>

Return ==
  /\ at = "collecting" /\ closed /\ chan = << >>
  /\ at' = "answered"
  /\ UNCHANGED <<target, toAsk, pc, wg, closer, chan, closed, panicked, answers, outcome>>

-----------------------------------------------------------------------------
(* The goroutines.                                                          *)

\* The source's Search returns: it answers, or fails (or is benched, or cancelled).
Returns(s) ==
  /\ pc[s] = "asking"
  /\ \E o \in {"ok", "error"} :
       /\ outcome' = [outcome EXCEPT ![s] = o]
       /\ pc' = [pc EXCEPT ![s] = IF o = "ok" THEN "sending" ELSE "ending"]
  /\ UNCHANGED <<target, at, toAsk, wg, closer, chan, closed, panicked, answers>>

Send(s) ==
  /\ pc[s] = "sending"
  /\ IF closed
     THEN panicked' = TRUE /\ UNCHANGED chan
     ELSE Len(chan) < Capacity /\ chan' = Append(chan, s) /\ UNCHANGED panicked
  /\ pc' = [pc EXCEPT ![s] = "ending"]
  /\ UNCHANGED <<target, at, toAsk, wg, closer, closed, answers, outcome>>

\* Mutant: Done is not deferred, and forgotten when the source fails.
DoneIfAnswered(s) ==
  /\ pc[s] = "ending"
  /\ wg' = IF outcome[s] = "ok" THEN wg - 1 ELSE wg
  /\ pc' = [pc EXCEPT ![s] = "done"]
  /\ UNCHANGED <<target, at, toAsk, closer, chan, closed, panicked, answers, outcome>>

Done(s) ==
  /\ pc[s] = "ending"
  /\ wg' = wg - 1
  /\ pc' = [pc EXCEPT ![s] = "done"]
  /\ UNCHANGED <<target, at, toAsk, closer, chan, closed, panicked, answers, outcome>>

CloseAtOnce ==  \* mutant: nobody waits for the counter
  /\ closer = "waiting"
  /\ closed' = TRUE /\ closer' = "done"
  /\ UNCHANGED <<target, at, toAsk, pc, wg, chan, panicked, answers, outcome>>

Close ==
  /\ closer = "waiting" /\ wg = 0
  /\ closed' = TRUE /\ closer' = "done"
  /\ UNCHANGED <<target, at, toAsk, pc, wg, chan, panicked, answers, outcome>>

\* Everything but the collection of an answer, which Ranking gives its rows.
GoOn ==
  \/ StartCloser \/ Return \/ Close
  \/ \E s \in Sources : SkipSource(s) \/ Ask(s) \/ Returns(s) \/ Send(s) \/ Done(s)

Next == Collect \/ GoOn

Spec == Init /\ [][Next]_vars

-----------------------------------------------------------------------------
(* Properties.                                                              *)

Running == {s \in Sources : pc[s] \in {"asking", "sending", "ending"}}

\* The types of the search's state; the counter never goes below zero, which panics.
TypeOK ==
  /\ target \in Names \cup {AnySource}
  /\ at \in {"asking", "collecting", "answered"} /\ toAsk \subseteq Sources
  /\ pc \in [Sources -> {"none", "asking", "sending", "ending", "done"}]
  /\ wg \in Nat
  /\ closer \in {"none", "waiting", "done"} /\ closed \in BOOLEAN /\ panicked \in BOOLEAN
  /\ chan \in Seq(Sources) /\ answers \in Seq(Sources)
  /\ outcome \in [Sources -> {"none", "ok", "error"}]

\* What the caller gets is every answer of a source that was asked and answered, once; no
\* goroutine ever sends on the closed channel, which would kill the daemon (nothing recovers
\* a panic of theirs); and none is held up by a caller that does not collect (yet).
NoAnswerLost ==
  /\ ~panicked
  /\ at = "answered" => /\ IsInjective(answers)
                        /\ ToSet(answers) = {s \in Sources : outcome[s] = "ok"}
  /\ \A s \in Sources : pc[s] = "sending" => Len(chan) < Capacity

\* The caller gets its answer, and no goroutine is left behind.
SearchEnds == <>(at = "answered" /\ Running = {} /\ closer = "done")
=============================================================================
