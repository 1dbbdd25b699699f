------------------------------ MODULE MirrorHosts ------------------------------
(***************************************************************************)
(* The 1337x source (src/pkg/scraper/x1337.go): concurrent searches try    *)
(* mirror hosts one after the other, the one that worked last before the   *)
(* others, and share the memory of which one that is.                      *)
(***************************************************************************)
EXTENDS Sequences, FiniteSets, Naturals, SequencesExt

CONSTANTS
  Visitors,
  Hosts,    \* x1337Hosts, a sequence
  NoHost    \* no host is remembered

ASSUME HostAssumption ==
  /\ Hosts \in Seq(ToSet(Hosts)) /\ IsInjective(Hosts)
  /\ NoHost \notin ToSet(Hosts)

VARIABLES
  up,         \* the hosts that answer with 200 at present
  remembered, \* lastWorkingHost
  stage,      \* idle, try, worked (answered, not yet remembered), failed (not yet forgotten), done
  left,       \* the hosts a search has still to try
  outcome,    \* what a search returns: rows, error
  gone,       \* the searcher's context is done
  refused     \* history: the hosts a search has failed on

visit == <<stage, left, outcome, refused>>
mirrorVars == <<up, remembered, visit, gone>>

HostSet == ToSet(Hosts)

MirrorInit ==
  /\ up \in SUBSET HostSet /\ remembered = NoHost
  /\ stage = [s \in Visitors |-> "idle"] /\ left = [s \in Visitors |-> << >>]
  /\ outcome = [s \in Visitors |-> "none"] /\ gone = [s \in Visitors |-> FALSE]
  /\ refused = [s \in Visitors |-> {}]

-----------------------------------------------------------------------------
\* The remembered host first, then the others in their order.
Order ==
  IF remembered = NoHost THEN Hosts
  ELSE LET i == CHOOSE i \in 1 .. Len(Hosts) : Hosts[i] = remembered
       IN  <<remembered>> \o RemoveAt(Hosts, i)

VisitStarts(s) ==
  /\ stage[s] = "idle"
  /\ stage' = [stage EXCEPT ![s] = "try"] /\ left' = [left EXCEPT ![s] = Order]
  /\ refused' = [refused EXCEPT ![s] = {}] /\ outcome' = [outcome EXCEPT ![s] = "none"]
  /\ UNCHANGED <<up, remembered, gone>>

\* A request to the next host; any request fails once the context is done.
Try(s) ==
  /\ stage[s] = "try" /\ left[s] # << >>
  /\ stage' = [stage EXCEPT ![s] = IF Head(left[s]) \in up /\ ~gone[s] THEN "worked" ELSE "failed"]
  /\ UNCHANGED <<up, remembered, left, outcome, gone, refused>>

\* Under the write lock.
Remember(s) ==
  /\ stage[s] = "worked"
  /\ remembered' = Head(left[s])
  /\ stage' = [stage EXCEPT ![s] = "done"] /\ outcome' = [outcome EXCEPT ![s] = "rows"]
  /\ UNCHANGED <<up, left, gone, refused>>

\* Mutant: after a failure the search goes on with the host that worked for another.
ForgetAndFollow(s) ==
  /\ stage[s] = "failed"
  /\ remembered' = IF remembered = Head(left[s]) THEN NoHost ELSE remembered
  /\ stage' = [stage EXCEPT ![s] = "try"]
  /\ left' = [left EXCEPT ![s] = IF remembered' = NoHost THEN Tail(@)
                                 ELSE <<remembered'>> \o Remove(Tail(@), remembered')]
  /\ refused' = [refused EXCEPT ![s] = @ \cup {Head(left[s])}]
  /\ UNCHANGED <<up, outcome, gone>>

\* Under the write lock, too.
Forget(s) ==
  /\ stage[s] = "failed"
  /\ remembered' = IF remembered = Head(left[s]) THEN NoHost ELSE remembered
  /\ stage' = [stage EXCEPT ![s] = "try"] /\ left' = [left EXCEPT ![s] = Tail(@)]
  /\ refused' = [refused EXCEPT ![s] = @ \cup {Head(left[s])}]
  /\ UNCHANGED <<up, outcome, gone>>

\* No host is left.
GiveUp(s) ==
  /\ stage[s] = "try" /\ left[s] = << >>
  /\ stage' = [stage EXCEPT ![s] = "done"] /\ outcome' = [outcome EXCEPT ![s] = "error"]
  /\ UNCHANGED <<up, remembered, left, gone, refused>>

\* A search ends and another begins; a searcher goes away; hosts come and go.
VisitAgain(s) ==
  /\ stage[s] = "done"
  /\ stage' = [stage EXCEPT ![s] = "idle"] /\ gone' = [gone EXCEPT ![s] = FALSE]
  /\ left' = [left EXCEPT ![s] = << >>]
  /\ UNCHANGED <<up, remembered, outcome, refused>>

VisitorLeaves(s) ==
  /\ stage[s] # "done" /\ ~gone[s]
  /\ gone' = [gone EXCEPT ![s] = TRUE]
  /\ UNCHANGED <<up, remembered, visit>>

Outage == up' \in SUBSET HostSet /\ up' # up /\ UNCHANGED <<remembered, visit, gone>>

Visit(s) == Try(s) \/ Remember(s) \/ Forget(s) \/ GiveUp(s)
MirrorNext ==
  \/ \E s \in Visitors : VisitStarts(s) \/ Visit(s) \/ VisitAgain(s) \/ VisitorLeaves(s)
  \/ Outage

MirrorSpec == MirrorInit /\ [][MirrorNext]_mirrorVars

-----------------------------------------------------------------------------
(* Properties of the mirrors.                                               *)

\* The types of the memory's and the searches' state.
MirrorTypeOK ==
  /\ up \subseteq HostSet /\ remembered \in HostSet \cup {NoHost}
  /\ stage \in [Visitors -> {"idle", "try", "worked", "failed", "done"}]
  /\ left \in [Visitors -> Seq(HostSet)]
  /\ \A s \in Visitors : stage[s] \in {"worked", "failed"} => left[s] # << >>
  /\ outcome \in [Visitors -> {"none", "rows", "error"}]
  /\ gone \in [Visitors -> BOOLEAN] /\ refused \in [Visitors -> SUBSET HostSet]

\* A search asks no mirror twice, neither the remembered one nor one that has refused it.
AskedOnce ==
  \A s \in Visitors :
    /\ IsInjective(left[s])
    /\ stage[s] \in {"try", "worked", "failed"} => ToSet(left[s]) \cap refused[s] = {}

\* CHANGELOG.md:79: the scraper "dynamically falls back on other domains if one fails": a
\* search fails only when every mirror has refused it, whatever other searches do to the
\* shared memory meanwhile.
FailsOnlyIfAllDo == \A s \in Visitors : outcome[s] = "error" => refused[s] = HostSet

\* The discipline of a search, whatever the others do to the memory it started from.
MirrorInv == MirrorTypeOK /\ AskedOnce /\ FailsOnlyIfAllDo
=============================================================================
