-------------------------------- MODULE Scrapers --------------------------------
(***************************************************************************)
(* What keeps something between searches beneath the sources: the index of *)
(* EZTV, the mirrors of 1337x, and the addresses of the hosts.  They share *)
(* no state with each other, so that either can be run with the others at  *)
(* rest and nothing is lost: the variable source says which one a          *)
(* behaviour is about.                                                     *)
(***************************************************************************)
EXTENDS EztvIndex, MirrorHosts, DohResolver

VARIABLE source

allVars == <<vars, mirrorVars, dohVars, source>>

ScrapersInit ==
  /\ Init /\ MirrorInit /\ DohInit
  /\ source \in {"eztv", "x1337", "doh"}
  /\ source # "x1337" => up = {}

OnIndex(A) == source = "eztv" /\ A /\ UNCHANGED <<mirrorVars, dohVars, source>>
OnMirrors(A) == source = "x1337" /\ A /\ UNCHANGED <<vars, dohVars, source>>
OnNames(A) == source = "doh" /\ A /\ UNCHANGED <<vars, mirrorVars, source>>

ScrapersNext == OnIndex(Next) \/ OnMirrors(MirrorNext) \/ OnNames(DohNext)

\* The fairness of the index and of the dials; the mirrors need none for what is claimed
\* of them.
ScrapersSpec ==
  /\ ScrapersInit /\ [][ScrapersNext]_allVars
  /\ \A s \in Searchers : SF_allVars(OnIndex(Acquire(s))) /\ WF_allVars(OnIndex(FetchPage(s)))
  /\ \A d \in Dials : WF_allVars(OnNames(DialStep(d)))
=============================================================================
