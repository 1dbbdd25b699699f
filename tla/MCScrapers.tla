------------------------------- MODULE MCScrapers -------------------------------
(***************************************************************************)
(* Three mirrors, and an index of three pages, for TLC.                    *)
(***************************************************************************)
EXTENDS Scrapers

CONSTANTS h1, h2, h3

ThreeHosts == <<h1, h2, h3>>
=============================================================================
