----------------------------- MODULE MCSnapSite -----------------------------
(* An instance of SnapSite for TLC.                                        *)
EXTENDS SnapSite

CONSTANTS c1, c2
=============================================================================
