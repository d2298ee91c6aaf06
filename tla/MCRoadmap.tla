----------------------------- MODULE MCRoadmap -----------------------------
(***************************************************************************)
(* Roadmap for TLC.                                                        *)
(***************************************************************************)
EXTENDS Roadmap

MCSize == <<2, 1>>
=============================================================================
