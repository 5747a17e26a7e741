---------------------------- MODULE MCPoliteBulk ----------------------------
(***************************************************************************)
(* Instances of PoliteBulk for TLC.                                        *)
(***************************************************************************)
EXTENDS PoliteBulk

CONSTANTS h1, h2

\* Two urls of one host, one of another, and one that is no url.
MCHostOf == <<h1, NoHost, h1, h2>>

=============================================================================
