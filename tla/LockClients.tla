---------------------------- MODULE LockClients ----------------------------
(***************************************************************************)
(* The clients of a readers-writer lock.  A lock knows no threads: a       *)
(* thread that re-enters is in two sections.                               *)
(***************************************************************************)
EXTENDS Integers, FiniteSets

CONSTANTS
    Section,    \* the read sections the threads may be in
    Writer

ASSUME ClientAssumption == IsFiniteSet(Section) /\ Section \cap Writer = {}

Client == Section \cup Writer
=============================================================================
