------------------------------ MODULE MCPackage ------------------------------
(***************************************************************************)
(* Instances of Package for TLC.                                           *)
(***************************************************************************)
EXTENDS Package

Scenario(j, o, f) == [jobs |-> j, overlap |-> o, fails |-> f]

\* Every job beside anybody, with cores that refuse to stop and without.
MCScenarios ==
    {Scenario({"upgrade", "remove"}, o, f) : o \in SUBSET {"direct", "service"}, f \in BOOLEAN}
MCUpgrade == {Scenario({"upgrade"}, {"service"}, FALSE)}
=============================================================================
