---------------------------- MODULE MCBootstrap ----------------------------
(***************************************************************************)
(* On an empty database, two seeds and a simulator, or a seed, a simulator *)
(* and a qa run.                                                           *)
(***************************************************************************)
EXTENDS Bootstrap

CONSTANTS seed1, seed2, simulate, qa

MCScripts == {seed1, seed2, simulate, qa}

MCCasts == {{seed1, seed2, simulate}, {seed1, simulate, qa}}

MCKind == [s \in MCScripts |-> CASE s \in {seed1, seed2} -> "seed"
                                 [] s = simulate -> "simulate"
                                 [] s = qa -> "qa"]

MCSeedTopology == <<"L1", "L1.M1", "MTN-P">>
MCSeedRows     == <<"planned-1", "planned-1", "record-1">>
MCSimTopology  == <<"SIM-L1", "SIM-L1.M1">>

MCCatalog       == <<"CHG-P", "AJT-M">>
MCCatalogSorted == <<"AJT-M", "CHG-P">>

MCSmokeDrafts == {[kind |-> "production", n |-> 0]}
MCAllDrafts   == MCSmokeDrafts \union {[kind |-> "downtime", n |-> 0]}

MCStart == [s \in MCScripts |-> -1]
=============================================================================
