----------------------------- MODULE HttpFleetMC -----------------------------
(***************************************************************************)
(* Fleets and requests for TLC.                                            *)
(***************************************************************************)
EXTENDS HttpFleetProperties

Job(kind, m) == [kind |-> kind, model |-> m]

\* Two models of one input size and one of another.
TwoSizes == [m \in Models |-> IF m = "vww" THEN 2 ELSE 1]

\* A run, and what another tab may ask for meanwhile: a model of another input
\* size, one that is not in the shared directory, an unload, the fleet card.
Tabs == { Job("run", "kws"), Job("load", "vww"), Job("load", "own"),
          Job("unload", "kws"), Job("poll", "kws") }

\* kws maps on the chip of node 1, the others nowhere.
KwsOnly == { <<1, "kws">> }
=============================================================================
