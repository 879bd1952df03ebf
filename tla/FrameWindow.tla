----------------------------- MODULE FrameWindow -----------------------------
(***************************************************************************)
(* What the in-flight semaphore of the streaming client promises, with     *)
(* nothing of how it is done: every frame is admitted once and freed once, *)
(* and no more than Slots of them are held at a time.  ShardClient is      *)
(* shown to implement this specification.                                  *)
(***************************************************************************)
EXTENDS Naturals, FiniteSets

CONSTANTS Frames, Slots

VARIABLE phase

Phases == {"queued", "held", "freed"}

HeldNow == {f \in Frames : phase[f] = "held"}

Init == phase = [f \in Frames |-> "queued"]

Admit(f) ==
    /\ phase[f] = "queued" /\ Cardinality(HeldNow) < Slots
    /\ phase' = [phase EXCEPT ![f] = "held"]

Free(f) ==
    /\ phase[f] = "held"
    /\ phase' = [phase EXCEPT ![f] = "freed"]

Next == \E f \in Frames : Admit(f) \/ Free(f)

Spec == Init /\ [][Next]_phase
=============================================================================
