---------------------------- MODULE MCHubBridge ----------------------------
(***************************************************************************)
(* HubBridge on small instances.  Three connections are the least with     *)
(* which the hook of a last subscriber, the hook of the next first one and *)
(* a third connection are under way together; two channels give cleanup()  *)
(* a list to work through and show that channels do not disturb each other.*)
(***************************************************************************)
EXTENDS HubBridge, TLC
CONSTANTS s1, s2, s3, c1, c2

MCSockets  == {s1, s2, s3}
MCChannels == {c1, c2}

\* Connections and channels are interchangeable in every safety property.
MCSymmetry == Permutations(MCSockets) \cup Permutations(MCChannels)

\* The instance for liveness, which symmetry does not preserve.
MCOneChannel == {c1}
===========================================================================
