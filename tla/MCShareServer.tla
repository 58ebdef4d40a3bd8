---------------------------- MODULE MCShareServer ----------------------------
(***************************************************************************)
(* ShareServer for TLC.  Connections and session ids are model values that *)
(* the specification compares only for equality, so that permuting them    *)
(* changes no safety property.  Screens have a size here: one is wide, one *)
(* small, so that both bounds of the scale are met.                        *)
(***************************************************************************)
EXTENDS ShareServer, Geometry, TLC

Symmetry == Permutations(Conn) \cup Permutations(SessionId)

MCScreens == {[w |-> 40, h |-> 9], [w |-> 2, h |-> 3]}

\* What an open viewer was told last makes the agent's screen, as announced
\* last, fit into its window, as announced last: calculateOptimalScale picks
\* the right quotient, and it is asked again whenever either of them changes
\* (lines 171-182, 259-268 and 318-328).
ScaleFitsWindow ==
  \A v \in Conn :
    (Open(v) /\ clientScreen[v] # None /\ agentScreen[obj[v]] # None) =>
      FitsWindow(OptimalScale(scale[v].agent, scale[v].client),
                 agentScreen[obj[v]], clientScreen[v])
=============================================================================
