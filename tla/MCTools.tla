-------------------------------- MODULE MCTools --------------------------------
(***************************************************************************)
(* The three local tools a person works with in a browser, each on a small *)
(* instance of its own: they share no file, so a behaviour is one of any   *)
(* of them.                                                                *)
(***************************************************************************)
EXTENDS EventStore, VerticalReference, CourtCalibration, TLC

VARIABLE component

\* Two frames, two valid ranges, and the two ways a range can be refused.
MCRanges == {<<0, 1>>, <<1, 1>>, <<1, 0>>, <<1, 2>>}

\* One pixel at each step of the reference; the third step is the one that needs a post.
MCOffered == <<{1}, {2}, {3}, {4}>>
MCPosts == {3}
MCCoherent == {<<1, 2, 3, 4>>}

\* A trapezium with its service lines inside, and one whose last corner lies on the far side.
GoodLayout ==
    <<<<1, 0>>, <<4, 0>>, <<0, 3>>, <<5, 3>>, <<2, 1>>, <<3, 1>>, <<2, 2>>, <<3, 2>>>>
MCLayouts == {GoodLayout, [GoodLayout EXCEPT ![8] = <<3, 1>>]}
MCFrameSizes == <<<<6, 4>>, <<6, 6>>>>

Symmetry == Permutations(Threads) \cup Permutations(VThreads)

ToolsInit ==
    /\ component \in {"event_store", "vertical_reference", "court_calibration"}
    /\ Init /\ V_Init /\ C_Init

ToolsNext ==
    /\ UNCHANGED component
    /\ \/ component = "event_store" /\ Next /\ UNCHANGED <<vVars, cVars>>
       \/ component = "vertical_reference" /\ V_Next /\ UNCHANGED <<vars, cVars>>
       \/ component = "court_calibration" /\ C_Next /\ UNCHANGED <<vars, vVars>>

ToolsSpec == ToolsInit /\ [][ToolsNext]_<<vars, vVars, cVars, component>>
===============================================================================
