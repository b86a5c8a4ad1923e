----------------------------- MODULE SingleRally -----------------------------
(***************************************************************************)
(* The publication of an Analysis Bundle (src/product/analysis_bundle), as *)
(* the import of a single rally does it: the source video is hashed, the   *)
(* bundle is built in a temporary directory beside the output, validated,  *)
(* and moved into place; an earlier output is first moved aside, and       *)
(* removed at the end.  Nothing locks the output: imports of the same      *)
(* session run at once, the video may be replaced meanwhile, and a process *)
(* dies anywhere.                                                          *)
(***************************************************************************)
EXTENDS RallyImport

CONSTANTS
    Importers,      \* processes
    RallyInputs,    \* descriptors with the files they name
    NoBundle,
    MaxBuilds, MaxSources   \* bounds of the model

Bundle == [build : Nat, input : RallyInputs, session : Nat, manifest : Nat]

ASSUME RallyAssumption ==
    /\ \A in \in RallyInputs :
          /\ in.events \in Seq(RawEvent) /\ in.track \in Seq(RawRow)
          /\ in.start \in Int /\ \A f \in DOMAIN in.stamps : in.stamps[f] \in Int
          /\ in.court.homography \in Homographies
    /\ NoBundle \notin Bundle

VARIABLES
    sSource,    \* version of the source video
    sOutput,    \* the published directory
    sBackups,   \* directories moved aside, under names of their own
    sProc,      \* each process
    sBuilds,    \* imports begun
    sNewest     \* history: build of the last directory moved into place

sVars == <<sSource, sOutput, sBackups, sProc, sBuilds, sNewest>>

-----------------------------------------------------------------------------
SIdle == [pc |-> "idle", overwrite |-> FALSE, temp |-> NoBundle, backup |-> NoBundle]

PcIs(p, pc) == sProc[p].pc = pc
GoOn(p, pc) == sProc' = [sProc EXCEPT ![p].pc = pc]
Leave(p) == sProc' = [sProc EXCEPT ![p] = SIdle]

\* import_single_rally up to the temporary directory, and its session.json with
\* the hash the video has now.
ImportRally(p, in, overwrite) ==
    /\ PcIs(p, "idle")
    /\ sBuilds < MaxBuilds
    /\ ImportAccepts(in)
    /\ sBuilds' = sBuilds + 1
    /\ sProc' = [sProc EXCEPT ![p] =
                    [pc |-> "build", overwrite |-> overwrite, backup |-> NoBundle,
                     temp |-> [build |-> sBuilds + 1, input |-> in,
                               session |-> sSource, manifest |-> 0]]]
    /\ UNCHANGED <<sSource, sOutput, sBackups, sNewest>>

\* Mutant: the temporary bundle is not validated.
TempAccepted_Unchecked(p) == Packable(sProc[p].temp.input)

\* _copy_inputs parses every file; validate_bundle(temp) compares session.json with
\* the manifest, whose hash of the video is taken now.
TempAccepted(p) ==
    /\ Packable(sProc[p].temp.input)
    /\ sProc[p].temp.session = sSource

\* build_bundle up to the publication.
BuildTemp(p) ==
    /\ PcIs(p, "build")
    /\ IF (sOutput = NoBundle \/ sProc[p].overwrite) /\ TempAccepted(p)
       THEN sProc' = [sProc EXCEPT ![p].pc = "look", ![p].temp.manifest = sSource]
       ELSE Leave(p)
    /\ UNCHANGED <<sSource, sOutput, sBackups, sBuilds, sNewest>>

\* output.exists()
LookAtOutput(p) ==
    /\ PcIs(p, "look")
    /\ IF sOutput = NoBundle THEN GoOn(p, "replace")
       ELSE IF sProc[p].overwrite THEN GoOn(p, "aside")
       ELSE Leave(p)
    /\ UNCHANGED <<sSource, sOutput, sBackups, sBuilds, sNewest>>

\* Mutant: the earlier bundle is deleted instead of moved.
MoveAside_Delete(p) ==
    /\ PcIs(p, "aside")
    /\ sOutput' = NoBundle
    /\ GoOn(p, "replace")
    /\ UNCHANGED <<sSource, sBackups, sBuilds, sNewest>>

\* os.replace(output, backup) fails when another import moved it first.
MoveAside(p) ==
    /\ PcIs(p, "aside")
    /\ IF sOutput = NoBundle
       THEN Leave(p) /\ UNCHANGED <<sOutput, sBackups>>
       ELSE /\ sProc' = [sProc EXCEPT ![p].pc = "replace", ![p].backup = sOutput]
            /\ sBackups' = sBackups \cup {sOutput}
            /\ sOutput' = NoBundle
    /\ UNCHANGED <<sSource, sBuilds, sNewest>>

ReplaceOutput(p) ==
    /\ PcIs(p, "replace")
    /\ sOutput = NoBundle
    /\ sOutput' = sProc[p].temp
    /\ sNewest' = sProc[p].temp.build
    /\ GoOn(p, "clean")
    /\ UNCHANGED <<sSource, sBackups, sBuilds>>

\* os.replace(temp, output) fails, on an I/O error or on the directory another
\* import put there; the backup goes back when the place is free.
ReplaceFails(p) ==
    LET mine == sProc[p].backup
    IN  /\ PcIs(p, "replace")
        /\ IF mine # NoBundle /\ sOutput = NoBundle
           THEN sOutput' = mine /\ sBackups' = sBackups \ {mine}
           ELSE UNCHANGED <<sOutput, sBackups>>
        /\ Leave(p)
        /\ UNCHANGED <<sSource, sBuilds, sNewest>>

RemoveBackup(p) ==
    /\ PcIs(p, "clean")
    /\ sBackups' = sBackups \ {sProc[p].backup}
    /\ GoOn(p, "check")
    /\ UNCHANGED <<sSource, sOutput, sBuilds, sNewest>>

\* validate_bundle and validate_single_rally_bundle look at what is in place now,
\* after it was published; what they refuse stays.
CheckOutput(p) ==
    /\ PcIs(p, "check")
    /\ Leave(p)
    /\ UNCHANGED <<sSource, sOutput, sBackups, sBuilds, sNewest>>

ImporterDies(p) ==
    /\ ~PcIs(p, "idle")
    /\ Leave(p)
    /\ UNCHANGED <<sSource, sOutput, sBackups, sBuilds, sNewest>>

ReplaceVideo ==
    /\ sSource < MaxSources
    /\ sSource' = sSource + 1
    /\ UNCHANGED <<sOutput, sBackups, sProc, sBuilds, sNewest>>

S_Init ==
    /\ sSource = 1
    /\ sOutput = NoBundle
    /\ sBackups = {}
    /\ sProc = [p \in Importers |-> SIdle]
    /\ sBuilds = 0
    /\ sNewest = 0

S_Next ==
    \/ \E p \in Importers :
        \/ \E in \in RallyInputs, overwrite \in BOOLEAN : ImportRally(p, in, overwrite)
        \/ BuildTemp(p) \/ LookAtOutput(p) \/ MoveAside(p) \/ ReplaceOutput(p)
        \/ ReplaceFails(p) \/ RemoveBackup(p) \/ CheckOutput(p) \/ ImporterDies(p)
    \/ ReplaceVideo

S_Spec == S_Init /\ [][S_Next]_sVars

-----------------------------------------------------------------------------
(***************************************************************************)
(* Properties                                                              *)
(***************************************************************************)

\* A bundle in place, whoever put it there, names one video in both its documents,
\* and the single-rally validation, which runs only afterwards on the files as they
\* were written, accepts it, unless its inputs have one of the flaws of
\* OnlyValidatorRefuses, which the import hands on unchecked: then a refused bundle
\* stays published.
PublishedBundleSound ==
    sOutput # NoBundle =>
        /\ sOutput.session = sOutput.manifest
        /\ RallyAccepts(RallyFiles(sOutput.input)) <=> ~OnlyValidatorRefuses(sOutput.input)

\* Wherever imports die, fail or meet each other, the last bundle that was moved
\* into place is still on disk, at the output or under a backup's name.
NewestBundleKept ==
    sNewest # 0 => \E b \in sBackups \cup ({sOutput} \ {NoBundle}) : b.build = sNewest
=============================================================================
