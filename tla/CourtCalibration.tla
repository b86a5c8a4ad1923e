--------------------------- MODULE CourtCalibration ---------------------------
(***************************************************************************)
(* Stage 1, the calibration of the court (src/court).  Eight points are    *)
(* clicked, in a browser page served by calibrate_web or in the window of  *)
(* calibrate_interactive; homography, which reads the corners file they    *)
(* write, refuses corners whose order does not fit its frame.  The web     *)
(* server is threaded, ends itself two seconds after a submission it       *)
(* accepted, and kills the requests still running; the page submits at the *)
(* eighth click and does not lock its buttons meanwhile.  The frame the    *)
(* points are clicked on may be extracted again from another clip.         *)
(*                                                                         *)
(* A point is a pair of small numbers; numerical results are left out.     *)
(***************************************************************************)
EXTENDS Integers, SequencesExt, FiniteSetsExt

CONSTANTS
    CPages,         \* browser pages
    Layouts,        \* eight points somebody may click
    FrameSizes,     \* <<width, height>> of each extracted frame
    MaxSubmits,     \* bound of the model: submissions
    CNoFile, CTorn

CalibrationOrder ==
    <<"far_left", "far_right", "near_left", "near_right", "far_left_service",
      "far_right_service", "near_left_service", "near_right_service">>

\* The corners file: the points, which tool wrote it, and the frame it was using.
Corners == [points : Seq(Int \X Int), by : {"web", "window"}, frame : Nat]

ASSUME CalibrationAssumption ==
    /\ \A l \in Layouts : l \in Seq(Int \X Int) /\ Len(l) = 8
    /\ FrameSizes \in Seq(Nat \X Nat) /\ FrameSizes # <<>>
    /\ MaxSubmits \in Nat
    /\ {CNoFile, CTorn} \cap Corners = {}

VARIABLES
    cFrame,     \* which frame is in reference_frame.png
    cServer,    \* "down", "up", or "stopping" once serve_forever has returned
    cServed,    \* the frame whose size the server took when it started
    cTimers,    \* pending Timer(2.0, shutdown)
    cPage,      \* each page: the points clicked, and what it shows
    cSubmits,   \* submissions: where each is
    cWindow,    \* points clicked in the interactive window; CNoFile when closed
    cCorners    \* court_corners_pixel.json

cVars == <<cFrame, cServer, cServed, cTimers, cPage, cSubmits, cWindow, cCorners>>

-----------------------------------------------------------------------------
(* Checks                                                                  *)

Named(points, name) == points[CHOOSE k \in 1..8 : CalibrationOrder[k] = name]
XOf(points, name) == Named(points, name)[1]
YOf(points, name) == Named(points, name)[2]

InFrame(points, size) ==
    \A k \in DOMAIN points : points[k][1] \in 0..(size[1] - 1) /\ points[k][2] \in 0..(size[2] - 1)

LeftOfRight == {<<"far_left", "far_right">>, <<"near_left", "near_right">>,
                <<"far_left_service", "far_right_service">>,
                <<"near_left_service", "near_right_service">>}
FarAboveNear == {<<"far_left", "near_left">>, <<"far_right", "near_right">>,
                 <<"far_left_service", "near_left_service">>,
                 <<"far_right_service", "near_right_service">>}
ServicePoints == {"far_left_service", "far_right_service",
                  "near_left_service", "near_right_service"}

\* The service points lie in the box around the four corners.
InsideDoubles(points) ==
    LET x(name) == XOf(points, name)
        y(name) == YOf(points, name)
    IN  \A name \in ServicePoints :
          /\ x(name) \in Min({x("far_left"), x("near_left")})
                         ..Max({x("far_right"), x("near_right")})
          /\ y(name) \in Max({y("far_left"), y("far_right")})
                         ..Min({y("near_left"), y("near_right")})

\* Mutant: the order of far and near points is not checked.
ValidCalibration_NoFarNear(points, size) ==
    /\ InFrame(points, size)
    /\ \A pair \in LeftOfRight : XOf(points, pair[1]) < XOf(points, pair[2])
    /\ InsideDoubles(points)

\* sanitize_points and validate_calibration_points
ValidCalibration(points, size) ==
    /\ InFrame(points, size)
    /\ \A pair \in LeftOfRight : XOf(points, pair[1]) < XOf(points, pair[2])
    /\ \A pair \in FarAboveNear : YOf(points, pair[1]) < YOf(points, pair[2])
    /\ InsideDoubles(points)

\* orientation_validation of homography.py
OrientationPasses(points, size) ==
    /\ \A k \in DOMAIN points : /\ 0 <= points[k][1] /\ points[k][1] < size[1]
                                /\ 0 <= points[k][2] /\ points[k][2] < size[2]
    /\ \A pair \in FarAboveNear : YOf(points, pair[1]) < YOf(points, pair[2])
    /\ \A pair \in LeftOfRight : XOf(points, pair[1]) < XOf(points, pair[2])
    /\ size[1] > size[2]

-----------------------------------------------------------------------------
(* The page                                                                *)

PageStart == [clicked |-> <<>>, shown |-> ""]
ClickChoices(k) == {l[k] : l \in Layouts}

Server1 == <<cServer, cServed, cTimers>>

\* The eighth click submits what is in the list now.
ClickCorner(p, point) ==
    LET clicked == Append(cPage[p].clicked, point)
    IN  /\ Len(cPage[p].clicked) < 8
        /\ Len(clicked) = 8 => Len(cSubmits) < MaxSubmits
        /\ cPage' = [cPage EXCEPT ![p] = [clicked |-> clicked, shown |-> ""]]
        /\ cSubmits' = IF Len(clicked) < 8 THEN cSubmits
                       ELSE Append(cSubmits, [page |-> p, points |-> clicked, pc |-> "sent"])
        /\ UNCHANGED <<cFrame, Server1, cWindow, cCorners>>

UndoClick(p) ==
    /\ cPage[p].clicked # <<>>
    /\ cPage' = [cPage EXCEPT ![p] = [clicked |-> Front(@.clicked), shown |-> ""]]
    /\ UNCHANGED <<cFrame, Server1, cSubmits, cWindow, cCorners>>

ResetClicks(p) ==
    /\ cPage[p].clicked # <<>>
    /\ cPage' = [cPage EXCEPT ![p] = PageStart]
    /\ UNCHANGED <<cFrame, Server1, cSubmits, cWindow, cCorners>>

\* A refusal or a lost connection resets the list, whatever was clicked since.
Refusal(i) == [cPage EXCEPT ![cSubmits[i].page] = PageStart]

-----------------------------------------------------------------------------
(* The server                                                              *)

SubmitAt(i, pc) == i \in DOMAIN cSubmits /\ cSubmits[i].pc = pc
SubmitTo(i, pc) == cSubmits' = [cSubmits EXCEPT ![i].pc = pc]

StartServer ==
    /\ cServer = "down"
    /\ cServer' = "up"
    /\ cServed' = cFrame
    /\ UNCHANGED <<cFrame, cTimers, cPage, cSubmits, cWindow, cCorners>>

\* do_POST up to the write of the file, or the 400.
CheckSubmission(i) ==
    /\ SubmitAt(i, "sent")
    /\ cServer = "up"
    /\ IF ValidCalibration(cSubmits[i].points, FrameSizes[cServed])
       THEN SubmitTo(i, "write") /\ UNCHANGED cPage
       ELSE SubmitTo(i, "over") /\ cPage' = Refusal(i)
    /\ UNCHANGED <<cFrame, Server1, cWindow, cCorners>>

\* Mutant: the answer goes out before the file is written.
WriteCorners_Late(i) ==
    /\ SubmitAt(i, "write")
    /\ SubmitTo(i, "reply")
    /\ UNCHANGED <<cFrame, Server1, cPage, cWindow, cCorners>>

\* write_calibration_json; two writes at once may leave a mixture.
WriteCorners(i) ==
    /\ SubmitAt(i, "write")
    /\ \/ cCorners' = [points |-> cSubmits[i].points, by |-> "web", frame |-> cServed]
       \/ (\E j \in DOMAIN cSubmits \ {i} : SubmitAt(j, "write")) /\ cCorners' = CTorn
    /\ SubmitTo(i, "reply")
    /\ UNCHANGED <<cFrame, Server1, cPage, cWindow>>

\* The answer; then the timer is started.
AnswerSaved(i) ==
    /\ SubmitAt(i, "reply")
    /\ cPage' = [cPage EXCEPT ![cSubmits[i].page].shown = "saved"]
    /\ cTimers' = cTimers + 1
    /\ SubmitTo(i, "over")
    /\ UNCHANGED <<cFrame, cServer, cServed, cWindow, cCorners>>

\* A timer fires: serve_forever returns and the listening socket is closed.
ShutdownServer ==
    /\ cTimers > 0
    /\ cTimers' = cTimers - 1
    /\ cServer' = "stopping"
    /\ UNCHANGED <<cFrame, cServed, cPage, cSubmits, cWindow, cCorners>>

\* The process ends, of itself once no timer is left or by Ctrl-C: the threads of
\* the requests are daemons, and a file being written stays cut.
EndServer ==
    /\ cServer # "down"
    /\ cServer' = "down"
    /\ cTimers' = 0
    /\ cSubmits' = [i \in DOMAIN cSubmits |->
                       [cSubmits[i] EXCEPT !.pc = IF @ = "sent" THEN @ ELSE "over"]]
    /\ cCorners' \in {cCorners} \cup {CTorn : i \in {j \in DOMAIN cSubmits : SubmitAt(j, "write")}}
    /\ cPage' = [p \in CPages |->
                    IF \E i \in DOMAIN cSubmits :
                          cSubmits[i].page = p /\ cSubmits[i].pc \in {"write", "reply"}
                    THEN PageStart ELSE cPage[p]]
    /\ UNCHANGED <<cFrame, cServed, cWindow>>

\* A request nobody answers.
LoseSubmission(i) ==
    /\ SubmitAt(i, "sent")
    /\ cServer # "up"
    /\ SubmitTo(i, "over")
    /\ cPage' = Refusal(i)
    /\ UNCHANGED <<cFrame, Server1, cWindow, cCorners>>

-----------------------------------------------------------------------------
(* The interactive window: no check but the number of points               *)

OpenWindow ==
    /\ cWindow = CNoFile
    /\ cWindow' = <<>>
    /\ UNCHANGED <<cFrame, Server1, cPage, cSubmits, cCorners>>

ClickWindow(point) ==
    /\ cWindow # CNoFile
    /\ Len(cWindow) < 8
    /\ cWindow' = Append(cWindow, point)
    /\ UNCHANGED <<cFrame, Server1, cPage, cSubmits, cCorners>>

RetryLast ==
    /\ cWindow \notin {CNoFile, <<>>}
    /\ cWindow' = Front(cWindow)
    /\ UNCHANGED <<cFrame, Server1, cPage, cSubmits, cCorners>>

CancelWindow ==
    /\ cWindow # CNoFile
    /\ cWindow' = CNoFile
    /\ UNCHANGED <<cFrame, Server1, cPage, cSubmits, cCorners>>

\* Enter with eight points: the corners first, then the preview, whose failure
\* leaves the corners written.
ConfirmWindow ==
    /\ cWindow # CNoFile
    /\ Len(cWindow) = 8
    /\ cCorners' = [points |-> cWindow, by |-> "window", frame |-> cFrame]
    /\ cWindow' = CNoFile
    /\ UNCHANGED <<cFrame, Server1, cPage, cSubmits>>

-----------------------------------------------------------------------------
\* extract_reference_frame writes over the frame.
ExtractFrame ==
    /\ cFrame < Len(FrameSizes)
    /\ cFrame' = cFrame + 1
    /\ UNCHANGED <<Server1, cPage, cSubmits, cWindow, cCorners>>

C_Init ==
    /\ cFrame = 1
    /\ cServer = "down"
    /\ cServed = 1
    /\ cTimers = 0
    /\ cPage = [p \in CPages |-> PageStart]
    /\ cSubmits = <<>>
    /\ cWindow = CNoFile
    /\ cCorners = CNoFile

C_Next ==
    \/ \E p \in CPages :
        \/ \E point \in ClickChoices(Min({8, Len(cPage[p].clicked) + 1})) : ClickCorner(p, point)
        \/ UndoClick(p) \/ ResetClicks(p)
    \/ \E i \in DOMAIN cSubmits :
        \/ CheckSubmission(i) \/ WriteCorners(i) \/ AnswerSaved(i) \/ LoseSubmission(i)
    \/ StartServer \/ ShutdownServer \/ EndServer
    \/ OpenWindow \/ RetryLast \/ CancelWindow \/ ConfirmWindow
    \/ \E k \in 1..8 : \E point \in ClickChoices(k) :
          cWindow # CNoFile /\ k = Len(cWindow) + 1 /\ ClickWindow(point)
    \/ ExtractFrame

C_Spec == C_Init /\ [][C_Next]_cVars

-----------------------------------------------------------------------------
(***************************************************************************)
(* Properties                                                              *)
(***************************************************************************)

\* The browser tool and the homography check the same: what a page saved is never
\* refused later, unless the frame was replaced since the server started or is not
\* landscape.  (What the window saved may be refused.)
SavedCornersFit ==
    cCorners \notin {CNoFile, CTorn} /\ cCorners.by = "web" /\ cCorners.frame = cFrame
        /\ FrameSizes[cFrame][1] > FrameSizes[cFrame][2]
        => OrientationPasses(cCorners.points, FrameSizes[cFrame])

\* A page that says "saved" tells the truth: while no other submission was ever
\* sent and the window was not confirmed, the file holds the eight points of that
\* page's submission, whole, wherever the server was ended.
SavedIsSaved ==
    \A p \in CPages :
        cPage[p].shown = "saved" /\ Len(cSubmits) = 1
            /\ (cCorners \in {CNoFile, CTorn} \/ cCorners.by = "web")
            => cCorners \notin {CNoFile, CTorn} /\ cCorners.points = cSubmits[1].points
=============================================================================
