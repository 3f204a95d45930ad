----------------------------- MODULE MCPrograms -----------------------------
(* The programs of the robot's Linux side that share no state in these models:   *)
(* one run of TLC takes each of them through its behaviours. "program" is chosen *)
(* once; the variables of the others keep their initial values.                  *)
EXTENDS ChassisNode, StateExports, VoiceTurn, ChatControl, NavigationPreview, SiteChange,
        WebViewer, ScreenController, TargetLocalization, LidarOdometry, SpeakerDirection

VARIABLE program

perceptionVars == <<localizationVars, odometryVars, directionVars>>

\* A chair that is where it was or seems moved, two chairs side by side, a walker.
Chair(p) == [kind |-> "chair", pos |-> p]
MCScenes == {<<Chair(0)>>, <<Chair(3)>>, <<Chair(0), Chair(0)>>, <<[kind |-> "person", pos |-> 0]>>}

AllPrograms == {"chassis", "exports", "voice", "chat", "preview", "map", "site", "viewer", "screen",
                "localizer", "odometry", "direction"}

\* Each is taken with one choice of initial state of the others.
Init ==
  /\ program \in AllPrograms
  /\ ChassisInit /\ ExportInit /\ VoiceInit /\ ChatInit /\ PreviewInit
  /\ SemanticInit /\ SiteInit /\ ViewerInit /\ ScreenInit
  /\ LocalizationInit /\ OdometryInit /\ DirectionInit
  /\ program # "chat" => chat.program = "chat"
  /\ program # "screen" => radio = "system"

\* Anything may publish velocities to the chassis node.
Chassis ==
  /\ program = "chassis"
  /\ ChassisStep \/ \E v \in {Ahead, Rest} :
       Published(v) /\ UNCHANGED <<nodeVars, orphans, sinceMove, wheels, faults>>
  /\ UNCHANGED <<program, exportVars, voiceVars, chatVars, previewVars, semanticVars,
                siteVars, viewerVars, screenVars, perceptionVars>>

Exports ==
  /\ program = "exports"
  /\ ExportStep
  /\ UNCHANGED <<program, chassisVars, voiceVars, chatVars, previewVars, semanticVars,
                siteVars, viewerVars, screenVars, perceptionVars>>

Voice ==
  /\ program = "voice"
  /\ VoiceStep
  /\ UNCHANGED <<program, chassisVars, exportVars, chatVars, previewVars, semanticVars,
                siteVars, viewerVars, screenVars, perceptionVars>>

Chat ==
  /\ program = "chat"
  /\ ChatStep
  /\ UNCHANGED <<program, chassisVars, exportVars, voiceVars, previewVars, semanticVars,
                siteVars, viewerVars, screenVars, perceptionVars>>

Preview ==
  /\ program = "preview"
  /\ PreviewStep
  /\ UNCHANGED <<program, chassisVars, exportVars, voiceVars, chatVars, semanticVars,
                siteVars, viewerVars, screenVars, perceptionVars>>

\* A request has the time to grow too old; the landmarks are followed for one flush period.
Map ==
  /\ program = "map"
  /\ SemanticStep(0) /\ now' <= FlushPeriod
  /\ UNCHANGED <<program, chassisVars, exportVars, voiceVars, chatVars, previewVars,
                siteVars, viewerVars, screenVars, perceptionVars>>

\* A site change on an empty map, whose flushes go on.
Site ==
  /\ program = "site"
  /\ \/ SiteStep
     \/ (FlushSkipped("http") \/ WriteMain("http") \/ WriteBackup \/ WriteFails("http") \/ Passes)
        /\ UNCHANGED siteVars
  /\ UNCHANGED <<program, chassisVars, exportVars, voiceVars, chatVars, previewVars,
                viewerVars, screenVars, perceptionVars>>

Viewer ==
  /\ program = "viewer"
  /\ ViewerStep
  /\ UNCHANGED <<program, chassisVars, exportVars, voiceVars, chatVars, previewVars,
                semanticVars, siteVars, screenVars, perceptionVars>>

\* Other programs ask for faces, and the user chooses one that is not the first, only in
\* the behaviours that follow the system page.
Screen ==
  /\ program = "screen"
  /\ ScreenStep
  /\ radio # "system" => UNCHANGED api /\ scr'.var # "hello"
  /\ UNCHANGED <<program, chassisVars, exportVars, voiceVars, chatVars, previewVars,
                semanticVars, siteVars, viewerVars, perceptionVars>>

Localization ==
  /\ program = "localizer"
  /\ LocalizationStep
  /\ UNCHANGED <<program, chassisVars, exportVars, voiceVars, chatVars, previewVars,
                semanticVars, siteVars, viewerVars, screenVars, odometryVars, directionVars>>

LaserOdometry ==
  /\ program = "odometry"
  /\ OdometryStep
  /\ UNCHANGED <<program, chassisVars, exportVars, voiceVars, chatVars, previewVars,
                semanticVars, siteVars, viewerVars, screenVars, localizationVars, directionVars>>

Direction ==
  /\ program = "direction"
  /\ DirectionStep
  /\ UNCHANGED <<program, chassisVars, exportVars, voiceVars, chatVars, previewVars, semanticVars,
                siteVars, viewerVars, screenVars, localizationVars, odometryVars>>

Next == Chassis \/ Exports \/ Voice \/ Chat \/ Preview \/ Map \/ Site \/ Viewer \/ Screen
        \/ Localization \/ LaserOdometry \/ Direction

Spec == Init /\ [][Next]_<<program, chassisVars, exportVars, voiceVars, chatVars, previewVars,
                           semanticVars, siteVars, viewerVars, screenVars, perceptionVars>>
=============================================================================
