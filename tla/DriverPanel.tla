---------------------------- MODULE DriverPanel ----------------------------
(***************************************************************************)
(* GpuDriverManager (packages/unexus-shell) over DriverWizard: the panel   *)
(* of First Setup detects the GPU, offers the driver, and runs             *)
(* `pkexec unexusctl driver-apply --yes` in one QProcess.  The panel lives *)
(* and dies with the session; the root process it started does not.        *)
(* The machine modelled has an NVIDIA GPU, the only one an install is      *)
(* offered for.                                                            *)
(***************************************************************************)
EXTENDS DriverWizard

CONSTANTS NoJob, Dialog

ASSUME PanelAssumption == NoJob # Dialog /\ {NoJob, Dialog} \cap Processes = {}

VARIABLES
  panelState,      \* m_state: "Unknown", "Ready", "NeedsAction", "Installing",
                   \* "RebootRequired" or "Error"
  offered,         \* m_installRecommended
  job,             \* m_installProcess: NoJob, pkexec asking for a password (Dialog),
                   \* or the driver-apply it became; m_busy is job # NoJob
  \* History, read by properties only:
  promised         \* the number of applies when the panel last asked for a reboot

panelVars == <<panelState, offered, job, promised>>
allVars   == <<vars, panelVars>>

PanelDown ==
  /\ panelState' = "Unknown" /\ offered' = FALSE /\ job' = NoJob
  /\ UNCHANGED promised

\* publishDetection: lspci names no GPU, or the selected GPU runs on nvidia or does not.
Detect ==
  /\ \/ panelState' = "Error" /\ offered' = FALSE
     \/ /\ offered' = ~(Recommended \subseteq running)
        /\ panelState' = IF offered' THEN "NeedsAction" ELSE "Ready"
  /\ UNCHANGED <<job, promised>>

PanelInit ==
  Init /\ panelState = "Unknown" /\ offered = FALSE /\ job = NoJob /\ promised = 0

-----------------------------------------------------------------------------

\* The constructor of GpuDriverManager refreshes.
OpenSession == Login /\ Detect

\* Fault for PanelWaitsForApply: refresh does not look at m_busy.
PanelRefreshBusy == session /\ Detect /\ UNCHANGED vars

PanelRefresh ==
  /\ session /\ job = NoJob
  /\ Detect
  /\ UNCHANGED vars

\* Neither unexusctl nor pkexec may be there, and then nothing is started.
PanelInstall ==
  /\ session /\ job = NoJob /\ offered
  /\ \/ panelState' = "Installing" /\ job' = Dialog
     \/ panelState' = "Error" /\ UNCHANGED job
  /\ UNCHANGED <<vars, offered, promised>>

PanelAuthorized ==
  /\ job = Dialog
  /\ \E p \in Commands : StartApply(p) /\ job' = p
  /\ UNCHANGED <<panelState, offered, promised>>

\* installError (FailedToStart), or pkexec exits: no password, no rights.
PanelRefused ==
  /\ job = Dialog
  /\ job' = NoJob
  /\ panelState' = "Error"
  /\ UNCHANGED <<vars, offered, promised>>

\* Fault for PanelHonest: the exit code of driver-apply is not looked at.
PanelFinishBlind(p) ==
  /\ job = p /\ ApplyEnable(p)
  /\ job' = NoJob
  /\ panelState' = "RebootRequired" /\ promised' = applies
  /\ UNCHANGED offered

\* Fault for PanelAnswers: the failing branch returns before setBusy(false).
PanelFinishStuck(p) ==
  /\ job = p /\ ApplyEnable(p)
  /\ job' = IF staged' THEN NoJob ELSE job
  /\ panelState' = IF staged' THEN "RebootRequired" ELSE "Error"
  /\ UNCHANGED <<offered, promised>>

\* installFinished: driver-apply exits 0 exactly when it reported the switch as staged,
\* which its `systemctl enable` decides.
PanelFinish(p) ==
  /\ job = p /\ ApplyEnable(p)
  /\ job' = NoJob
  /\ \/ /\ guardEnabled' /\ staged'
        /\ panelState' = "RebootRequired" /\ promised' = applies
     \/ /\ MayFail("systemctl") /\ UNCHANGED <<guardEnabled, staged>>
        /\ panelState' = "Error" /\ UNCHANGED promised
  /\ UNCHANGED offered

CloseSession == SessionEnds /\ PanelDown

\* rebootNow, or the power button.
Reboot == Boot /\ PanelDown

\* A process the panel does not wait for.
Elsewhere(p) ==
  /\ Proceed(p)
  /\ ~(job = p /\ pc[p] = "apply_enable")
  /\ UNCHANGED panelVars

Command(p) == Elsewhere(p) \/ PanelFinish(p)

PanelNext ==
  \/ OpenSession \/ PanelRefresh \/ PanelInstall \/ PanelAuthorized \/ PanelRefused
  \/ CloseSession \/ Reboot
  \/ \E p \in Processes : Command(p)
  \/ /\ (\E p \in Commands : Start(p)) \/ GuardWakes \/ GuardTimesOut \/ TimerFires
     /\ UNCHANGED panelVars

PanelSpec ==
  /\ PanelInit /\ [][PanelNext]_allVars
  /\ \A p \in Processes : WF_allVars(Command(p))
  /\ WF_allVars(GuardWakes /\ UNCHANGED panelVars)
  /\ WF_allVars(TimerFires /\ UNCHANGED panelVars)

-----------------------------------------------------------------------------

\* When the panel asks for a reboot, the switch it staged is guarded, already confirmed
\* or already settled, until somebody begins another switch, and whatever guard, session
\* and other shells do to this one meanwhile (`clean` as for the wizard's properties).
PanelHonest ==
  clean /\ panelState = "RebootRequired" /\ applies = promised =>
    guardEnabled \/ accepted \/ ~pending

\* While the panel shows a running install, that install runs; nothing else (a refresh,
\* the guard, another shell) takes the display away from it.
PanelWaitsForApply ==
  job # NoJob => panelState = "Installing" /\ (job = Dialog \/ pc[job] \in ApplySteps)

\* An install the user authorized always ends in an answer, RebootRequired or Error.
PanelAnswers == job \in Processes ~> job = NoJob
=============================================================================
