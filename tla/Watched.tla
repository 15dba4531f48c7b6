-------------------------------- MODULE Watched --------------------------------
(***************************************************************************)
(* The machine under observation: Machine with the history variables the   *)
(* components' own specifications have, each updated as there and read by  *)
(* no action.  With them the whole machine is seen to implement every one  *)
(* of its components: what the controller, the interrupt control, the      *)
(* timers and the frame hand-over do alone, driven by an arbitrary         *)
(* environment, is all they do in the order gb_machine_step calls them.    *)
(***************************************************************************)
EXTENDS Machine, LcdAlone

VARIABLES
    halted_at,      \* the HALT that set the flag, as in InterruptsAlone
    steady,         \* what TIMA has been counting by, as in TimersAlone
    drawn,          \* the lines rendered since the last picture, and whether
    disturbed       \* the raster left its order meanwhile, as in Frames

watched == <<vars, vblanks, halted_at, steady, drawn, disturbed>>

WatchedInit ==
    /\ Init
    /\ vblanks = 0 /\ halted_at = "code" /\ steady = "none"
    /\ drawn = {} /\ disturbed = TRUE

(* A step of the machine, and what is remembered of it: v, h, s, d and u   *)
(* are the next values of the history variables in their order above.      *)
WatchInstruction(v, h, s, d, u) ==
    /\ \E W \in Writes :
          /\ Execute(W)
          /\ s = IF "TAC" \in W THEN "none" ELSE steady
    /\ h = IF ~HALT' THEN "code" ELSE IF HALT THEN halted_at ELSE PC
    /\ u = (disturbed \/ (LY # 0 /\ LY' = 0) \/ ~LCDC_enabled')
    /\ v = vblanks /\ d = drawn

WatchStep(v, h, s, d, u) ==
    /\ \E t \in Costs, Rt \in TimerRequests, Rl \in LcdRequests :
          /\ StepDevices(t, Rt, Rl)
          /\ v = IF "VBLANK" \in Rl THEN 1 - vblanks ELSE vblanks
          /\ s = IF TAC_on /\ ~TIMA_enabled THEN TAC_select
                 ELSE IF TAC_on /\ t <= Interval[TAC_select] THEN steady
                 ELSE "none"
    /\ h = halted_at /\ d = drawn /\ u = disturbed

WatchDraw(v, h, s, d, u) ==
    /\ Draw
    /\ d = IF CanScan THEN drawn \cup {LY} ELSE drawn
    /\ v = vblanks /\ h = halted_at /\ s = steady /\ u = disturbed

WatchPresent(v, h, s, d, u) ==
    /\ PresentPicture
    /\ d = {} /\ u = FALSE
    /\ v = vblanks /\ h = halted_at /\ s = steady

WatchOther(v, h, s, d, u) ==
    /\ Input \/ DispatchEvents \/ User
    /\ v = vblanks /\ h = halted_at /\ s = steady /\ d = drawn /\ u = disturbed

Watch(v, h, s, d, u) ==
    \/ WatchInstruction(v, h, s, d, u) \/ WatchStep(v, h, s, d, u)
    \/ WatchDraw(v, h, s, d, u) \/ WatchPresent(v, h, s, d, u)
    \/ WatchOther(v, h, s, d, u)

WatchedNext == Watch(vblanks', halted_at', steady', drawn', disturbed')

WatchedSpec == WatchedInit /\ [][WatchedNext]_watched /\ WF_vars(Emulator)

-----------------------------------------------------------------------------
(* The components, each seeing the calls it takes part in: the others pass *)
(* while its own stage stands still.                                       *)

Control == INSTANCE InterruptProofs
             WITH stage <- IF stage = "DISPLAY" THEN "CPU" ELSE stage,
                  Requests <- SUBSET Ints

Clocks == INSTANCE TimersProofs
            WITH stage <- CASE stage = "DISPLAY" -> "CPU"
                            [] stage = "INPUT" -> "INTERRUPT"
                            [] OTHER -> stage

Window == INSTANCE FramesProofs
            WITH stage <- IF stage = "INPUT" THEN "INTERRUPT" ELSE stage,
                 key_waiting <- key_events # <<>>

(* Interrupt control, timers, frame hand-over and raster are each          *)
(* implemented by the whole machine.                                       *)
ComponentsImplemented ==
    /\ Control!SafetySpec /\ Clocks!SafetySpec /\ Window!SafetySpec
    /\ RasterImplemented

=============================================================================
