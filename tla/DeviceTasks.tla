----------------------------- MODULE DeviceTasks -----------------------------
(* What the merge and the screen of the device share (app_state.h).         *)
EXTENDS Naturals

CONSTANTS
  TaskIDs,
  MaxTasks,  \* APP_MAX_TASKS
  None

Ranks == 0..4      \* app_protocol_state_priority, which is one per state
=============================================================================
