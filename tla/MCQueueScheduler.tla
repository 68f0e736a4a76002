--------------------------- MODULE MCQueueScheduler ---------------------------
(***************************************************************************)
(* Small instances of QueueScheduler for TLC.  All commands at once are    *)
(* too many; each set below holds the ones that meet in one question, and  *)
(* between them the runs give every command to the scheduler.              *)
(***************************************************************************)
EXTENDS QueueScheduler

\* The user's commands on single tasks, the user's own turn and (with
\* AnyPressure) the safety floor, against a pass of the pump.
StopCommands == {"pause_task", "resume_task", "cancel", "set_busy"}

\* A start from a saved queue, the media host, the holds on the whole queue, a
\* runner that cannot start a thread, and a close.
LifetimeCommands == {"restore", "media", "resume_task", "cancel", "close",
                     "set_paused", "set_runtime_paused", "performance",
                     "thread_fails"}

\* What may leave a reservation behind: a pause between Request and Launch.
PauseCommands == {"pause_task", "resume_task"}

\* Everything that stops, forces or races one run of one task.
RunCommands == {"cancel", "override", "set_busy", "set_runtime_paused",
                "thread_fails", "media"}

\* The override of a task that the user also pauses and resumes.
OverrideCommands == PauseCommands \cup {"override"}

NoPressure == {"clear"}
AnyPressure == {"clear", "between", "breach"}
FreeOnly == {"free"}
AnyLevel == {"free", "busy"}
=============================================================================
