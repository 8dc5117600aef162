--------------------------- MODULE MCCodexReducer ----------------------------
(* Instances of CodexReducer for TLC. *)
EXTENDS CodexReducer, TLC

CONSTANTS s1, s2, a1

Ev(s, turn, event, question, agent) ==
  [session |-> s, turn |-> turn, event |-> event, question |-> question,
   agent |-> agent]

Hook(event) == Ev(s1, 1, event, FALSE, NoAgent)

\* A session with a question, a subagent and its end, where the poll may find an
\* approval that waits; and another session that works.
MCEvents ==
  {Hook("PostToolUse"), Hook("Stop"), Hook("SessionEnd"),
   Ev(s1, 1, "PreToolUse", TRUE, NoAgent), Ev(s1, 1, "PostToolUse", TRUE, NoAgent),
   Ev(s1, 1, "SubagentStart", FALSE, a1), Ev(s1, 1, "SubagentStop", FALSE, a1),
   Ev(s2, 1, "UserPromptSubmit", FALSE, NoAgent)}

MCSymmetry == Permutations(Hooks)
=============================================================================
