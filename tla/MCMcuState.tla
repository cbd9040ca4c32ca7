----------------------------- MODULE MCMcuState -----------------------------
(* One lock, two commands besides hibernation and one event besides those of *)
(* waking: the values are only told apart by their order in a queue.         *)
EXTENDS McuState

MCLock == {"LED"}
MCCommand == {"a", "b"}
MCEvent == {"e"}
=============================================================================
