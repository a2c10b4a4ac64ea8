------------------------------- MODULE MCIPCCopy -------------------------------
(* Instances of IPCCopy whose processes may be killed or interrupted. *)
EXTENDS IPCCopy

MCFaults == {"interrupt", "kill"} \X Threads
MCReaderKilled == {<<"kill", Reader>>}

=============================================================================
