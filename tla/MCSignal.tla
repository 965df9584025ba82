------------------------------ MODULE MCSignal ------------------------------
(***************************************************************************)
(* Instances of Signal for TLC: a process of two threads.                  *)
(***************************************************************************)
EXTENDS Signal, TLC

CONSTANTS t1, t2

SIGUSR1 == 10

MCThread == {t1, t2}
MCSymmetry == Permutations(MCThread)
MCActions == {<<SIGUSR1, "IGN">>, <<SIGUSR1, "user">>}
MCExceptions == {SIGILL, SIGTRAP}

MCSig == {SIGUSR1, SIGCONT, SIGSTOP, SIGTSTP}
MCProcessSig == {SIGUSR1}
MCMasks == {{SIGKILL, SIGSTOP}}
=============================================================================
