------------------------------ MODULE MCKernel ------------------------------
(***************************************************************************)
(* Instances of Kernel for TLC.  Four slots and eight frames keep the ratio  *)
(* of the code (16 slots, 32 frames): one frame is never allocated, one goes *)
(* to the kernel directory, and the last slot finds no frame left.           *)
(***************************************************************************)
EXTENDS Kernel

MCLoadPages   == {CodePage, KernelPage}
OneLoadPage   == {CodePage}
\* the shell's 1 MiB, and a size that needs more than eight page frames
MCBufferSizes == {1048576, 33554432}
OneBufferSize == {1048576}
MCKillPids    == Pids
=============================================================================
