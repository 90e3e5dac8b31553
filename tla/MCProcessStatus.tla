-------------------------- MODULE MCProcessStatus ---------------------------
(***************************************************************************)
(* An instance of ProcessStatus for TLC.                                    *)
(***************************************************************************)
EXTENDS ProcessStatus

OneLoadPage   == {CodePage}
OneBufferSize == {1048576}
MCKillPids    == Pids
=============================================================================
