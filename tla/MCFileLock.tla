----------------------------- MODULE MCFileLock -----------------------------
(***************************************************************************)
(* Small instances of FileLock for TLC.                                    *)
(***************************************************************************)
EXTENDS FileLock

CONSTANTS u1, u2, u3

AllUsers == {u1, u2, u3}
TwoUsers == {u1, u2}
OneStealer == {u1}
NoStealer == {}
=============================================================================
