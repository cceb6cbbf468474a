----------------------------- MODULE MCSftpServer -----------------------------
(***************************************************************************)
(* An instance of SftpServer for TLC.  One entry of the directory cannot   *)
(* be described, and a listing takes two answers.                          *)
(***************************************************************************)
EXTENDS SftpServer

MCFlagSets == {{"READ", "WRITE"}, {"WRITE", "CREAT"}, {"WRITE", "CREAT", "TRUNC"},
               {"READ", "WRITE", "CREAT", "EXCL"}}
=============================================================================
