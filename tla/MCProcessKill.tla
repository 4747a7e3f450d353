---------------------------- MODULE MCProcessKill ----------------------------
(***************************************************************************)
(* Small instances of ProcessKill: two ordinary processes, one with a      *)
(* name that is no UTF-8, one whose name may not be read, and two pids for *)
(* them to take in turn.                                                   *)
(***************************************************************************)
EXTENDS ProcessKill

CONSTANTS daemon, other, umlaut, setuid, one, two

MCPid == {one, two}
MCProcess == {daemon, other, umlaut, setuid}
MCUndecodable == {umlaut}
MCHidden == {setuid}
=============================================================================
