----------------------------- MODULE MCRollback -----------------------------
(***************************************************************************)
(* Small instances of Rollback: an empty text, a text, and the same text   *)
(* with CRLF line ends.                                                    *)
(***************************************************************************)
EXTENDS Rollback

CONSTANTS empty, unix, dos

MCText == {empty, unix, dos}
MCNormal == [t \in MCText |-> IF t = dos THEN unix ELSE t]

\* write_text leaves LF alone on Unix; on Windows it writes CRLF for it.
MCWrittenUnix == [t \in MCText |-> t]
MCWrittenWindows == [t \in MCText |-> IF t = unix THEN dos ELSE t]
=============================================================================
