-------------------------- MODULE MCIPMsgTransfer --------------------------
(* The instance of IPMsgTransfer for TLC: files as model values.           *)
EXTENDS IPMsgTransfer, TLC
CONSTANTS f1, f2
MCFiles == {f1, f2}
MCOneFile == {f1}
\* f2's last chunk stays in QFile's buffer.
MCLastChunk == [f \in Files |-> IF f = f2 THEN "small" ELSE "short"]
=============================================================================
