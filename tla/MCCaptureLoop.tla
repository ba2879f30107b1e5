---------------------------- MODULE MCCaptureLoop ----------------------------
(***************************************************************************)
(* TLC instances of CaptureLoop.                                           *)
(***************************************************************************)
EXTENDS CaptureLoop

\* A second sequence is longer by a third, enough to be captured again;
\* the token a probe leaves is not.
Growing == [a \in Artifact |-> IF a = CHOOSE b \in Artifact : TRUE THEN 6 ELSE 8]

=============================================================================
