---------------------------- MODULE SerialAdmission ----------------------------
(***************************************************************************)
(* CaptureAdmission with a history variable, serial: so far no two calls,  *)
(* and no call and a pin or unpin command, have overlapped.  What the      *)
(* comments of cli.py and daemon/capture.py promise of the store as a      *)
(* whole is promised to calls made one after the other, whatever calls     *)
(* failed or died between the steps of earlier ones.                       *)
(***************************************************************************)
EXTENDS CaptureAdmission

VARIABLE serial

Overlap ==
    \/ Cardinality(ActiveJobs') > 1
    \/ ActiveJobs # {} /\ pc' = pc /\ pins' # pins

SerialInit == Init /\ serial = TRUE

SerialNext == Next /\ serial' = (serial /\ ~Overlap)

SerialSpec == SerialInit /\ [][SerialNext]_<<vars, serial>>

-----------------------------------------------------------------------------
(* Properties *)

\* An artifact with a marker is held: "a standing prefix (a seeded harness head)
\* must survive capture churn" (daemon/capture.py:493, 518), whatever calls
\* failed or died between the steps of earlier ones.
PinnedIsHeld == serial => pins \subseteq held

\* Captures and seeds never leave two held artifacts of one prefix for one
\* model: "re-admitting mints a second copy" stamped as the newest (cli.py:306).
OnePerPrefix ==
    serial => \A a, b \in held :
        /\ call[a].kind # "prewarm" /\ call[b].kind # "prewarm"
        /\ call[a].model = call[b].model /\ call[a].prefix = call[b].prefix
        => a = b

\* A saved state is removed from disk only when some held artifact covers its
\* prefix on its model, or when its admission was refused: "already held" is
\* true of what is thrown away (cli.py:312-328).
DiscardedWasHeld ==
    [][serial' => \A j \in raw \ raw' :
          \/ pc'[j] = "refused"
          \/ \E a \in held : /\ call[a].model = call[j].model
                             /\ call[a].prefix = call[j].prefix]_<<vars, serial>>

=============================================================================
