---------------------------- MODULE MCImportExport ----------------------------
(***************************************************************************)
(* Two processes, two artifacts of one stem and one slot.                  *)
(***************************************************************************)
EXTENDS ImportExport

CONSTANTS t1, t2, a1, a2

MCStem == [a \in Path |-> "stem"]

Attention == [model |-> 1, reuses |-> TRUE, persists |-> FALSE, format |-> "", version |-> 2,
              emits |-> 2, target |-> FALSE, active |-> {}, kv |-> FALSE]
Hybrid == [model |-> 1, reuses |-> FALSE, persists |-> TRUE, format |-> "sckp/1", version |-> 3,
           emits |-> 3, target |-> TRUE, active |-> {"target"}, kv |-> TRUE]

MCRuntimes == {Attention, Hybrid, [Attention EXCEPT !.persists = TRUE, !.format = "sckp/1"],
               [Hybrid EXCEPT !.emits = 2], [Hybrid EXCEPT !.active = {"target", "draft"}]}

State(t) == [of |-> t, extra |-> FALSE]

Of(r, t) == [intact |-> TRUE, model |-> r.model, abi |-> CacheAbi(r), format |-> ExportFormat(r),
             coverage |-> State(t), head |-> State(t), sha |-> State(t), payload |-> State(t)]

MCForeign == {Of(Attention, t1), Of(Hybrid, t1),
              [Of(Hybrid, t1) EXCEPT !.coverage = State(t2)],
              [Of(Attention, t1) EXCEPT !.sha = State(t2)],
              [Of(Attention, t1) EXCEPT !.intact = FALSE],
              [Of(Attention, t1) EXCEPT !.model = 2]}

\* Only t1, the state of the artifacts that are there, may be worth less.
MCInit ==
    /\ Init
    /\ file[a2] = None /\ worth[t2] = "good"
    /\ \A s \in Slot : content[s] \in {Empty, State(t2)}

MCSpec == MCInit /\ [][Next]_vars

=============================================================================
