--------------------------------- MODULE MCWrf ---------------------------------
EXTENDS WrfParflow

MCDeck ==
  [start_time |-> 0, stop_time |-> 40, start_count |-> 0,
   max_iterations |-> 20, max_failures |-> 3,
   time_step |-> [type |-> "Constant", step |-> 8],
   dump_interval |-> 7, clm_dump_interval |-> 0, clm_reuse |-> 1,
   well_cycles |-> {}, bc_cycles |-> {},
   lsm |-> FALSE, prints |-> TRUE, print_sums |-> FALSE, print_clm |-> FALSE,
   logging |-> TRUE, dump_at_end |-> FALSE, time_limit |-> FALSE]

\* Ample iterations, an iteration limit that the coupled run exceeds, and a batch
\* job that may run out of time.
MCProblems == {MCDeck, [MCDeck EXCEPT !.dump_interval = -1],
               [MCDeck EXCEPT !.max_iterations = 2],
               [MCDeck EXCEPT !.time_limit = TRUE],
               [MCDeck EXCEPT !.dump_at_end = TRUE, !.dump_interval = 0]}

MCOneDeck == {MCDeck}
MCShortLog == {[MCDeck EXCEPT !.max_iterations = 2]}
================================================================================
