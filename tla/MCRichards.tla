------------------------------- MODULE MCRichards -------------------------------
EXTENDS RichardsTimeLoop

\* A deck on which the others are variations: 20 ticks, constant step 8.
MCDeck ==
  [start_time |-> 0, stop_time |-> 20, start_count |-> 0,
   max_iterations |-> 12, max_failures |-> 3,
   time_step |-> [type |-> "Constant", step |-> 8],
   dump_interval |-> 7, clm_dump_interval |-> 0, clm_reuse |-> 1,
   well_cycles |-> {}, bc_cycles |-> {},
   lsm |-> FALSE, prints |-> TRUE, print_sums |-> TRUE, print_clm |-> FALSE,
   logging |-> TRUE, dump_at_end |-> FALSE, time_limit |-> FALSE]

MCGrowth == [type |-> "Growth", initial |-> 3, factor |-> 2, min |-> 3, max |-> 9]

MCCycle == [ends |-> <<1, 3>>, repeat |-> -1]

\* Decks without a land surface model.
MCPlain ==
  {[MCDeck EXCEPT !.time_step = ts, !.dump_interval = di, !.dump_at_end = de,
                  !.max_iterations = mi, !.bc_cycles = bc] :
     ts \in {MCDeck.time_step, MCGrowth}, di \in {7, -2, 0}, de \in BOOLEAN,
     mi \in {3, 12}, bc \in {{}, {MCCycle}}}
  \cup {[MCDeck EXCEPT !.prints = FALSE, !.logging = FALSE, !.start_count = 4],
        [MCDeck EXCEPT !.print_sums = FALSE, !.time_limit = TRUE],
        [MCDeck EXCEPT !.start_time = 4, !.well_cycles = {MCCycle},
                       !.bc_cycles = {MCCycle}]}

\* Decks paced by a land surface model.
MCLsm ==
  {[MCDeck EXCEPT !.lsm = TRUE, !.print_clm = TRUE, !.time_step = ts,
                  !.dump_interval = di, !.clm_dump_interval = ci,
                  !.clm_reuse = re] :
     ts \in {MCDeck.time_step, [type |-> "Constant", step |-> 5]},
     di \in {7, -2, 8}, ci \in {8, -1}, re \in {1, 2}}

\* TimingInfo.StartCount -1: only subsurface data is wanted.
MCSubsurfaceOnly == {[MCDeck EXCEPT !.start_count = -1]}

\* Wells that change later than the boundary conditions.
MCWellsAndBC ==
  {[MCDeck EXCEPT !.time_step = [type |-> "Constant", step |-> 20], !.dump_interval = 0,
                  !.well_cycles = {[ends |-> <<2, 3>>, repeat |-> -1]},
                  !.bc_cycles = {MCCycle}]}

MCProblems == MCPlain \cup MCLsm \cup MCSubsurfaceOnly
================================================================================
