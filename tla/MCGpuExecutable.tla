--------------------------- MODULE MCGpuExecutable ---------------------------
(***************************************************************************)
(* Three small programs and the jobs made of them.  Cells 1 to 3 hold      *)
(* arguments, cell 4 a constant; the rest is for the runs to allocate.     *)
(***************************************************************************)
EXTENDS ThunkSemantics

Param(p, live_out) == [kind |-> "param", param |-> p, cell |-> 0, live_out |-> live_out]
Constant(c)  == [kind |-> "constant", param |-> 0, cell |-> c, live_out |-> FALSE]
Temp         == [kind |-> "temp", param |-> 0, cell |-> 0, live_out |-> FALSE]
LiveOut      == [kind |-> "output", param |-> 0, cell |-> 0, live_out |-> TRUE]
ThreadLocal  == [kind |-> "thread_local", param |-> 0, cell |-> 0, live_out |-> FALSE]

Leaf(alloc, alias)   == [alloc |-> alloc, alias |-> alias, passthrough |-> FALSE, leaf |-> TRUE]
Passed(alloc, alias) == [alloc |-> alloc, alias |-> alias, passthrough |-> TRUE, leaf |-> TRUE]
Table(alloc)         == [alloc |-> alloc, alias |-> "none", passthrough |-> FALSE, leaf |-> FALSE]

\* The sequences a run can be inside of: what remains of this one, and the
\* ones nested in its thunks.
RECURSIVE SequencesOf(_)
SequencesOf(thunks) ==
  IF thunks = <<>> THEN {thunks}
  ELSE LET t == Head(thunks)
           inner == CASE t.op = "kernel"      -> {}
                      [] t.op = "while"       -> {t.cond, t.body}
                      [] t.op = "for"         -> {t.body}
                      [] t.op = "conditional" -> Range(t.branches)
       IN  {thunks} \cup SequencesOf(Tail(thunks)) \cup UNION {SequencesOf(s) : s \in inner}
Compiled(program) ==
  [allocations |-> program.allocations, outputs |-> program.outputs,
   thunks |-> program.thunks, sequences |-> SequencesOf(program.thunks)]

\* w := (w + g) + c in place, with a tuple around it.
Update ==
  Compiled([allocations |-> <<Param(1, TRUE), Param(2, FALSE), Temp, Constant(4), LiveOut>>,
     thunks  |-> <<Kernel("add", <<1, 2>>, 3), Kernel("copy", <<4>>, 5),
                   Kernel("add", <<3, 4>>, 1)>>,
     outputs |-> <<Table(5), Leaf(1, "may")>>])

\* Count from c up to the argument, and two more.
Loop ==
  Compiled([allocations |-> <<Param(1, FALSE), Temp, LiveOut, Constant(4), ThreadLocal>>,
     thunks  |-> <<Kernel("copy", <<4>>, 3),
                   While(<<Kernel("less", <<3, 1>>, 2)>>, 2, <<Kernel("inc", <<3>>, 3)>>),
                   For(2, <<Kernel("inc", <<3>>, 3)>>)>>,
     outputs |-> <<Leaf(3, "none")>>])

\* A case of the first argument, which must be updated in place; the second
\* is passed through.
Choose ==
  Compiled([allocations |-> <<Param(1, TRUE), Param(2, TRUE), LiveOut, Temp, Constant(4)>>,
     thunks  |-> <<Kernel("less", <<5, 1>>, 4),
                   Conditional(4, TRUE, <<<<Kernel("copy", <<2>>, 3)>>, <<Kernel("copy", <<5>>, 3)>>>>),
                   Conditional(1, FALSE, <<<<Kernel("copy", <<5>>, 3)>>,
                                           <<Kernel("inc", <<3>>, 3)>>>>),
                   Kernel("inc", <<1>>, 1)>>,
     outputs |-> <<Leaf(1, "must"), Passed(2, "may"), Leaf(3, "none")>>])

Run(program, args, donated) ==
  [program |-> program, args |-> args, donated |-> donated, bad |-> {}, shaped |-> FALSE]
Shaped(program, args) == [Run(program, args, {}) EXCEPT !.shaped = TRUE]
Bad(program, args, donated) == [Run(program, args, donated) EXCEPT !.bad = {2}]

A_Job(async, fails, cells, run1, run2) ==
  [async |-> async, fails |-> fails, cells |-> cells, runs |-> [r1 |-> run1, r2 |-> run2]]

MCInitialMem == [c \in 1 .. 10 |-> <<1, 3, 2, 1, 0, 0, 0, 0, 0, 0>>[c]]

\* One stream, scarce memory, errors anywhere.
AsyncJobs ==
  {A_Job(TRUE, TRUE, 1 .. 7, Run(Update, <<1, 2>>, {1}), Run(Loop, <<3>>, {})),
   A_Job(TRUE, TRUE, 1 .. 8, Run(Choose, <<1, 2>>, {1, 2}), Run(Choose, <<3, 3>>, {})),
   A_Job(TRUE, FALSE, 1 .. 8, Run(Update, <<1, 2>>, {}), Run(Update, <<1, 2>>, {})),
   A_Job(TRUE, FALSE, 1 .. 10, Run(Update, <<1, 2>>, {1, 2}), Bad(Update, <<3, 10>>, {1}))}

\* A stream for each run, enough memory.
BlockingJobs ==
  {A_Job(FALSE, FALSE, 1 .. 9, Run(Update, <<1, 2>>, {}), Shaped(Update, <<1, 2>>)),
   A_Job(FALSE, FALSE, 1 .. 8, Run(Choose, <<3, 1>>, {1, 2}), Run(Loop, <<2>>, {1})),
   A_Job(FALSE, FALSE, 1 .. 10, Run(Update, <<1, 2>>, {1}), Shaped(Update, <<2, 2>>))}

AllJobs == AsyncJobs \cup BlockingJobs
=============================================================================
