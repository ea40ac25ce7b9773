-------------------------------- MODULE Feeds --------------------------------
(***************************************************************************)
(* What moves data between the host and a running program over the         *)
(* streams of SyclRuntime: infeed and outfeed thunks with the queues they  *)
(* share with the host (infeed_thunk.cc, outfeed_thunk.cc; the queues are  *)
(* XLA's), and the transfer manager's ReadDynamicShapes with its pool of   *)
(* pinned buffers (gpu_transfer_manager.cc).                               *)
(*                                                                         *)
(* A literal is a list of leaves, each with a shape.  A tree is the object *)
(* on the stack of a thread that waits in TransferLiteralFromOutfeed: one  *)
(* destination per leaf that is not Done yet.                              *)
(***************************************************************************)
EXTENDS SyclRuntime

CONSTANTS
  PinnedChunk   \* the buffers of the pinned chunk, in its order

ASSUME FeedsAssumption ==
  /\ PinnedChunk \in Seq(Usm) /\ IsInjective(PinnedChunk)
  /\ None \notin Threads /\ None \notin Seq(Usm)
  /\ \A w \in Workloads : w \in Seq(Range(w)) /\ \A i \in DOMAIN w :
       w[i].op = "read_shapes" => w[i].leaves \in Seq(Range(w[i].leaves))

VARIABLES
  infeed,     \* literals in device memory that no infeed thunk has taken
  outfeed,    \* trees that no outfeed thunk has taken
  trees,      \* trees[k]: the leaves of the tree of the call at k that are not Done
  pinned      \* pinned_buffers_, None before it is allocated

feedVars == <<infeed, outfeed, trees, pinned>>
vars == <<runtimeVars, feedVars>>

-----------------------------------------------------------------------------
(* The host's side of the feeds: XLA's managers, one per device.           *)

\* The locations ls get the values vs.
Assigned(m, ls, vs) == [l \in Range(ls) |-> vs[CHOOSE i \in DOMAIN ls : ls[i] = l]] @@ m

(* The literal is copied to new device memory and joins the queue.         *)
TransferLiteralToInfeed(t) ==
  /\ Calls(t, "to_infeed")
  /\ mem' = Assigned(mem, Call(t).locs, Call(t).vals)
  /\ infeed' = Append(infeed, [i \in DOMAIN Call(t).locs |-> [loc |-> Call(t).locs[i], shape |-> Call(t).shapes[i]]])
  /\ Return(t)
  /\ UNCHANGED <<work, multi, deviceVars, freed, outfeed, trees, pinned>>

TransferLiteralFromOutfeed(t) ==
  /\ \/ /\ Calls(t, "from_outfeed")
        /\ trees' = pc[t] :> DOMAIN Call(t).dsts @@ trees
        /\ outfeed' = Append(outfeed, pc[t])
        /\ Goto(t, [do |-> "fetch"])
     \/ /\ In(t, "fetch") /\ trees[pc[t]] = {}
        /\ trees' = [k \in DOMAIN trees \ {pc[t]} |-> trees[k]]
        /\ Return(t)
        /\ UNCHANGED outfeed
  /\ UNCHANGED <<work, multi, deviceVars, mem, freed, infeed, pinned>>

-----------------------------------------------------------------------------
(* InfeedThunk::ExecuteOnStream.  The leaves are copied by the stream; the *)
(* memory of the literal is freed when the thunk returns.                  *)

InfeedLeaf(source, i) == [do |-> "infeed", source |-> source, i |-> i]

InfeedBegins(t) ==
  /\ Calls(t, "infeed") /\ infeed # <<>>
  /\ infeed' = Tail(infeed)
  /\ Goto(t, InfeedLeaf(Head(infeed), 1))
  /\ UNCHANGED <<work, multi, deviceVars, mem, freed, outfeed, trees, pinned>>

SameShape(a, b) == a = b

InfeedCopies(t) ==
  /\ In(t, "infeed") /\ at[t].i <= Len(at[t].source)
  /\ LET leaf == at[t].source[at[t].i] IN
       /\ SameShape(Call(t).shapes[at[t].i], leaf.shape)
       /\ Submits(t, stream[Call(t).s], Copy(Call(t).dsts[at[t].i], leaf.loc), TRUE, 1,
                  InfeedLeaf(at[t].source, at[t].i + 1))
  /\ UNCHANGED <<work, multi, pool, stream, completed, event, mem, freed, feedVars>>

Locations(source) == {source[i].loc : i \in DOMAIN source}
InfeedReturns(t, source) == [do |-> "infeed_end", source |-> source]

InfeedBlocks_AtOnce(t) ==
  /\ In(t, "infeed") /\ at[t].i > Len(at[t].source)
  /\ Goto(t, InfeedReturns(t, at[t].source))
  /\ UNCHANGED <<work, multi, deviceVars, mem, freed, feedVars>>

InfeedBlocks(t) ==
  /\ In(t, "infeed") /\ at[t].i > Len(at[t].source)
  /\ Goto(t, Waiting(Mark(queue, stream[Call(t).s]), InfeedReturns(t, at[t].source)))
  /\ UNCHANGED <<work, multi, deviceVars, mem, freed, feedVars>>

(* The thunk returns after the wait, or with an error at a leaf whose      *)
(* shape is another: the program's run ends there.                         *)
InfeedEnds(t) ==
  /\ \/ In(t, "infeed_end") /\ Return(t)
     \/ /\ In(t, "infeed") /\ at[t].i <= Len(at[t].source)
        /\ ~SameShape(Call(t).shapes[at[t].i], at[t].source[at[t].i].shape)
        /\ at' = [at EXCEPT ![t] = Idle] /\ pc' = [pc EXCEPT ![t] = Len(work) + 1]
  /\ freed' = freed \cup Locations(at[t].source)
  /\ UNCHANGED <<work, multi, deviceVars, mem, feedVars>>

-----------------------------------------------------------------------------
(* OutfeedThunk::ExecuteOnStream.  Each leaf is a copy to the caller's     *)
(* memory, waited for unless that is USM memory, and a callback that says  *)
(* Done.  After the last callback is enqueued the tree may be gone.        *)

OutfeedLeaf(tree, i) == [do |-> "outfeed", tree |-> tree, i |-> i]

OutfeedBegins_OfNothingFirst(t) ==
  /\ Calls(t, "outfeed")
  /\ IF Call(t).srcs = <<>> THEN Return(t) /\ UNCHANGED outfeed
     ELSE outfeed # <<>> /\ outfeed' = Tail(outfeed) /\ Goto(t, OutfeedLeaf(Head(outfeed), 1))
  /\ UNCHANGED <<work, multi, deviceVars, mem, freed, infeed, trees, pinned>>
OutfeedBegins(t) ==
  /\ Calls(t, "outfeed") /\ outfeed # <<>>
  /\ outfeed' = Tail(outfeed)
  /\ IF Call(t).srcs = <<>> THEN Return(t) ELSE Goto(t, OutfeedLeaf(Head(outfeed), 1))
  /\ UNCHANGED <<work, multi, deviceVars, mem, freed, infeed, trees, pinned>>

OutfeedMatches(t) ==
  LET tree == work[at[t].tree] IN
  /\ Len(tree.dsts) = Len(Call(t).srcs)
  /\ SameShape(Call(t).shapes[at[t].i], tree.shapes[at[t].i])

OutfeedCopies(t) ==
  /\ In(t, "outfeed") /\ at[t].i <= Len(Call(t).srcs) /\ OutfeedMatches(t)
  /\ LET dst == work[at[t].tree].dsts[at[t].i] IN
       Submits(t, stream[Call(t).s], Copy(dst, Call(t).srcs[at[t].i]), IsAsync(dst), 1,
               [at[t] EXCEPT !.do = "outfeed_done"])
  /\ UNCHANGED <<work, multi, pool, stream, completed, event, mem, freed, feedVars>>

(* The iterator is moved to the next leaf before the callback is enqueued. *)
AfterDone(t) ==
  IF at[t].i = Len(Call(t).srcs) THEN [do |-> "outfeed_end"] ELSE OutfeedLeaf(at[t].tree, at[t].i + 1)

OutfeedDone(t) ==
  /\ In(t, "outfeed_done")
  /\ queue' = Submitted(queue, stream[Call(t).s], Callback(at[t].tree, at[t].i))
  /\ Goto(t, AfterDone(t))
  /\ UNCHANGED <<work, multi, pool, stream, completed, event, mem, freed, feedVars>>

(* The thunk blocks, or returns with an error at a leaf that does not      *)
(* match; the thread that waits for the tree is not told.                  *)
OutfeedEnds(t) ==
  /\ \/ In(t, "outfeed_end") /\ Goto(t, Waiting(Mark(queue, stream[Call(t).s]), Idle))
     \/ /\ In(t, "outfeed") /\ at[t].i <= Len(Call(t).srcs) /\ ~OutfeedMatches(t)
        /\ at' = [at EXCEPT ![t] = Idle] /\ pc' = [pc EXCEPT ![t] = Len(work) + 1]
  /\ UNCHANGED <<work, multi, deviceVars, mem, freed, feedVars>>

-----------------------------------------------------------------------------
(* ReadDynamicShapes.  A leaf of the buffer is a tuple, static, or dynamic *)
(* with `size` bytes of sizes stored behind its data.                      *)

NeedsCopy(leaf) == leaf.kind = "dynamic"
Copies(t) == SelectSeq(Call(t).leaves, NeedsCopy)

EnsurePinnedBuffersAllocated == IF pinned = None THEN PinnedChunk ELSE pinned

(* Buffers are checked out from the back, one per leaf that is copied and  *)
(* fits, while there are any; other copies go to memory that is not pinned. *)
CheckOut(state, leaf) ==
  IF ~NeedsCopy(leaf) THEN state
  ELSE IF state.free # <<>> /\ ~leaf.big
  THEN [free |-> Front(state.free), dsts |-> Append(state.dsts, Last(state.free)),
        checked_out |-> Append(state.checked_out, Last(state.free))]
  ELSE [state EXCEPT !.dsts = Append(@, leaf.fallback)]
AllCheckedOut(leaves) ==
  FoldLeft(CheckOut, [free |-> EnsurePinnedBuffersAllocated, dsts |-> <<>>, checked_out |-> <<>>], leaves)

ReadBegins(t) ==
  /\ Calls(t, "read_shapes")
  /\ IF \E i \in DOMAIN Copies(t) : Copies(t)[i].size = 0
     THEN Return(t) /\ UNCHANGED pinned
     ELSE LET out == AllCheckedOut(Call(t).leaves) IN
          /\ pinned' = out.free
          /\ Goto(t, [do |-> "read", dsts |-> out.dsts, checked_out |-> out.checked_out, i |-> 1])
  /\ UNCHANGED <<work, multi, deviceVars, mem, freed, infeed, outfeed, trees>>

ReadCopies(t) ==
  /\ In(t, "read") /\ at[t].i <= Len(at[t].dsts)
  /\ LET dst == at[t].dsts[at[t].i] IN
       Submits(t, stream[Call(t).s], Copy(dst, Copies(t)[at[t].i].src), IsAsync(dst), 1,
               [at[t] EXCEPT !.i = @ + 1])
  /\ UNCHANGED <<work, multi, pool, stream, completed, event, mem, freed, feedVars>>

ReadBlocks_AtOnce(t) ==
  /\ In(t, "read") /\ at[t].i > Len(at[t].dsts)
  /\ Goto(t, [at[t] EXCEPT !.do = "read_write"])
  /\ UNCHANGED <<work, multi, deviceVars, mem, freed, feedVars>>
ReadBlocks(t) ==
  /\ In(t, "read") /\ at[t].i > Len(at[t].dsts)
  /\ Goto(t, Waiting(Mark(queue, stream[Call(t).s]), [at[t] EXCEPT !.do = "read_write"]))
  /\ UNCHANGED <<work, multi, deviceVars, mem, freed, feedVars>>

ReadWrites(t) ==
  /\ In(t, "read_write")
  /\ mem' = Assigned(mem, [i \in DOMAIN at[t].dsts |-> Copies(t)[i].dst],
                          [i \in DOMAIN at[t].dsts |-> Content(at[t].dsts[i])])
  /\ Goto(t, [at[t] EXCEPT !.do = "read_end"])
  /\ UNCHANGED <<work, multi, deviceVars, freed, feedVars>>

(* The cleanup runs on every way out, under the lock.                      *)
Returned_Nothing(t) == pinned
Returned(t) == pinned \o at[t].checked_out
ReadEnds(t) ==
  /\ In(t, "read_end")
  /\ pinned' = Returned(t)
  /\ Return(t)
  /\ UNCHANGED <<work, multi, deviceVars, mem, freed, infeed, outfeed, trees>>

-----------------------------------------------------------------------------
\* A queue finishes a command; a callback marks its leaf Done.
DeviceStep(q) ==
  /\ q \in DOMAIN queue
  /\ Finishes(q)
  /\ LET command == Head(queue[q]) IN
     trees' = IF command.op = "callback" /\ command.tree \in DOMAIN trees
              THEN [trees EXCEPT ![command.tree] = @ \ {command.leaf}] ELSE trees
  /\ UNCHANGED <<infeed, outfeed, pinned>>

FeedCall(t) ==
  \/ TransferLiteralToInfeed(t) \/ TransferLiteralFromOutfeed(t)
  \/ InfeedBegins(t) \/ InfeedCopies(t) \/ InfeedBlocks(t) \/ InfeedEnds(t)
  \/ OutfeedBegins(t) \/ OutfeedCopies(t) \/ OutfeedDone(t) \/ OutfeedEnds(t)
  \/ ReadBegins(t) \/ ReadCopies(t) \/ ReadBlocks(t) \/ ReadWrites(t) \/ ReadEnds(t)

ThreadStep(t) == (ExecutorCall(t) /\ UNCHANGED feedVars) \/ FeedCall(t)

Init ==
  /\ RuntimeInit
  /\ infeed = <<>> /\ outfeed = <<>> /\ trees = <<>> /\ pinned = None

Next ==
  \/ \E t \in Threads : ThreadStep(t)
  \/ \E q \in Queues : DeviceStep(q)

(* The threads are scheduled and the devices finish what they are given.   *)
Spec ==
  /\ Init /\ [][Next]_vars
  /\ \A t \in Threads : WF_vars(ThreadStep(t))
  /\ \A q \in Queues : WF_vars(DeviceStep(q))

-----------------------------------------------------------------------------
(* The reference: every call takes effect at once, in the order of the     *)
(* list, with no queue between the host and the memory.                    *)

Set(state, l, v) == [state EXCEPT !.mem = l :> v @@ @]
SetAll(state, ls, vs) == [state EXCEPT !.mem = Assigned(@, ls, vs)]
AtOnce(state, c) ==
  CASE c.op \in {"htod", "dtoh", "dtod", "sync_copy"} ->
         IF c.size = 0 THEN state ELSE Set(state, c.dst, state.mem[c.src])
    [] c.op = "read" -> Set(state, c.dst, state.mem[c.src])
    [] c.op = "kernel" -> Set(state, c.dst, Applied(state.mem[c.src]))
    [] c.op = "memzero" -> Set(state, c.dst, Value([i \in 1 .. c.size |-> 0]))
    [] c.op = "sync_memset" -> Set(state, c.dst, Value([i \in 1 .. c.size |-> c.val]))
    [] c.op = "write" -> Set(state, c.dst, c.val)
    [] c.op = "poll" -> Set(state, c.dst, TRUE)
    [] c.op = "to_infeed" -> [state EXCEPT !.fed = Append(@, c)]
    [] c.op = "infeed" -> LET rest == [state EXCEPT !.fed = Tail(@)] IN
         IF Head(state.fed).shapes = c.shapes THEN SetAll(rest, c.dsts, Head(state.fed).vals) ELSE rest
    [] c.op = "outfeed" -> [state EXCEPT !.out = Append(@, [c EXCEPT !.srcs = [i \in DOMAIN @ |-> state.mem[@[i]]]])]
    [] c.op = "from_outfeed" -> LET rest == [state EXCEPT !.out = Tail(@)] IN
         IF Head(state.out).shapes = c.shapes THEN SetAll(rest, c.dsts, Head(state.out).srcs) ELSE rest
    [] c.op = "read_shapes" ->
         LET leaves == SelectSeq(c.leaves, NeedsCopy) IN
         IF \E i \in DOMAIN leaves : leaves[i].size = 0 THEN state
         ELSE SetAll(state, [i \in DOMAIN leaves |-> leaves[i].dst], [i \in DOMAIN leaves |-> state.mem[leaves[i].src]])
    [] OTHER -> state
Reference == FoldLeft(AtOnce, [mem |-> <<>>, fed |-> <<>>, out |-> <<>>], work).mem

(* When every thread has made its calls, all memory that was not freed     *)
(* holds what the reference computes, whatever the threads and the queues  *)
(* did in between, with one queue per device or one per stream: what a     *)
(* call that waited read is never older, what a call that did not wait     *)
(* wrote is never newer, and literals are fed in their order.              *)
ResultsAreExact ==
  Done => \A l \in DOMAIN Reference \ freed : Content(l) = Reference[l]

Touched(command) ==
  CASE command.op \in {"copy", "kernel"} -> {command.dst, command.src}
    [] command.op = "fill" -> {command.dst}
    [] OTHER -> {}

(* Nothing is used after its owner gave it up: no queue has a command on   *)
(* memory that was freed (the literal of an infeed, above all) or a        *)
(* callback into a tree whose thread has returned, no outfeed thunk looks  *)
(* at such a tree, and no stream's queue is destroyed with another stream. *)
MemoryOutlivesUse ==
  /\ \A q \in DOMAIN queue : \A i \in DOMAIN queue[q] :
       LET command == queue[q][i] IN
       /\ Touched(command) \cap freed = {}
       /\ command.op = "callback" => command.tree \in DOMAIN trees
  /\ \A t \in Threads : at[t].do \in {"outfeed", "outfeed_done"} => at[t].tree \in DOMAIN trees
  /\ \A s \in DOMAIN stream : stream[s] \in Range(pool[stream[s][1]])

Frame(t) == IF In(t, "wait") THEN at[t].then ELSE at[t]
Held(t) == IF Frame(t).do \in {"read", "read_write", "read_end"} THEN Frame(t).checked_out ELSE <<>>

\* Where the pinned buffer b is: the places of the pool and of the callers.
Places(b) ==
  {<<None, i>> : i \in {i \in DOMAIN pinned : pinned[i] = b}}
    \cup UNION {{<<t, i>> : i \in {i \in DOMAIN Held(t) : Held(t)[i] = b}} : t \in Threads}

(* Every pinned buffer is in the pool or with one caller, never both, with *)
(* two callers or lost.                                                    *)
PinnedBuffersAreKept ==
  pinned # None => \A b \in Range(PinnedChunk) : Cardinality(Places(b)) = 1

\* Some outfeed thunk gets, or will get, a tree that does not match it.
Refused ==
  LET srcs == SelectSeq(work, LAMBDA c : c.op = "outfeed")
      dsts == SelectSeq(work, LAMBDA c : c.op = "from_outfeed")
  IN \E i \in DOMAIN srcs : srcs[i].shapes # dsts[i].shapes

(* Every call returns.  Only the thread whose literal does not match what  *)
(* the program feeds out is never told.                                    *)
CallsReturn == ~Refused ~> Done
=============================================================================
