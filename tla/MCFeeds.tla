------------------------------- MODULE MCFeeds -------------------------------
(***************************************************************************)
(* Workloads of up to three threads on one or two devices: copies, kernels *)
(* and fills over two streams with events and dependencies; programs that  *)
(* are fed and read by other threads; shapes read by two threads that      *)
(* share two pinned buffers; feeds whose shapes do not match.              *)
(***************************************************************************)
EXTENDS Feeds

Stream(t, s, d) == [t |-> t, op |-> "allocate_stream", s |-> s, dev |-> d]
DropStream(t, s) == [t |-> t, op |-> "deallocate_stream", s |-> s]
Run(t, s, dst, src) == [t |-> t, op |-> "kernel", s |-> s, dst |-> dst, src |-> src]
Moves(t, op, s, dst, src) == [t |-> t, op |-> op, s |-> s, dst |-> dst, src |-> src, size |-> 4]
SyncCopy(t, d, dst, src) == [t |-> t, op |-> "sync_copy", dev |-> d, dst |-> dst, src |-> src, size |-> 4]
Write(t, dst, v) == [t |-> t, op |-> "write", dst |-> dst, val |-> Value(<<v>>)]
Read(t, dst, src) == [t |-> t, op |-> "read", dst |-> dst, src |-> src]
Block(t, s) == [t |-> t, op |-> "block", s |-> s]
Start(t, other, i) == [t |-> t, op |-> "start", after |-> other, place |-> i]

(* One thread and two streams; the host's buffers h1 (unpinned) and u1     *)
(* (pinned) are written again as soon as that is allowed.                  *)
TwoStreams == <<
  Stream("t1", "s1", 0), Stream("t1", "s2", 0),
  Write("t1", "h1", "a"), Moves("t1", "htod", "s1", "d1", "h1"), Write("t1", "h1", "b"),
  Write("t1", "u1", "c"), Moves("t1", "htod", "s2", "d3", "u1"),
  Run("t1", "s1", "d2", "d1"),
  [t |-> "t1", op |-> "depend", s |-> "s2", other |-> "s1"],
  Run("t1", "s2", "d4", "d2"),
  Block("t1", "s2"), Write("t1", "u1", "d"),
  [t |-> "t1", op |-> "record", s |-> "s2", e |-> "e1"],
  [t |-> "t1", op |-> "wait_event", s |-> "s1", e |-> "e1"],
  Moves("t1", "dtod", "s1", "d5", "d4"), Moves("t1", "dtoh", "s1", "u2", "d5"),
  DropStream("t1", "s2"),
  Block("t1", "s1"), Read("t1", "r1", "u2"),
  [t |-> "t1", op |-> "poll", e |-> "e1", dst |-> "r2"],
  Moves("t1", "dtoh", "s1", "h2", "d3"), Read("t1", "r3", "h2") >>

(* Two threads, each with its stream; the second one uses the default      *)
(* queue through synchronous calls.                                        *)
Synchronous == <<
  Stream("t1", "s1", 0), Stream("t1", "s2", 0),
  Start("t2", "t1", 2),
  [t |-> "t1", op |-> "malloc", dst |-> "d1"],
  [t |-> "t1", op |-> "memzero", s |-> "s1", dst |-> "d1", address |-> 2, size |-> 4, val |-> 0],
  Run("t1", "s1", "d2", "d1"),
  [t |-> "t2", op |-> "sync_memset", dev |-> 0, dst |-> "d3", address |-> 8, size |-> 8, val |-> 7],
  [t |-> "t2", op |-> "sync_memset", dev |-> 0, dst |-> "d4", address |-> 8, size |-> 3, val |-> 7],
  SyncCopy("t2", 0, "h1", "d3"), Read("t2", "r1", "h1"),
  [Moves("t2", "dtoh", "s2", "h1", "d4") EXCEPT !.size = 0],
  [SyncCopy("t2", 0, "h1", "d4") EXCEPT !.size = 0],
  Run("t2", "s2", "d5", "d3"), Moves("t2", "dtoh", "s2", "h2", "d5"), Read("t2", "r2", "h2"),
  [t |-> "t1", op |-> "sync_all", dev |-> 0],
  [t |-> "t1", op |-> "free", src |-> "d1"], SyncCopy("t1", 0, "h3", "d2") >>

(* A program with two infeeds and three outfeeds, one of nothing.          *)
Feed(t, locs, vals, shapes) == [t |-> t, op |-> "to_infeed", locs |-> locs, vals |-> [i \in DOMAIN vals |-> Value(<<vals[i]>>)], shapes |-> shapes]
Infeed(t, s, dsts, shapes) == [t |-> t, op |-> "infeed", s |-> s, dsts |-> dsts, shapes |-> shapes]
Outfeed(t, s, srcs, shapes) == [t |-> t, op |-> "outfeed", s |-> s, srcs |-> srcs, shapes |-> shapes]
Fetch(t, dsts, shapes) == [t |-> t, op |-> "from_outfeed", dsts |-> dsts, shapes |-> shapes]

FedProgram == <<
  Stream("t1", "s1", 0),
  Feed("t2", <<"i1", "i2">>, <<"a", "b">>, <<1, 2>>), Infeed("t1", "s1", <<"d1", "d2">>, <<1, 2>>),
  Run("t1", "s1", "d3", "d1"),
  Outfeed("t1", "s1", <<"d3", "d2">>, <<1, 2>>), Fetch("t3", <<"h1", "u1">>, <<1, 2>>), Read("t3", "r1", "h1"), Read("t3", "r2", "u1"),
  Outfeed("t1", "s1", <<>>, <<>>), Fetch("t3", <<>>, <<>>),
  Feed("t2", <<"i3">>, <<"c">>, <<1>>), Infeed("t1", "s1", <<"d1">>, <<1>>),
  Outfeed("t1", "s1", <<"d1">>, <<1>>), Fetch("t3", <<"u1">>, <<1>>), Read("t3", "r3", "u1") >>

(* Two threads read the shapes of four and two buffers on two devices.     *)
Leaf(kind, big, src, dst) == [kind |-> kind, big |-> big, src |-> src, dst |-> dst, size |-> 4,
                              fallback |-> dst \o "_unpinned"]
Shapes(t, s, leaves) == [t |-> t, op |-> "read_shapes", s |-> s, leaves |-> leaves]
TwoReaders == <<
  Stream("t1", "s1", 0), Stream("t1", "s2", 1),
  Start("t2", "t1", 2),
  Write("t1", "h1", "a"), SyncCopy("t1", 0, "m1", "h1"), Run("t1", "s1", "m2", "m1"), Run("t1", "s1", "m3", "m2"),
  Write("t2", "h2", "b"), SyncCopy("t2", 1, "m4", "h2"), Run("t2", "s2", "m5", "m4"),
  Shapes("t1", "s1", <<Leaf("tuple", FALSE, "m0", "r0"), Leaf("dynamic", FALSE, "m1", "r1"), Leaf("dynamic", FALSE, "m2", "r2"),
                       Leaf("dynamic", TRUE, "m3", "r3"), Leaf("static", FALSE, "m0", "r0")>>),
  Shapes("t2", "s2", <<Leaf("dynamic", FALSE, "m5", "r5")>>),
  Run("t2", "s2", "m5", "m5"),
  Shapes("t2", "s2", <<Leaf("dynamic", FALSE, "m5", "r6"), [Leaf("dynamic", FALSE, "m4", "r6") EXCEPT !.size = 0]>>),
  Shapes("t2", "s2", <<Leaf("dynamic", FALSE, "m4", "r4"), Leaf("dynamic", FALSE, "m5", "r6")>>) >>

(* Feeds that do not match at their first leaf.                            *)
WrongInfeed == <<
  Stream("t1", "s1", 0), Feed("t2", <<"i1", "i2">>, <<"a", "b">>, <<1, 2>>), Feed("t2", <<"i3">>, <<"c">>, <<1>>),
  Infeed("t1", "s1", <<"d1", "d2">>, <<2, 2>>) >>
WrongOutfeed == <<
  Stream("t1", "s1", 0), Feed("t2", <<"i1">>, <<"a">>, <<1>>), Infeed("t1", "s1", <<"d1">>, <<1>>),
  Outfeed("t1", "s1", <<"d1">>, <<1>>), Fetch("t3", <<"h1">>, <<2>>) >>

MCPinnedChunk == <<"p1", "p2">>
MCWorkloads == {TwoStreams, Synchronous, FedProgram, TwoReaders, WrongInfeed, WrongOutfeed}
=============================================================================
