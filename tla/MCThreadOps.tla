----------------------------- MODULE MCThreadOps -----------------------------
(***************************************************************************)
(* An instance of ThreadOps for TLC: two objects over two recorded threads. *)
(***************************************************************************)
EXTENDS ThreadOps

CONSTANTS o1, o2

Summary(t, cwd, updated, created) ==
  [id |-> t, cwd |-> cwd, updatedAt |-> updated, createdAt |-> created]

SamplePages == {<<Summary(1, "here", NoTime, NoTime), Summary(2, "here", 5, 1)>>,
                <<Summary(2, "here", 4, 9), Summary(1, "here", NoTime, 6)>>,
                <<Summary(2, "there", 9, 9)>>}

SampleMade == {[target |-> "new", id |-> 0, options |-> [model |-> "a"]],
               [target |-> "latest", id |-> 0, options |-> [cwd |-> "here"]],
               [target |-> "by id", id |-> 2, options |-> [serviceTier |-> "default"]]}

Text(v) == [type |-> "text", value |-> v]
Image(v) == [type |-> "localImage", value |-> v]

SampleRequests ==
  {[kind |-> "steer", turn |-> 0, input |-> <<>>, options |-> <<>>],
   [kind |-> "simple", turn |-> 0, input |-> <<>>, options |-> <<>>],
   [kind |-> "run", turn |-> 0, input |-> <<Image("i"), Text("t")>>, options |-> <<>>],
   [kind |-> "run", turn |-> 0, input |-> <<Text("t"), Image("i")>>,
    options |-> [model |-> "b", serviceTier |-> "fast", extra |-> [serviceTier |-> "flex"]]]}
=============================================================================
