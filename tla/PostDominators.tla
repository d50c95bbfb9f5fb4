---------------------------- MODULE PostDominators ----------------------------
(***************************************************************************)
(* blockgraph::calc_post_dominator of src/dobc/block.cc, on a graph that   *)
(* structure_reset is through with.  The exits of the function are joined  *)
(* to one more block, blockgraph::exit, whose index nobody sets: it is 0,  *)
(* the index of the entry.  What a call computes stays with the blocks     *)
(* until the next one, which does not clear it in the blocks it misses.    *)
(***************************************************************************)
EXTENDS StructureReset

VARIABLES
  post,             \* "none", or what calc_post_dominator is at since structure_reset
  poststate,        \* the calls of post_order_on_rtree that have not returned
  postcount,        \* of each of them, how many in edges it has taken
  postorder,        \* the blocks that reach an exit, and exit itself at the end
  post_immed_dom,
  rindex,           \* the place of a block in postorder, from 1 on
  posti,            \* the place in postorder the sweep is at
  postchanged,
  calls             \* the calls that have returned

walkvars == <<poststate, postcount, postorder, rindex>>
postvars == <<post, walkvars, post_immed_dom, posti, postchanged, calls>>

exit == Cardinality(Block)
AllBlocks == Block \union {exit}

PostInit ==
  /\ Init
  /\ post = "none" /\ poststate = << >> /\ postorder = << >>
  /\ postcount = [b \in AllBlocks |-> 0]
  /\ post_immed_dom = [b \in AllBlocks |-> NONE]
  /\ rindex = [b \in AllBlocks |-> 0]
  /\ posti = 0 /\ postchanged = FALSE /\ calls = 0

\* What get_in(i) yields after add_exit.
Ins(b) == IF b = exit THEN exitlist ELSE [i \in DOMAIN graph.in[b] |-> graph.in[b][i].point]
Outs(b) ==
  IF b \in Range(exitlist) THEN <<exit>> ELSE [i \in DOMAIN graph.out[b] |-> graph.out[b][i].point]

(***************************************************************************)
(* post_order_on_rtree                                                     *)
(***************************************************************************)

\* A call marks its block by the block's index, and nothing takes a mark back.
exitindex == 0
MarkOf(b) == IF b = exit THEN exitindex ELSE index[b]
Marks == {MarkOf(b) : b \in Range(poststate) \union Range(postorder)}

StartPost ==
  /\ Done /\ post = "none"
  /\ post' = "walk"
  /\ poststate' = <<exit>> /\ postorder' = << >>
  /\ postcount' = [b \in AllBlocks |-> 0]
  /\ UNCHANGED <<vars, rindex, post_immed_dom, posti, postchanged, calls>>

reached == Last(poststate)
source == Ins(reached)[postcount[reached] + 1]

\* The next in edge: a call for the block it comes from, which returns at once if that
\* block is marked.
WalkIn ==
  /\ post = "walk" /\ poststate # << >> /\ postcount[reached] < Len(Ins(reached))
  /\ poststate' = IF MarkOf(source) \in Marks THEN poststate ELSE Append(poststate, source)
  /\ postcount' = [postcount EXCEPT ![reached] = @ + 1]
  /\ UNCHANGED <<vars, post, postorder, rindex, post_immed_dom, posti, postchanged, calls>>

WalkBack ==
  /\ post = "walk" /\ poststate # << >> /\ postcount[reached] = Len(Ins(reached))
  /\ poststate' = Front(poststate)
  /\ postorder' = Append(postorder, reached)
  /\ rindex' = [rindex EXCEPT ![reached] = Len(postorder) + 1]
  /\ UNCHANGED <<vars, post, postcount, post_immed_dom, posti, postchanged, calls>>

(***************************************************************************)
(* The sweeps                                                              *)
(***************************************************************************)
StartPostSweeps ==
  /\ post = "walk" /\ poststate = << >>
  /\ post' = "sweep"
  /\ post_immed_dom' = [b \in AllBlocks |->
                          IF b \in {exit} \union Range(exitlist) THEN exit
                          ELSE IF b \in Range(postorder) THEN NONE
                          ELSE post_immed_dom[b]]
  /\ posti' = Len(postorder) - 1 /\ postchanged' = FALSE
  /\ UNCHANGED <<vars, walkvars, calls>>

\* The fingers climb towards exit, from the block of the lower rindex.
PostFinger == Range(postorder) \union {NONE}
PostIntersect[f \in PostFinger \X PostFinger] ==
  IF f[1] = f[2] THEN f[1]
  ELSE IF NONE \in {f[1], f[2]} THEN NONE
  ELSE IF rindex[f[1]] < rindex[f[2]] THEN PostIntersect[<<post_immed_dom[f[1]], f[2]>>]
  ELSE PostIntersect[<<f[1], post_immed_dom[f[2]]>>]

\* Mutant: the first out edge decides.
NewPostIdom_first(b) == SelectSeq(Outs(b), LAMBDA o : post_immed_dom[o] # NONE)[1]

\* The out edges to blocks that have a post_immed_dom already, from the first on.
NewPostIdom(b) ==
  LET new_idom[j \in 0 .. Len(Outs(b))] ==
        IF j = 0 THEN NONE
        ELSE LET rho == Outs(b)[j]
                 was == new_idom[j - 1]
             IN  IF post_immed_dom[rho] = NONE THEN was
                 ELSE IF was = NONE THEN rho ELSE PostIntersect[<<rho, was>>]
  IN  new_idom[Len(Outs(b))]

\* A block the walk missed kept a post_immed_dom, and a rindex, from an earlier call.
Stale == \E b \in Range(postorder) \ {exit} : \E o \in Range(Outs(b)) \ Range(postorder) :
           post_immed_dom[o] # NONE

PostSweep ==
  /\ post = "sweep" /\ ~Stale /\ posti > 0
  /\ LET b == postorder[posti]
     IN  IF post_immed_dom[b] = exit THEN UNCHANGED <<post_immed_dom, postchanged>>
         ELSE /\ post_immed_dom' = [post_immed_dom EXCEPT ![b] = NewPostIdom(b)]
              /\ postchanged' = (postchanged \/ post_immed_dom[b] # NewPostIdom(b))
  /\ posti' = posti - 1
  /\ UNCHANGED <<vars, post, walkvars, calls>>

\* The fingers may leave postorder or never meet: the model does not follow them.
PostLost ==
  /\ post = "sweep" /\ Stale
  /\ post' = "lost"
  /\ UNCHANGED <<vars, walkvars, post_immed_dom, posti, postchanged, calls>>

EndPostSweep ==
  /\ post = "sweep" /\ ~Stale /\ posti = 0
  /\ IF postchanged
     THEN /\ posti' = Len(postorder) - 1 /\ postchanged' = FALSE
          /\ UNCHANGED <<post, post_immed_dom, calls>>
     ELSE /\ post' = "done" /\ calls' = calls + 1
          /\ post_immed_dom' = [post_immed_dom EXCEPT ![exit] = NONE]
          /\ UNCHANGED <<posti, postchanged>>
  /\ UNCHANGED <<vars, walkvars>>

PostStep ==
  StartPost \/ WalkIn \/ WalkBack \/ StartPostSweeps \/ PostSweep \/ PostLost \/ EndPostSweep

\* A pass may edit the graph with or without having asked for post dominators.
PostEdit ==
  /\ post \notin {"walk", "sweep"} /\ Edit
  /\ post' = "none"
  /\ UNCHANGED <<loopvars, domvars, walkvars, post_immed_dom, posti, postchanged, calls>>

Run == (Step /\ UNCHANGED postvars) \/ PostStep

PostNext == Run \/ PostEdit

PostSpec == PostInit /\ [][PostNext]_<<vars, postvars>> /\ WF_<<vars, postvars>>(Run)

(***************************************************************************)
(* Properties                                                              *)
(***************************************************************************)

\* The blocks a path leads from to an exit, the entry left out: its index is the one that
\* exit has been marked under.
ReachExit == ReachableFrom([b \in AllBlocks |-> Range(Ins(b))], {exit}) \ {0}

\* The post dominators are the dominators of the reversed graph with one exit, for every
\* block on a way to an exit, in every call that comes to an end.  The others have none, but
\* for an entry that is an exit itself, after the first call; after a later one as well,
\* unless a way to the exits is lost in between, and a block with it.
PostDominatorsExact ==
  post = "done" =>
    LET pred == [b \in AllBlocks |-> Range(Ins(b)) \ {0}]
    IN  /\ post_immed_dom[exit] = NONE
        /\ \A b \in ReachExit \ {exit} : post_immed_dom[b] = Idom(pred, exit, b)
        /\ calls = 1 \/ ReachExit \union {0, exit} = AllBlocks =>
             \A b \in AllBlocks \ (ReachExit \union {exit}) :
               post_immed_dom[b] = IF b \in Range(exitlist) THEN exit ELSE NONE

\* structure_reset comes to an end, the sweeps of calc_forward_dominator included, and so
\* does calc_post_dominator, unless it starts from what an earlier call has left.
Terminates == <>[](phase = "done" /\ post \in {"done", "lost"})
==============================================================================
