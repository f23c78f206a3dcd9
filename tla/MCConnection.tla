---------------------------- MODULE MCConnection ----------------------------
(***************************************************************************)
(* Instance of Connection: bytes have 8 values, a length takes two of them *)
(* and an id one, a frame at most two bytes behind its length.  The client *)
(* sends two frames; or a frame and a length with the top bit set; or a    *)
(* length shorter than the id.  Behind an illegal length comes what looks  *)
(* like a frame again.                                                     *)
(***************************************************************************)
EXTENDS Connection

MCScripts ==
  LET f == [id |-> 1, body |-> <<5>>]
      g == [id |-> 2, body |-> <<>>]
  IN  {[frames |-> <<f, g>>, junk |-> <<>>],
       [frames |-> <<g>>, junk |-> <<5, 0, 0, 1, 3>>],
       [frames |-> <<>>, junk |-> <<0, 0, 0, 1, 3>>]}

MCReplies == [c \in Threads \X (1..MaxOps) |->
                [id |-> c[1] * MaxOps + c[2], body |-> IF c[1] = 0 THEN <<>> ELSE <<7>>]]
=============================================================================
