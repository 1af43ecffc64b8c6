------------------------------- MODULE MCBody -------------------------------
(* Body for a few request heads: with a length, chunked, and expecting.    *)
EXTENDS Body

Request(chunked, len, expect, keep) ==
    [k |-> "head", chunked |-> chunked, len |-> len, keep |-> keep,
     expect |-> expect, refused |-> FALSE]

MCHeads == {Request(FALSE, 0, FALSE, TRUE), Request(FALSE, 3, FALSE, TRUE),
            Request(TRUE, 0, FALSE, TRUE), Request(FALSE, 2, TRUE, FALSE),
            [Request(FALSE, 0, FALSE, TRUE) EXCEPT !.refused = TRUE]}
=============================================================================
