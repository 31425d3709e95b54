-------------------------- MODULE MCBlobController --------------------------
(***************************************************************************)
(* Constants for model checking BlobController: the sizes 10K and 512K     *)
(* become 2 and 4, the lifetimes 7 days, 30 days and 20 years become 1, 2  *)
(* and 3.                                                                  *)
(***************************************************************************)
EXTENDS BlobController, TLC

Rules == (2 :> 2) @@ (4 :> 1)

\* Plain blobs and entries around every limit, with a length that is declared,
\* understated or not declared.
AllUploads ==
    {p \in [life: 0..6, length: {1, 2, 4, 5, Chunked}, size: {1, 2, 4, 5},
            type: {"entry", "other"}, body: {"valid", "invalid", "null"}] :
        /\ p.length \in {p.size, 1, Chunked}
        /\ p.type = "other" => p.body = "valid"
        /\ p.body # "valid" => p.life = 1}

Symmetry == Permutations(Stream)
=============================================================================
