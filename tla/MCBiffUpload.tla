----------------------------- MODULE MCBiffUpload -----------------------------
(* Small instances of BiffUpload. *)
EXTENDS BiffUpload

\* Images of no, one and a half and two chunks, one with two equal chunks,
\* and one of three.
MCFiles == {<<>>, <<"a", "b", "c">>, <<"a", "a", "a", "a">>,
            <<"a", "b", "b", "a">>, <<"a", "b", "c", "a", "b", "c">>}

MCSmallFiles == {<<>>, <<"a", "b", "c">>, <<"a", "a", "a", "a", "a">>}
=============================================================================
