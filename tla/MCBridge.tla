------------------------------- MODULE MCBridge -------------------------------
(* Bridge for TLC: chunks of one and two bytes, read one or two at a time, so *)
(* that a chunk is read in pieces and a read spans chunks.                    *)
EXTENDS Bridge

MCByte == {"a", "b", "c"}
MCChunks == {<<"a">>, <<"b", "c">>}
=============================================================================
