---------------------------- MODULE MCHarmanOta -----------------------------
(* HarmanOta for TLC: a file of each kind, one of them for another product; *)
(* buffers that packets do not fill evenly, images longer than a buffer.    *)
EXTENDS HarmanOta

Prompts == [ver |-> 2, vpOnly |-> TRUE, pid |-> 1]
Full(v) == [ver |-> v, vpOnly |-> FALSE, pid |-> 1]
Foreign == [ver |-> 2, vpOnly |-> FALSE, pid |-> 2]

MCPackages == {Prompts, Full(2), Full(3), Foreign}

=============================================================================
