------------------------------- MODULE MCSeedTool -------------------------------
(***************************************************************************)
(* The seed tool with its eleven dictionaries, and a few keys: the example  *)
(* of the source, keys at the ends of the four bytes and of the word list.  *)
(***************************************************************************)
EXTENDS SeedTool, SeedDictionaries

Repeated(g) == [k \in 1 .. 8 |-> g]

MCSpendKeys ==
    {ExampleKey, Repeated(<<255, 255, 255, 255>>), Repeated(<<0, 0, 0, 0>>),
     Repeated(<<90, 6, 0, 0>>), Repeated(<<164, 87, 40, 0>>)}

\* The first and the last word as the checksum, below and beyond 24.
MCChecksums == {0, 23, 48}
=============================================================================
