--------------------------- MODULE SeedDictionaries ---------------------------
(***************************************************************************)
(* The dictionaries of the seed tool, src/tools/python.  A word is its      *)
(* length in bytes, which is all the upload to the device depends on: how   *)
(* many words a message takes is told by these numbers.  Of a language that *)
(* the tool does not upload only the number of its words is kept.           *)
(***************************************************************************)
EXTENDS Sequences


chinese_simplified ==
    [ english_language_name |-> "Chinese (simplified)", online |-> FALSE, prefix_length |-> 1,
      size |-> 1626, words |-> <<>> ]

dutch ==
    [ english_language_name |-> "Dutch", online |-> FALSE, prefix_length |-> 4,
      size |-> 1626, words |-> <<>> ]
-----------------------------------------------------------------------------
(* english.py *)
english_1 ==
    <<5, 7, 7, 6, 8, 5, 8, 6, 5, 7, 4, 6, 6, 8, 7, 6, 7, 6, 5, 8, 5, 8, 6, 5, 9, 5,
      9, 6, 4, 6, 6, 6, 5, 6, 5, 7, 6, 9, 5, 5, 8, 5, 6, 5, 5, 8, 7, 7, 5, 4, 4, 6,
      5, 7, 6, 7, 8, 5, 6, 5, 6, 7, 4, 8, 6, 6, 5, 6, 7, 6, 4, 7, 5, 5, 6, 6, 7, 8,
      6, 5, 7, 7, 6, 5, 7, 7, 5, 4, 5, 6, 7, 5, 7, 8, 8, 9, 6, 6, 5, 5, 6, 4, 6, 5,
      7, 8, 6, 7, 5, 5, 6, 6, 8, 6, 7, 5, 4, 6, 6, 6, 8, 5, 6, 4, 7, 6, 6, 6, 5, 8,
      7, 5, 7, 6, 6, 4, 4, 4, 5, 5, 4, 5, 5, 7, 7, 6, 6, 7, 6, 5>>
english_2 ==
    <<7, 5, 5, 6, 4, 7, 4, 5, 5, 6, 5, 5, 7, 7, 7, 6, 7, 5, 6, 6, 4, 7, 4, 8, 7, 6,
      9, 9, 7, 7, 5, 7, 4, 8, 7, 4, 7, 4, 7, 6, 6, 4, 6, 4, 6, 4, 4, 7, 6, 7, 5, 9,
      6, 5, 6, 7, 6, 6, 4, 8, 4, 6, 5, 8, 6, 6, 6, 7, 6, 6, 5, 6, 6, 4, 4, 5, 4, 8,
      4, 5, 6, 5, 5, 9, 5, 5, 7, 4, 6, 4, 7, 8, 6, 5, 5, 6, 6, 7, 7, 8, 5, 5, 4, 4,
      5, 5, 4, 7, 6, 4, 8, 5, 6, 4, 4, 4, 7, 7, 7, 6, 4, 8, 4, 8, 7, 5, 7, 7, 7, 6,
      7, 8, 7, 7, 4, 4, 6, 5, 4, 9, 6, 6, 4, 6, 9, 4, 7, 5, 5, 5>>
english_3 ==
    <<9, 7, 6, 7, 9, 5, 8, 7, 11, 6, 9, 5, 4, 6, 7, 9, 7, 4, 4, 9, 5, 6, 4, 6, 5, 8,
      8, 8, 5, 6, 5, 6, 5, 4, 4, 5, 7, 8, 6, 7, 7, 6, 6, 6, 4, 4, 5, 6, 6, 8, 5, 6,
      4, 6, 8, 4, 5, 4, 8, 5, 5, 6, 8, 6, 6, 5, 5, 9, 5, 8, 8, 4, 5, 5, 4, 6, 9, 9,
      4, 7, 9, 8, 4, 4, 6, 8, 4, 9, 4, 9, 5, 6, 5, 6, 5, 6, 6, 5, 5, 4, 6, 6, 5, 6,
      4, 7, 5, 7, 6, 7, 8, 6, 5, 6, 6, 6, 7, 6, 8, 4, 5, 5, 5, 7, 7, 5, 7, 9, 9, 6,
      6, 7, 6, 9, 8, 8, 7, 7, 7, 6, 6, 4, 6, 9, 5, 5, 7, 7, 6, 7>>
english_4 ==
    <<5, 4, 6, 5, 7, 5, 6, 5, 5, 5, 5, 8, 7, 4, 6, 7, 6, 5, 8, 7, 5, 6, 4, 6, 9, 6,
      6, 7, 5, 5, 4, 7, 7, 4, 6, 6, 5, 8, 6, 5, 5, 4, 5, 6, 7, 5, 7, 6, 8, 5, 5, 5,
      6, 8, 5, 5, 6, 5, 4, 8, 5, 6, 6, 9, 8, 6, 5, 6, 6, 4, 6, 6, 6, 4, 4, 6, 5, 4,
      4, 4, 7, 5, 4, 4, 8, 7, 8, 5, 7, 7, 6, 6, 5, 5, 5, 5, 8, 5, 7, 6, 5, 6, 5, 7,
      5, 4, 5, 4, 6, 9, 4, 7, 5, 8, 4, 7, 6, 7, 6, 6, 7, 9, 4, 7, 5, 7, 5, 5, 4, 7,
      4, 5, 6, 4, 7, 5, 6, 7, 7, 7, 5, 9, 7, 7, 7, 7, 6, 4, 8, 6>>
english_5 ==
    <<7, 8, 5, 5, 6, 7, 5, 5, 8, 7, 7, 6, 7, 6, 5, 5, 7, 6, 5, 4, 7, 7, 4, 4, 5, 6,
      8, 4, 6, 6, 4, 6, 8, 5, 7, 5, 5, 7, 6, 4, 4, 5, 6, 7, 7, 4, 6, 8, 5, 7, 5, 4,
      8, 5, 5, 5, 5, 6, 6, 7, 7, 9, 7, 5, 8, 7, 5, 10, 7, 8, 8, 8, 6, 7, 6, 6, 8, 9,
      5, 7, 7, 6, 8, 8, 6, 8, 5, 5, 4, 5, 8, 6, 8, 6, 7, 6, 5, 9, 6, 5, 6, 7, 5, 6,
      6, 7, 7, 6, 5, 7, 4, 4, 5, 5, 9, 8, 7, 6, 7, 6, 6, 6, 7, 4, 4, 6, 6, 7, 6, 6,
      6, 7, 6, 7, 5, 7, 5, 7, 4, 4, 4, 4, 7, 8, 8, 6, 4, 6, 4, 7>>
english_6 ==
    <<6, 8, 7, 7, 4, 5, 6, 8, 4, 8, 4, 5, 9, 7, 5, 10, 6, 6, 4, 5, 4, 8, 6, 5, 4, 5,
      9, 4, 7, 6, 4, 8, 5, 5, 4, 6, 7, 5, 7, 7, 6, 7, 7, 4, 7, 5, 4, 4, 9, 5, 8, 5,
      6, 5, 4, 8, 6, 6, 6, 6, 7, 6, 5, 5, 5, 9, 4, 7, 6, 8, 6, 7, 6, 4, 5, 5, 5, 7,
      8, 7, 6, 5, 4, 4, 6, 5, 4, 6, 5, 7, 9, 6, 5, 6, 6, 6, 4, 9, 5, 4, 8, 7, 5, 4,
      5, 8, 8, 7, 8, 7, 6, 4, 6, 4, 5, 4, 4, 5, 6, 4, 6, 6, 7, 7, 4, 6, 6, 6, 8, 6,
      6, 5, 4, 4, 6, 6, 8, 5, 8, 6, 4, 5, 6, 6, 6, 6, 7, 6, 5, 7>>
english_7 ==
    <<6, 6, 7, 4, 7, 6, 4, 5, 5, 6, 7, 5, 7, 8, 4, 6, 8, 6, 8, 7, 4, 6, 6, 6, 7, 7,
      5, 4, 5, 4, 5, 5, 5, 7, 6, 8, 7, 8, 6, 9, 5, 6, 5, 7, 8, 7, 5, 5, 7, 7, 6, 6,
      7, 6, 6, 8, 4, 6, 4, 5, 8, 5, 4, 4, 5, 7, 8, 6, 7, 9, 9, 7, 7, 5, 5, 7, 4, 8,
      6, 5, 8, 8, 4, 5, 5, 8, 5, 8, 7, 7, 8, 7, 7, 5, 6, 9, 4, 6, 5, 7, 6, 8, 7, 4,
      6, 5, 6, 6, 6, 6, 8, 7, 5, 7, 9, 5, 4, 5, 5, 9, 4, 8, 4, 4, 4, 4, 5, 7, 6, 6,
      5, 4, 7, 5, 7, 6, 8, 8, 5, 8, 6, 5, 5, 9, 8, 7, 7, 7, 8, 8>>
english_8 ==
    <<6, 4, 7, 6, 6, 6, 7, 5, 6, 5, 9, 5, 7, 7, 5, 6, 6, 7, 7, 6, 7, 7, 8, 6, 7, 7,
      5, 6, 5, 7, 6, 6, 8, 4, 7, 8, 7, 7, 6, 5, 5, 5, 6, 4, 7, 8, 8, 6, 5, 7, 6, 4,
      7, 5, 8, 6, 6, 7, 6, 4, 6, 6, 4, 8, 5, 5, 6, 4, 5, 7, 6, 7, 6, 5, 5, 5, 7, 9,
      5, 5, 4, 7, 6, 5, 6, 8, 5, 6, 4, 5, 6, 4, 5, 5, 5, 6, 6, 4, 5, 7, 6, 8, 8, 8,
      5, 6, 7, 7, 6, 7, 6, 4, 6, 7, 6, 6, 5, 6, 6, 6, 6, 4, 5, 4, 7, 5, 6, 6, 6, 5,
      6, 5, 7, 6, 5, 5, 7, 5, 5, 6, 6, 7, 5, 7, 5, 4, 6, 7, 6, 6>>
english_9 ==
    <<6, 6, 6, 5, 7, 8, 8, 4, 7, 6, 4, 6, 4, 6, 6, 6, 7, 7, 4, 5, 8, 5, 7, 9, 7, 7,
      6, 6, 7, 5, 5, 5, 7, 6, 5, 6, 8, 7, 7, 9, 8, 9, 8, 7, 7, 5, 7, 6, 8, 7, 7, 8,
      8, 8, 7, 8, 8, 8, 5, 7, 8, 4, 8, 9, 6, 5, 8, 7, 5, 6, 4, 8, 6, 7, 8, 9, 4, 6,
      4, 5, 8, 7, 4, 8, 5, 6, 5, 5, 4, 5, 5, 6, 4, 8, 5, 4, 6, 9, 5, 6, 7, 5, 8, 9,
      5, 4, 5, 6, 6, 7, 8, 5, 5, 4, 6, 6, 8, 7, 5, 9, 8, 8, 9, 6, 7, 8, 5, 7, 5, 8,
      7, 6, 6, 8, 6, 5, 6, 7, 5, 7, 5, 5, 8, 8, 8, 7, 6, 5, 5, 8>>
english_10 ==
    <<6, 4, 5, 6, 6, 5, 8, 9, 6, 6, 6, 6, 5, 4, 8, 9, 7, 7, 4, 8, 6, 5, 7, 8, 7, 6,
      8, 4, 9, 7, 5, 8, 6, 6, 6, 4, 5, 5, 4, 6, 6, 5, 6, 6, 6, 7, 7, 5, 7, 6, 8, 6,
      5, 8, 8, 5, 7, 5, 5, 6, 5, 6, 5, 5, 5, 5, 6, 6, 8, 5, 6, 7, 5, 5, 5, 7, 5, 4,
      7, 6, 8, 6, 6, 5, 5, 6, 5, 8, 5, 7, 6, 6, 6, 4, 6, 8, 8, 6, 8, 9, 5, 5, 6, 5,
      8, 7, 5, 8, 7, 8, 6, 9, 8, 7, 8, 6, 6, 5, 7, 6, 6, 5, 6, 8, 6, 7, 6, 6, 6, 4,
      5, 7, 8, 7, 7, 5, 7, 6, 5, 6, 5, 5, 5, 8, 7, 6, 6, 7, 8, 5>>
english_11 ==
    <<4, 5, 7, 4, 7, 4, 8, 4, 6, 6, 6, 5, 7, 4, 6, 8, 12, 6, 7, 5, 5, 7, 6, 5, 9, 8,
      6, 7, 7, 6, 6, 7, 7, 6, 5, 5, 5, 5, 5, 7, 6, 5, 7, 6, 6, 7, 4, 6, 7, 5, 6, 7,
      6, 6, 7, 5, 8, 6, 7, 7, 7, 5, 7, 5, 7, 4, 4, 4, 7, 7, 5, 4, 7, 5, 7, 5, 5, 4,
      6, 6, 6, 7, 6, 4, 9, 5, 6, 6, 4, 5, 4, 7, 7, 5, 5, 7, 5, 4, 5, 5, 5, 5, 5, 4,
      7, 8, 6, 9, 4, 6, 5, 4, 7, 4, 6, 4, 5, 4, 5, 7, 6, 7, 6, 6, 5, 4>>
english ==
    [ english_language_name |-> "English", online |-> TRUE, prefix_length |-> 3,
      size |-> 1626, words |-> english_1 \o english_2 \o english_3 \o english_4 \o english_5 \o english_6 \o
                english_7 \o english_8 \o english_9 \o english_10 \o english_11 ]
-----------------------------------------------------------------------------
(* esperanto.py *)
esperanto_1 ==
    <<5, 6, 5, 11, 8, 7, 9, 8, 8, 6, 7, 5, 6, 8, 6, 6, 9, 10, 8, 6, 9, 6, 8, 4, 9,
      7, 6, 6, 6, 8, 7, 6, 6, 5, 6, 5, 4, 9, 7, 6, 7, 6, 6, 6, 7, 4, 7, 11, 9, 9, 5,
      4, 8, 7, 4, 5, 8, 5, 4, 8, 8, 6, 6, 7, 8, 6, 6, 6, 6, 4, 8, 4, 7, 9, 8, 6, 6,
      5, 9, 9, 8, 4, 7, 6, 6, 5, 8, 9, 5, 7, 6, 5, 7, 8, 8, 8, 8, 9, 10, 5, 7, 8, 8,
      8, 6, 6, 5, 6, 5, 6, 11, 6, 7, 8, 5, 6, 6, 5, 8, 5, 5, 6, 6, 8, 8, 6, 4, 6, 6,
      6, 11, 4, 8, 4, 6, 5, 5, 8, 7, 5, 7, 5, 7, 7, 7, 7, 6, 8, 6, 7>>
esperanto_2 ==
    <<5, 5, 8, 6, 6, 6, 9, 5, 8, 5, 7, 8, 8, 7, 6, 6, 7, 11, 5, 6, 6, 6, 10, 8, 6,
      8, 4, 5, 6, 4, 7, 5, 4, 7, 6, 6, 7, 5, 8, 4, 7, 12, 5, 6, 7, 6, 5, 6, 5, 6, 6,
      6, 5, 10, 7, 6, 5, 8, 9, 8, 6, 5, 11, 5, 9, 5, 8, 8, 6, 6, 10, 6, 5, 6, 5, 4,
      5, 8, 9, 9, 9, 10, 6, 4, 6, 4, 7, 4, 9, 5, 5, 6, 6, 9, 7, 8, 5, 7, 6, 8, 4, 6,
      5, 8, 5, 7, 9, 5, 11, 9, 6, 6, 4, 4, 5, 5, 6, 6, 6, 7, 7, 4, 4, 5, 6, 5, 5, 6,
      4, 5, 6, 8, 5, 8, 7, 6, 7, 12, 8, 7, 5, 10, 4, 5, 6, 5, 4, 4, 8, 8>>
esperanto_3 ==
    <<4, 6, 7, 7, 5, 4, 5, 5, 7, 6, 8, 6, 6, 7, 7, 7, 6, 6, 10, 10, 8, 7, 5, 7, 6,
      7, 6, 4, 6, 7, 8, 9, 5, 9, 7, 5, 9, 9, 8, 6, 5, 7, 7, 7, 6, 7, 7, 11, 7, 6, 6,
      7, 6, 6, 6, 6, 5, 9, 6, 6, 5, 5, 6, 5, 6, 8, 4, 6, 5, 5, 6, 7, 6, 5, 6, 6, 6,
      8, 5, 6, 9, 4, 7, 6, 5, 10, 4, 5, 7, 5, 5, 5, 5, 5, 4, 9, 7, 4, 5, 6, 8, 5, 9,
      5, 5, 10, 8, 7, 6, 7, 4, 6, 9, 6, 4, 6, 8, 7, 6, 5, 7, 7, 9, 8, 7, 6, 6, 6, 7,
      9, 8, 6, 7, 7, 6, 7, 6, 7, 6, 6, 6, 6, 6, 7, 9, 8, 8, 7, 6, 7>>
esperanto_4 ==
    <<6, 6, 6, 8, 7, 6, 8, 6, 7, 7, 10, 10, 12, 9, 7, 7, 7, 6, 6, 8, 6, 7, 6, 6, 8,
      8, 7, 10, 4, 7, 6, 4, 5, 7, 5, 13, 8, 5, 5, 4, 6, 9, 7, 6, 7, 6, 7, 7, 7, 6,
      6, 7, 6, 7, 5, 6, 8, 7, 8, 12, 6, 5, 7, 7, 11, 6, 6, 5, 6, 5, 7, 6, 6, 6, 5,
      5, 4, 7, 8, 5, 5, 6, 6, 7, 5, 9, 5, 7, 4, 6, 8, 5, 5, 6, 4, 6, 5, 6, 5, 6, 6,
      7, 9, 5, 5, 7, 6, 5, 8, 6, 5, 7, 8, 7, 6, 6, 5, 5, 6, 5, 5, 5, 6, 7, 7, 6, 5,
      7, 5, 7, 7, 9, 7, 6, 5, 6, 4, 5, 5, 4, 6, 7, 7, 10, 6, 7, 6, 7, 5, 9>>
esperanto_5 ==
    <<4, 5, 4, 6, 4, 4, 7, 5, 5, 6, 5, 5, 5, 6, 9, 6, 8, 8, 6, 7, 4, 8, 7, 7, 9, 7,
      7, 11, 4, 5, 6, 7, 5, 10, 10, 5, 8, 9, 6, 7, 5, 5, 5, 5, 8, 6, 5, 4, 5, 7, 7,
      4, 10, 5, 7, 6, 7, 6, 6, 5, 5, 5, 5, 5, 11, 9, 4, 6, 7, 4, 5, 5, 5, 4, 12, 7,
      7, 8, 8, 6, 6, 11, 8, 5, 8, 5, 7, 7, 6, 4, 5, 4, 7, 7, 6, 6, 9, 5, 7, 5, 9, 4,
      6, 5, 4, 10, 6, 8, 7, 9, 10, 7, 5, 6, 5, 7, 11, 7, 8, 5, 5, 5, 9, 6, 7, 4, 9,
      9, 6, 5, 4, 6, 8, 6, 8, 6, 5, 4, 6, 5, 6, 5, 4, 6, 7, 9, 8, 7, 6, 5>>
esperanto_6 ==
    <<5, 6, 6, 5, 4, 5, 6, 6, 6, 5, 6, 4, 10, 11, 8, 8, 7, 5, 7, 7, 5, 9, 9, 6, 6,
      7, 6, 8, 7, 7, 7, 7, 11, 6, 6, 4, 9, 7, 6, 5, 5, 8, 6, 5, 6, 7, 7, 5, 6, 9, 7,
      7, 4, 7, 5, 4, 7, 6, 8, 4, 5, 6, 7, 7, 5, 7, 5, 7, 7, 5, 4, 5, 6, 4, 7, 5, 6,
      8, 7, 4, 6, 6, 5, 7, 5, 5, 8, 9, 8, 9, 7, 6, 6, 6, 5, 5, 5, 5, 5, 5, 5, 10, 6,
      7, 5, 6, 9, 6, 6, 6, 7, 4, 6, 5, 7, 7, 5, 7, 5, 5, 5, 5, 7, 6, 5, 6, 8, 6, 6,
      6, 7, 9, 5, 7, 5, 6, 5, 7, 5, 4, 4, 5, 8, 7, 9, 5, 6, 5, 5, 5>>
esperanto_7 ==
    <<4, 6, 8, 6, 5, 4, 6, 6, 4, 6, 7, 6, 4, 5, 6, 6, 9, 4, 6, 7, 11, 9, 9, 5, 6, 9,
      8, 8, 6, 7, 7, 8, 7, 6, 6, 7, 8, 6, 5, 6, 6, 6, 4, 5, 6, 5, 5, 5, 6, 7, 4, 6,
      6, 4, 6, 5, 10, 6, 5, 6, 6, 6, 5, 5, 6, 4, 6, 7, 6, 6, 5, 5, 4, 8, 5, 6, 6, 6,
      7, 5, 6, 6, 7, 8, 10, 5, 7, 6, 9, 4, 9, 6, 6, 6, 5, 6, 6, 7, 5, 8, 7, 6, 8, 5,
      8, 7, 6, 5, 5, 7, 6, 4, 6, 9, 7, 5, 7, 10, 6, 6, 8, 5, 4, 7, 7, 6, 5, 9, 8, 5,
      7, 7, 6, 6, 7, 6, 5, 5, 7, 6, 9, 7, 5, 6, 5, 5, 5, 4, 7, 7>>
esperanto_8 ==
    <<9, 4, 5, 5, 5, 5, 7, 9, 4, 7, 5, 6, 6, 7, 10, 6, 6, 10, 6, 6, 6, 6, 10, 7, 7,
      8, 5, 10, 5, 7, 5, 4, 5, 6, 4, 5, 9, 8, 6, 6, 9, 6, 5, 5, 6, 5, 8, 5, 9, 8, 6,
      6, 6, 4, 6, 6, 6, 6, 8, 5, 4, 5, 4, 4, 7, 7, 5, 7, 6, 5, 6, 9, 5, 6, 8, 7, 4,
      5, 4, 9, 5, 9, 4, 6, 7, 5, 6, 4, 5, 5, 5, 5, 8, 6, 8, 6, 4, 5, 7, 7, 7, 10, 9,
      5, 8, 6, 8, 6, 9, 7, 6, 8, 5, 6, 8, 7, 8, 4, 8, 6, 9, 5, 6, 6, 9, 5, 6, 9, 4,
      7, 5, 6, 6, 6, 6, 5, 6, 6, 8, 9, 6, 6, 6, 5, 6, 4, 6, 7, 8, 8>>
esperanto_9 ==
    <<7, 6, 7, 9, 5, 6, 5, 8, 6, 9, 7, 6, 7, 10, 6, 7, 9, 5, 6, 7, 6, 8, 9, 7, 10,
      4, 5, 5, 8, 6, 6, 11, 7, 9, 8, 9, 12, 6, 6, 8, 9, 7, 10, 8, 9, 6, 10, 8, 7, 7,
      5, 4, 9, 8, 5, 6, 4, 5, 4, 7, 5, 6, 9, 6, 8, 5, 5, 7, 5, 5, 5, 6, 8, 8, 7, 6,
      7, 7, 7, 7, 7, 7, 7, 6, 10, 6, 7, 8, 8, 8, 12, 10, 8, 8, 8, 6, 7, 5, 6, 6, 6,
      9, 7, 7, 6, 7, 8, 6, 5, 5, 6, 9, 6, 10, 4, 9, 8, 9, 7, 6, 7, 6, 6, 7, 9, 4, 6,
      5, 6, 6, 4, 5, 4, 9, 6, 6, 7, 7, 6, 8, 5, 7, 7, 6, 7, 8, 6, 5, 6, 6>>
esperanto_10 ==
    <<4, 8, 8, 10, 9, 7, 7, 7, 7, 9, 5, 7, 6, 6, 6, 5, 7, 8, 7, 6, 6, 6, 7, 5, 7, 6,
      7, 6, 7, 8, 7, 6, 7, 5, 7, 6, 7, 9, 7, 6, 6, 7, 7, 8, 6, 8, 5, 5, 7, 5, 7, 7,
      4, 5, 5, 5, 7, 6, 6, 6, 5, 5, 6, 8, 8, 5, 6, 6, 6, 5, 7, 10, 7, 7, 6, 8, 8, 5,
      9, 7, 5, 6, 5, 4, 7, 5, 11, 8, 6, 5, 8, 6, 5, 6, 7, 7, 10, 7, 5, 5, 7, 7, 6,
      5, 5, 7, 6, 9, 8, 6, 7, 8, 5, 8, 6, 6, 7, 7, 5, 4, 5, 5, 10, 6, 5, 5, 6, 8, 4,
      6, 8, 6, 8, 6, 8, 5, 4, 5, 8, 7, 6, 10, 7, 5, 6, 7, 5, 9, 7, 8>>
esperanto_11 ==
    <<7, 7, 8, 4, 6, 6, 7, 6, 7, 4, 8, 6, 5, 5, 5, 7, 6, 4, 8, 5, 8, 4, 6, 8, 5, 9,
      7, 6, 6, 5, 6, 7, 7, 5, 5, 6, 8, 5, 6, 5, 8, 7, 6, 8, 6, 7, 6, 9, 5, 7, 6, 7,
      9, 6, 5, 5, 4, 6, 9, 7, 8, 7, 5, 6, 9, 7, 5, 5, 7, 7, 6, 6, 6, 5, 4, 7, 5, 5,
      7, 4, 6, 6, 5, 7, 8, 7, 5, 6, 6, 5, 5, 6, 6, 5, 6, 4, 7, 5, 4, 5, 6, 5, 7, 5,
      8, 9, 4, 5, 6, 6, 7, 7, 8, 4, 7, 5, 4, 8, 7, 5, 6, 4, 8, 5, 6, 6>>
esperanto ==
    [ english_language_name |-> "Esperanto", online |-> TRUE, prefix_length |-> 4,
      size |-> 1626, words |-> esperanto_1 \o esperanto_2 \o esperanto_3 \o esperanto_4 \o esperanto_5 \o
                esperanto_6 \o esperanto_7 \o esperanto_8 \o esperanto_9 \o
                esperanto_10 \o esperanto_11 ]
-----------------------------------------------------------------------------
(* french.py *)
french_1 ==
    <<7, 7, 4, 6, 7, 4, 7, 6, 6, 6, 6, 6, 6, 9, 7, 6, 5, 7, 5, 5, 6, 4, 6, 5, 6, 5,
      8, 5, 6, 8, 6, 7, 8, 4, 6, 5, 4, 6, 6, 6, 6, 5, 5, 5, 4, 8, 6, 5, 5, 4, 7, 6,
      5, 6, 6, 5, 5, 5, 7, 5, 6, 6, 4, 7, 5, 5, 6, 6, 6, 7, 8, 6, 6, 8, 10, 9, 5, 8,
      9, 7, 5, 6, 6, 5, 6, 6, 6, 5, 4, 6, 8, 7, 7, 5, 6, 6, 5, 8, 7, 5, 6, 5, 6, 8,
      7, 7, 4, 5, 6, 10, 6, 6, 5, 6, 6, 9, 5, 4, 5, 4, 6, 6, 4, 5, 5, 4, 5, 6, 5, 5,
      4, 5, 6, 5, 4, 7, 5, 6, 6, 5, 6, 6, 4, 7, 5, 8, 6, 6, 6, 5>>
french_2 ==
    <<6, 6, 7, 8, 6, 6, 5, 6, 5, 4, 5, 6, 6, 6, 5, 6, 6, 4, 5, 5, 6, 5, 6, 4, 4, 5,
      5, 5, 8, 6, 6, 6, 7, 7, 6, 6, 5, 6, 6, 6, 5, 6, 4, 4, 6, 6, 7, 7, 4, 5, 6, 6,
      6, 7, 4, 6, 6, 6, 6, 6, 7, 7, 5, 5, 6, 6, 5, 6, 7, 5, 5, 7, 5, 7, 5, 5, 6, 6,
      5, 4, 6, 5, 5, 8, 6, 8, 5, 5, 7, 5, 5, 8, 5, 5, 6, 6, 6, 9, 5, 6, 4, 4, 4, 5,
      6, 4, 9, 6, 6, 6, 6, 7, 6, 6, 5, 7, 7, 7, 6, 6, 6, 4, 5, 4, 6, 6, 4, 7, 5, 7,
      6, 5, 6, 4, 5, 5, 4, 5, 6, 5, 4, 6, 4, 6, 6, 6, 6, 8, 5, 6>>
french_3 ==
    <<5, 7, 4, 6, 7, 4, 6, 6, 6, 5, 4, 4, 4, 5, 5, 7, 4, 7, 5, 6, 5, 6, 8, 8, 7, 5,
      7, 6, 8, 6, 7, 6, 5, 6, 5, 6, 5, 6, 7, 4, 7, 7, 5, 7, 6, 4, 7, 6, 5, 5, 4, 5,
      7, 5, 5, 7, 5, 5, 5, 5, 4, 7, 4, 4, 6, 4, 9, 6, 6, 6, 5, 6, 8, 4, 5, 4, 6, 7,
      9, 6, 6, 5, 5, 4, 6, 7, 5, 6, 6, 4, 9, 9, 5, 6, 8, 5, 5, 4, 7, 8, 8, 8, 5, 6,
      6, 7, 4, 5, 5, 7, 8, 6, 6, 6, 5, 6, 6, 6, 6, 6, 7, 5, 4, 8, 7, 5, 4, 7, 5, 4,
      4, 5, 6, 6, 5, 4, 7, 5, 6, 9, 4, 9, 7, 7, 6, 8, 8, 6, 6, 6>>
french_4 ==
    <<8, 7, 6, 6, 8, 5, 6, 8, 6, 7, 5, 5, 7, 6, 5, 8, 7, 7, 8, 6, 8, 5, 10, 5, 7, 6,
      8, 6, 6, 6, 5, 5, 7, 7, 5, 8, 6, 7, 6, 4, 7, 5, 9, 7, 8, 6, 5, 7, 6, 4, 6, 4,
      5, 4, 7, 7, 5, 5, 6, 7, 6, 5, 5, 4, 6, 6, 5, 7, 5, 6, 5, 5, 6, 7, 6, 6, 5, 6,
      4, 5, 6, 5, 5, 6, 4, 6, 5, 7, 5, 5, 5, 4, 6, 5, 6, 4, 6, 5, 6, 5, 4, 4, 6, 5,
      4, 5, 4, 5, 6, 5, 8, 6, 5, 5, 5, 6, 5, 4, 5, 5, 6, 5, 4, 5, 5, 5, 7, 7, 6, 6,
      5, 5, 7, 5, 5, 4, 5, 5, 6, 7, 5, 5, 6, 5, 6, 4, 4, 5, 5, 5>>
french_5 ==
    <<4, 6, 5, 5, 6, 6, 5, 5, 5, 5, 5, 5, 4, 6, 6, 5, 6, 6, 5, 6, 5, 5, 7, 5, 6, 6,
      5, 4, 6, 5, 6, 6, 5, 6, 5, 4, 5, 6, 8, 7, 4, 7, 4, 6, 6, 4, 8, 7, 6, 5, 7, 5,
      4, 5, 5, 5, 6, 6, 6, 5, 6, 5, 6, 6, 4, 5, 5, 5, 5, 4, 8, 5, 6, 5, 7, 5, 5, 7,
      7, 5, 6, 6, 5, 4, 6, 6, 6, 6, 6, 5, 5, 7, 8, 5, 7, 8, 7, 10, 9, 7, 5, 8, 6, 6,
      4, 8, 7, 9, 6, 7, 8, 7, 4, 4, 5, 4, 4, 5, 6, 5, 7, 6, 5, 8, 5, 5, 5, 5, 4, 7,
      4, 6, 7, 4, 4, 7, 4, 6, 6, 4, 5, 5, 5, 4, 6, 5, 5, 7, 4, 4>>
french_6 ==
    <<5, 5, 5, 6, 5, 6, 4, 4, 6, 5, 5, 4, 7, 5, 5, 5, 5, 9, 9, 6, 6, 4, 5, 6, 5, 5,
      4, 4, 10, 5, 7, 6, 6, 5, 6, 6, 4, 4, 6, 5, 5, 4, 5, 5, 4, 6, 4, 5, 4, 5, 5, 4,
      5, 5, 5, 5, 6, 5, 4, 5, 5, 4, 6, 5, 5, 4, 7, 6, 5, 10, 5, 6, 4, 6, 6, 6, 7, 5,
      6, 6, 6, 6, 7, 6, 5, 5, 7, 7, 4, 6, 5, 5, 7, 8, 5, 6, 7, 5, 8, 6, 4, 5, 5, 6,
      6, 6, 7, 5, 5, 5, 4, 4, 6, 5, 6, 5, 5, 5, 6, 8, 6, 6, 6, 5, 4, 5, 6, 4, 6, 5,
      4, 6, 5, 5, 8, 6, 6, 5, 7, 6, 6, 5, 7, 5, 5, 5, 6, 5, 6, 6>>
french_7 ==
    <<6, 9, 5, 4, 6, 5, 6, 5, 8, 5, 5, 4, 7, 5, 5, 5, 4, 9, 6, 6, 6, 5, 6, 6, 5, 5,
      8, 6, 5, 4, 7, 4, 6, 5, 5, 5, 4, 6, 5, 4, 5, 4, 6, 6, 6, 4, 5, 7, 6, 5, 5, 6,
      7, 4, 7, 6, 6, 5, 5, 6, 5, 4, 5, 5, 5, 5, 7, 6, 8, 7, 4, 8, 7, 4, 5, 5, 6, 7,
      8, 6, 5, 6, 5, 5, 8, 7, 5, 4, 5, 6, 7, 4, 6, 6, 9, 5, 7, 6, 5, 7, 6, 6, 5, 6,
      5, 4, 7, 5, 6, 5, 7, 5, 4, 5, 5, 6, 6, 5, 5, 5, 4, 6, 4, 5, 4, 6, 9, 7, 8, 5,
      7, 4, 6, 6, 4, 5, 7, 6, 5, 6, 6, 8, 6, 6, 5, 6, 5, 5, 6, 5>>
french_8 ==
    <<5, 5, 4, 4, 6, 8, 6, 6, 7, 6, 6, 5, 6, 5, 5, 9, 8, 5, 5, 9, 5, 6, 4, 5, 5, 6,
      5, 4, 6, 4, 4, 6, 6, 6, 6, 6, 6, 5, 4, 6, 6, 4, 5, 5, 5, 5, 5, 6, 5, 6, 4, 6,
      4, 5, 7, 6, 5, 7, 4, 5, 5, 4, 4, 5, 6, 5, 4, 5, 5, 6, 8, 6, 6, 6, 5, 7, 6, 6,
      4, 7, 5, 8, 8, 5, 6, 5, 5, 6, 6, 6, 5, 4, 7, 6, 7, 7, 7, 7, 7, 6, 5, 7, 6, 6,
      6, 4, 8, 8, 7, 5, 6, 8, 9, 6, 5, 7, 5, 6, 4, 6, 6, 4, 5, 4, 5, 5, 6, 5, 8, 5,
      6, 4, 8, 5, 6, 6, 6, 7, 4, 6, 7, 4, 8, 6, 6, 8, 5, 5, 6, 4>>
french_9 ==
    <<5, 7, 4, 4, 6, 8, 7, 5, 5, 4, 6, 6, 7, 8, 6, 5, 6, 8, 5, 5, 6, 6, 5, 5, 5, 6,
      8, 9, 6, 7, 9, 7, 6, 9, 4, 7, 9, 8, 7, 8, 9, 8, 6, 8, 7, 6, 9, 6, 6, 8, 7, 9,
      5, 5, 7, 8, 6, 7, 10, 5, 6, 7, 7, 6, 9, 7, 6, 5, 5, 7, 5, 6, 8, 4, 6, 6, 4, 7,
      6, 6, 4, 4, 5, 7, 6, 5, 6, 6, 5, 6, 5, 7, 6, 5, 4, 5, 8, 6, 4, 5, 6, 5, 5, 5,
      5, 4, 6, 4, 5, 5, 5, 6, 5, 4, 6, 5, 5, 5, 5, 4, 5, 6, 6, 6, 5, 5, 5, 5, 5, 5,
      7, 7, 5, 8, 10, 5, 4, 5, 5, 5, 6, 6, 6, 7, 5, 5, 6, 6, 5, 8>>
french_10 ==
    <<4, 5, 5, 5, 7, 7, 5, 5, 7, 6, 4, 5, 6, 6, 7, 5, 9, 5, 4, 5, 6, 7, 4, 6, 5, 5,
      5, 5, 5, 4, 9, 5, 4, 5, 6, 5, 6, 7, 4, 8, 4, 7, 6, 6, 6, 4, 7, 6, 5, 8, 7, 7,
      6, 5, 5, 7, 5, 7, 8, 9, 8, 9, 5, 5, 10, 8, 7, 6, 9, 5, 5, 9, 5, 4, 6, 5, 4, 5,
      5, 5, 5, 5, 4, 7, 4, 5, 6, 5, 7, 8, 4, 10, 7, 10, 5, 5, 5, 5, 6, 5, 4, 4, 6,
      5, 5, 5, 6, 5, 5, 4, 5, 5, 4, 5, 5, 5, 5, 7, 4, 7, 5, 4, 9, 6, 6, 5, 6, 4, 5,
      6, 5, 4, 5, 4, 5, 5, 4, 4, 5, 5, 5, 5, 5, 4, 5, 6, 7, 6, 4, 5>>
french_11 ==
    <<5, 5, 5, 6, 5, 7, 8, 4, 7, 4, 4, 5, 5, 5, 10, 7, 8, 6, 5, 5, 4, 5, 6, 4, 5, 7,
      5, 4, 7, 6, 4, 6, 4, 4, 5, 5, 4, 5, 4, 5, 6, 4, 7, 5, 4, 5, 4, 6, 5, 5, 5, 5,
      7, 6, 6, 6, 5, 7, 6, 5, 4, 6, 5, 7, 4, 6, 5, 4, 5, 5, 7, 7, 7, 5, 5, 4, 5, 4,
      7, 4, 5, 5, 5, 5, 5, 5, 7, 5, 5, 6, 5, 6, 6, 8, 7, 6, 5, 5, 5, 5, 5, 5, 4, 6,
      7, 8, 6, 5, 4, 6, 5, 5, 7, 4, 6, 5, 4, 4, 5, 4, 4, 4, 5, 4, 4, 4>>
french ==
    [ english_language_name |-> "French", online |-> TRUE, prefix_length |-> 4,
      size |-> 1626, words |-> french_1 \o french_2 \o french_3 \o french_4 \o french_5 \o french_6 \o french_7 \o
                french_8 \o french_9 \o french_10 \o french_11 ]
-----------------------------------------------------------------------------
(* italian.py *)
italian_1 ==
    <<8, 8, 6, 7, 8, 8, 7, 7, 7, 8, 5, 5, 8, 8, 8, 7, 5, 6, 8, 7, 7, 8, 8, 6, 5, 8,
      6, 7, 8, 8, 8, 8, 8, 7, 8, 8, 8, 4, 5, 7, 5, 7, 6, 7, 6, 4, 4, 8, 6, 8, 7, 8,
      7, 8, 7, 8, 6, 4, 8, 5, 8, 6, 8, 8, 8, 7, 5, 8, 8, 7, 8, 5, 8, 8, 7, 8, 6, 8,
      6, 4, 8, 6, 8, 8, 6, 6, 8, 8, 8, 5, 8, 4, 8, 8, 7, 8, 6, 8, 7, 7, 8, 8, 8, 8,
      6, 6, 5, 8, 8, 7, 8, 8, 4, 7, 7, 4, 6, 4, 7, 5, 8, 7, 8, 4, 8, 7, 8, 5, 8, 8,
      8, 7, 7, 7, 4, 8, 7, 8, 5, 8, 7, 6, 6, 4, 8, 6, 4, 7, 6, 8>>
italian_2 ==
    <<7, 4, 7, 8, 8, 5, 8, 5, 6, 8, 6, 8, 7, 6, 7, 7, 8, 5, 7, 5, 8, 8, 5, 7, 6, 7,
      7, 7, 7, 8, 5, 6, 5, 7, 8, 7, 8, 8, 7, 8, 8, 7, 7, 8, 4, 7, 8, 6, 8, 6, 6, 7,
      6, 4, 6, 8, 8, 7, 8, 8, 8, 7, 8, 8, 5, 8, 7, 8, 5, 8, 8, 5, 7, 7, 8, 8, 5, 7,
      8, 7, 7, 6, 5, 8, 8, 8, 8, 8, 8, 8, 7, 8, 8, 8, 7, 6, 8, 6, 6, 5, 8, 4, 5, 7,
      7, 7, 7, 8, 6, 5, 8, 6, 8, 5, 8, 6, 7, 7, 8, 8, 7, 8, 6, 6, 8, 7, 8, 8, 7, 4,
      7, 7, 5, 7, 7, 4, 7, 7, 6, 4, 7, 5, 7, 7, 7, 8, 8, 7, 8, 6>>
italian_3 ==
    <<8, 5, 4, 7, 7, 8, 6, 8, 8, 8, 6, 8, 7, 5, 8, 7, 7, 8, 4, 8, 8, 7, 6, 8, 8, 7,
      7, 8, 8, 8, 8, 7, 8, 6, 8, 5, 7, 6, 8, 8, 8, 8, 4, 4, 6, 8, 7, 7, 5, 5, 5, 8,
      8, 6, 6, 7, 8, 7, 7, 7, 8, 8, 8, 7, 7, 6, 8, 7, 5, 7, 5, 7, 8, 8, 6, 8, 8, 7,
      5, 7, 7, 8, 7, 8, 8, 8, 8, 6, 8, 8, 8, 8, 8, 8, 5, 8, 7, 5, 7, 7, 5, 8, 7, 6,
      5, 8, 5, 8, 5, 4, 7, 6, 7, 5, 6, 7, 8, 6, 7, 5, 8, 7, 8, 5, 8, 7, 8, 8, 7, 8,
      6, 7, 5, 5, 6, 6, 4, 5, 7, 7, 7, 4, 8, 8, 7, 8, 7, 8, 8, 7>>
italian_4 ==
    <<7, 6, 8, 8, 8, 8, 7, 8, 7, 8, 8, 8, 7, 8, 6, 7, 8, 6, 8, 8, 7, 8, 7, 7, 8, 4,
      8, 6, 7, 8, 7, 8, 8, 8, 4, 5, 4, 8, 8, 8, 7, 8, 6, 8, 8, 8, 8, 5, 6, 7, 5, 8,
      7, 6, 8, 7, 6, 6, 8, 6, 6, 8, 7, 8, 7, 8, 5, 8, 7, 8, 7, 7, 6, 8, 8, 8, 8, 8,
      6, 8, 7, 6, 8, 8, 8, 8, 8, 8, 7, 7, 6, 6, 7, 6, 8, 7, 8, 5, 8, 4, 5, 4, 7, 6,
      8, 8, 5, 8, 8, 7, 7, 8, 5, 7, 8, 6, 6, 7, 8, 6, 5, 8, 6, 8, 8, 6, 8, 7, 8, 8,
      8, 7, 7, 5, 4, 8, 6, 5, 8, 8, 8, 4, 4, 8, 8, 5, 6, 6, 7, 6>>
italian_5 ==
    <<8, 7, 8, 7, 7, 5, 5, 6, 6, 4, 6, 6, 5, 4, 6, 6, 7, 7, 8, 8, 7, 8, 7, 6, 5, 8,
      6, 7, 8, 7, 6, 7, 8, 5, 7, 8, 8, 6, 8, 6, 8, 6, 8, 7, 7, 8, 7, 8, 7, 7, 4, 7,
      7, 7, 6, 8, 7, 8, 8, 8, 7, 6, 7, 6, 8, 8, 7, 8, 6, 8, 8, 6, 6, 6, 7, 7, 6, 8,
      5, 8, 7, 5, 6, 8, 4, 6, 8, 8, 7, 5, 6, 8, 8, 7, 5, 6, 8, 6, 7, 8, 8, 7, 8, 8,
      7, 7, 8, 8, 8, 8, 6, 8, 8, 7, 5, 8, 6, 7, 7, 8, 7, 6, 5, 6, 8, 6, 8, 6, 6, 5,
      8, 7, 7, 7, 8, 8, 8, 6, 8, 7, 8, 8, 8, 6, 8, 5, 7, 8, 4, 7>>
italian_6 ==
    <<6, 5, 5, 4, 8, 5, 6, 7, 8, 6, 6, 7, 8, 8, 8, 8, 8, 7, 7, 7, 7, 8, 8, 8, 8, 6,
      8, 6, 7, 8, 7, 8, 8, 8, 7, 8, 8, 8, 7, 8, 8, 8, 8, 7, 7, 8, 8, 7, 6, 8, 6, 8,
      7, 6, 8, 8, 5, 8, 8, 7, 8, 8, 4, 6, 8, 5, 4, 7, 7, 8, 8, 6, 5, 7, 8, 6, 5, 6,
      7, 8, 7, 6, 7, 8, 5, 5, 7, 7, 6, 8, 7, 8, 8, 5, 7, 7, 6, 5, 6, 7, 4, 7, 8, 5,
      6, 7, 8, 8, 6, 4, 8, 6, 5, 7, 6, 6, 8, 8, 4, 8, 8, 8, 4, 8, 7, 8, 8, 6, 8, 8,
      8, 8, 5, 5, 4, 7, 8, 8, 7, 8, 5, 8, 7, 8, 8, 7, 8, 6, 6, 8>>
italian_7 ==
    <<6, 8, 5, 7, 8, 8, 4, 8, 8, 5, 6, 7, 5, 6, 8, 8, 8, 6, 8, 8, 7, 7, 6, 4, 6, 4,
      8, 6, 8, 5, 7, 6, 8, 8, 8, 6, 8, 7, 7, 5, 6, 8, 4, 6, 4, 7, 8, 7, 5, 6, 7, 7,
      6, 6, 6, 4, 8, 6, 7, 6, 4, 5, 7, 7, 8, 4, 8, 8, 4, 6, 8, 8, 4, 5, 8, 6, 7, 4,
      6, 4, 7, 7, 7, 6, 8, 6, 7, 5, 7, 8, 7, 7, 4, 7, 4, 5, 8, 8, 8, 6, 5, 5, 8, 8,
      7, 6, 6, 8, 6, 8, 7, 8, 7, 8, 8, 4, 8, 8, 6, 8, 8, 8, 8, 6, 7, 5, 5, 4, 8, 7,
      6, 6, 8, 7, 8, 8, 8, 7, 6, 8, 8, 4, 8, 8, 8, 7, 7, 7, 8, 7>>
italian_8 ==
    <<7, 5, 6, 7, 8, 8, 5, 8, 7, 6, 8, 6, 4, 8, 8, 8, 7, 8, 8, 7, 8, 8, 5, 8, 7, 6,
      5, 4, 7, 8, 5, 7, 7, 7, 6, 6, 7, 5, 7, 6, 7, 8, 8, 8, 6, 8, 7, 6, 8, 6, 4, 6,
      8, 7, 8, 5, 6, 7, 5, 8, 7, 6, 6, 8, 7, 8, 5, 7, 8, 8, 8, 5, 6, 5, 5, 8, 8, 7,
      8, 6, 8, 6, 5, 8, 8, 6, 8, 8, 7, 6, 8, 7, 8, 8, 8, 7, 8, 8, 6, 8, 7, 8, 8, 5,
      8, 8, 6, 8, 6, 8, 7, 7, 6, 8, 8, 6, 7, 8, 6, 8, 6, 7, 7, 7, 8, 4, 4, 8, 6, 8,
      8, 8, 7, 7, 8, 8, 8, 8, 7, 6, 8, 8, 8, 6, 6, 8, 8, 6, 7, 7>>
italian_9 ==
    <<6, 5, 4, 8, 7, 8, 8, 8, 7, 8, 7, 8, 7, 7, 8, 8, 8, 8, 8, 8, 7, 8, 8, 8, 8, 6,
      8, 8, 8, 8, 8, 7, 4, 8, 8, 5, 7, 8, 7, 8, 8, 4, 8, 7, 4, 5, 5, 7, 5, 8, 6, 7,
      8, 6, 5, 8, 6, 5, 6, 4, 6, 7, 5, 8, 6, 6, 8, 6, 8, 8, 7, 8, 6, 8, 6, 8, 8, 5,
      5, 7, 8, 6, 7, 6, 5, 8, 8, 7, 7, 7, 7, 8, 7, 8, 8, 6, 5, 8, 6, 8, 8, 8, 8, 6,
      7, 8, 6, 8, 6, 5, 6, 7, 7, 8, 4, 6, 4, 8, 8, 8, 8, 6, 8, 8, 5, 4, 7, 7, 5, 7,
      8, 7, 8, 6, 5, 6, 8, 8, 8, 8, 8, 7, 8, 8, 8, 8, 6, 7, 7, 4>>
italian_10 ==
    <<6, 8, 8, 8, 5, 8, 8, 8, 8, 7, 5, 4, 8, 4, 8, 7, 5, 8, 7, 7, 8, 7, 8, 5, 8, 6,
      7, 8, 6, 8, 7, 8, 8, 8, 8, 8, 8, 8, 8, 8, 8, 6, 8, 8, 8, 6, 8, 8, 7, 7, 8, 6,
      8, 8, 6, 8, 8, 7, 6, 8, 6, 8, 7, 6, 5, 6, 6, 6, 8, 8, 8, 5, 8, 6, 8, 6, 5, 8,
      8, 8, 8, 6, 7, 8, 6, 8, 7, 7, 4, 8, 6, 6, 7, 8, 7, 7, 8, 8, 6, 5, 6, 7, 6, 8,
      4, 6, 5, 8, 7, 8, 7, 8, 7, 7, 8, 7, 4, 6, 7, 5, 8, 6, 5, 8, 6, 5, 6, 6, 6, 6,
      7, 8, 8, 6, 8, 8, 8, 8, 8, 8, 8, 8, 8, 8, 8, 7, 6, 5, 8, 8>>
italian_11 ==
    <<8, 6, 8, 5, 7, 6, 4, 8, 7, 7, 5, 7, 4, 8, 6, 7, 7, 7, 5, 4, 8, 5, 6, 8, 8, 6,
      8, 4, 7, 6, 6, 6, 6, 8, 7, 5, 6, 8, 5, 6, 8, 7, 7, 8, 5, 6, 8, 5, 8, 7, 6, 8,
      6, 7, 4, 6, 8, 7, 7, 8, 6, 5, 7, 5, 7, 7, 8, 7, 4, 7, 7, 8, 7, 7, 7, 7, 8, 5,
      5, 8, 7, 7, 7, 8, 7, 8, 7, 5, 7, 7, 6, 7, 8, 6, 4, 7, 7, 8, 6, 7, 6, 6, 5, 5,
      6, 7, 8, 7, 6, 7, 7, 8, 7, 8, 5, 7, 7, 7, 7, 4, 7, 7, 7, 5, 6, 8>>
italian ==
    [ english_language_name |-> "Italian", online |-> TRUE, prefix_length |-> 4,
      size |-> 1626, words |-> italian_1 \o italian_2 \o italian_3 \o italian_4 \o italian_5 \o italian_6 \o
                italian_7 \o italian_8 \o italian_9 \o italian_10 \o italian_11 ]

japanese ==
    [ english_language_name |-> "Japanese", online |-> FALSE, prefix_length |-> 3,
      size |-> 1626, words |-> <<>> ]
-----------------------------------------------------------------------------
(* lobjan.py *)
lobjan_1 ==
    <<5, 5, 5, 5, 5, 5, 5, 5, 5, 5, 5, 5, 5, 5, 5, 5, 5, 5, 5, 5, 5, 5, 5, 5, 5, 5,
      5, 5, 5, 5, 5, 5, 5, 5, 5, 5, 5, 5, 5, 5, 5, 5, 5, 5, 5, 5, 5, 5, 5, 5, 5, 5,
      5, 5, 5, 5, 5, 5, 5, 5, 5, 5, 5, 5, 5, 5, 5, 5, 5, 5, 5, 5, 5, 5, 5, 5, 5, 5,
      5, 5, 5, 5, 5, 5, 5, 5, 5, 5, 5, 5, 5, 5, 5, 5, 5, 5, 5, 5, 5, 5, 5, 5, 5, 5,
      5, 5, 5, 5, 5, 5, 5, 5, 5, 5, 5, 5, 5, 5, 5, 5, 5, 5, 5, 5, 5, 5, 5, 5, 5, 5,
      5, 5, 5, 5, 5, 5, 5, 5, 5, 5, 5, 5, 5, 5, 5, 5, 5, 5, 5, 5>>
lobjan_2 ==
    <<5, 5, 5, 5, 5, 5, 5, 5, 5, 5, 5, 5, 5, 5, 5, 5, 5, 5, 5, 5, 5, 5, 5, 5, 5, 5,
      5, 5, 5, 5, 5, 5, 5, 5, 5, 5, 5, 5, 5, 5, 5, 5, 5, 5, 5, 5, 5, 5, 5, 5, 5, 5,
      5, 5, 5, 5, 5, 5, 5, 5, 5, 5, 5, 5, 5, 5, 5, 5, 5, 5, 5, 5, 5, 5, 5, 5, 5, 5,
      5, 5, 5, 5, 5, 5, 5, 5, 5, 5, 5, 5, 5, 5, 5, 5, 5, 5, 5, 5, 5, 5, 5, 5, 5, 5,
      5, 5, 5, 5, 5, 5, 5, 5, 5, 5, 5, 5, 5, 5, 5, 5, 5, 5, 5, 5, 5, 5, 5, 5, 5, 5,
      5, 5, 5, 5, 5, 5, 5, 5, 5, 5, 5, 5, 5, 5, 5, 5, 5, 5, 5, 5>>
lobjan_3 ==
    <<5, 5, 5, 5, 5, 5, 5, 5, 5, 5, 5, 5, 5, 5, 5, 5, 5, 5, 5, 5, 5, 5, 5, 5, 5, 5,
      5, 5, 5, 5, 5, 5, 5, 5, 5, 5, 5, 5, 5, 5, 5, 5, 5, 5, 5, 5, 5, 5, 5, 5, 5, 5,
      5, 5, 5, 5, 5, 5, 5, 5, 5, 5, 5, 5, 5, 5, 5, 5, 5, 5, 5, 5, 5, 5, 5, 5, 5, 5,
      5, 5, 5, 5, 5, 5, 5, 5, 5, 5, 5, 5, 5, 5, 5, 5, 5, 5, 5, 5, 5, 5, 5, 5, 5, 5,
      5, 5, 5, 5, 5, 5, 5, 5, 5, 5, 5, 5, 5, 5, 5, 5, 5, 5, 5, 5, 5, 5, 5, 5, 5, 5,
      5, 5, 5, 5, 5, 5, 5, 5, 5, 5, 5, 5, 5, 5, 5, 5, 5, 5, 5, 5>>
lobjan_4 ==
    <<5, 5, 5, 5, 5, 5, 5, 5, 5, 5, 5, 5, 5, 5, 5, 5, 5, 5, 5, 5, 5, 5, 5, 5, 5, 5,
      5, 5, 5, 5, 5, 5, 5, 5, 5, 5, 5, 5, 5, 5, 5, 5, 5, 5, 5, 5, 5, 5, 5, 5, 5, 5,
      5, 5, 5, 5, 5, 5, 5, 5, 5, 5, 5, 5, 5, 5, 5, 5, 5, 5, 5, 5, 5, 5, 5, 5, 5, 5,
      5, 5, 5, 5, 5, 5, 5, 5, 5, 5, 5, 5, 5, 5, 5, 5, 5, 5, 5, 5, 5, 5, 5, 5, 5, 5,
      5, 5, 5, 5, 5, 5, 5, 5, 5, 5, 5, 5, 5, 5, 5, 5, 5, 5, 5, 5, 5, 5, 5, 5, 5, 5,
      5, 5, 5, 5, 5, 5, 5, 5, 5, 5, 5, 5, 5, 5, 5, 5, 5, 5, 5, 5>>
lobjan_5 ==
    <<5, 5, 5, 5, 5, 5, 5, 5, 5, 5, 5, 5, 5, 5, 5, 5, 5, 5, 5, 5, 5, 5, 5, 5, 5, 5,
      5, 5, 5, 5, 5, 5, 5, 5, 5, 5, 5, 5, 5, 5, 5, 5, 5, 5, 5, 5, 5, 5, 5, 5, 5, 5,
      5, 5, 5, 5, 5, 5, 5, 5, 5, 5, 5, 5, 5, 5, 5, 5, 5, 5, 5, 5, 5, 5, 5, 5, 5, 5,
      5, 5, 5, 5, 5, 5, 5, 5, 5, 5, 5, 5, 5, 5, 5, 5, 5, 5, 5, 5, 5, 5, 5, 5, 5, 5,
      5, 5, 5, 5, 5, 5, 5, 5, 5, 5, 5, 5, 5, 5, 5, 5, 5, 5, 5, 5, 5, 5, 5, 5, 5, 5,
      5, 5, 5, 5, 5, 5, 5, 5, 5, 5, 5, 5, 5, 5, 5, 5, 5, 5, 5, 5>>
lobjan_6 ==
    <<5, 5, 5, 5, 5, 5, 5, 5, 5, 5, 5, 5, 5, 5, 5, 5, 5, 5, 5, 5, 5, 5, 5, 5, 5, 5,
      5, 5, 5, 5, 5, 5, 5, 5, 5, 5, 5, 5, 5, 5, 5, 5, 5, 5, 5, 5, 5, 5, 5, 5, 5, 5,
      5, 5, 5, 5, 5, 5, 5, 5, 5, 5, 5, 5, 5, 5, 5, 5, 5, 5, 5, 5, 5, 5, 5, 5, 5, 5,
      5, 5, 5, 5, 5, 5, 5, 5, 5, 5, 5, 5, 5, 5, 5, 5, 5, 5, 5, 5, 5, 5, 5, 5, 5, 5,
      5, 5, 5, 5, 5, 5, 5, 5, 5, 5, 5, 5, 5, 5, 5, 5, 5, 5, 5, 5, 5, 5, 5, 5, 5, 5,
      5, 5, 5, 5, 5, 5, 5, 5, 5, 5, 5, 5, 5, 5, 5, 5, 5, 5, 5, 5>>
lobjan_7 ==
    <<5, 5, 5, 5, 5, 5, 5, 5, 5, 5, 5, 5, 5, 5, 5, 5, 5, 5, 5, 5, 5, 5, 5, 5, 5, 5,
      5, 5, 5, 5, 5, 5, 5, 5, 5, 5, 5, 5, 5, 5, 5, 5, 5, 5, 5, 5, 5, 5, 5, 5, 5, 5,
      5, 5, 5, 5, 5, 5, 5, 5, 5, 5, 5, 5, 5, 5, 5, 5, 5, 5, 5, 5, 5, 5, 5, 5, 5, 5,
      5, 5, 5, 5, 5, 5, 5, 5, 5, 5, 5, 5, 5, 5, 5, 5, 5, 5, 5, 5, 5, 5, 5, 5, 5, 5,
      5, 5, 5, 5, 5, 5, 5, 5, 5, 5, 5, 5, 5, 5, 5, 5, 5, 5, 5, 5, 5, 5, 5, 5, 5, 5,
      5, 5, 5, 5, 5, 5, 5, 5, 5, 5, 5, 5, 5, 5, 5, 5, 5, 5, 5, 5>>
lobjan_8 ==
    <<5, 5, 5, 5, 5, 5, 5, 5, 5, 5, 5, 5, 5, 5, 5, 5, 5, 5, 5, 5, 5, 5, 5, 5, 5, 5,
      5, 5, 5, 5, 5, 5, 5, 5, 5, 5, 5, 5, 5, 5, 5, 5, 5, 5, 5, 5, 5, 5, 5, 5, 5, 5,
      5, 5, 5, 5, 5, 5, 5, 5, 5, 5, 5, 5, 5, 5, 5, 5, 5, 5, 5, 5, 5, 5, 5, 5, 5, 5,
      5, 5, 5, 5, 5, 5, 5, 5, 5, 5, 5, 5, 5, 5, 5, 5, 5, 5, 5, 5, 5, 5, 5, 5, 5, 5,
      5, 5, 5, 5, 5, 5, 5, 5, 5, 5, 5, 5, 5, 5, 5, 5, 5, 5, 5, 5, 5, 5, 5, 5, 5, 5,
      5, 5, 5, 5, 5, 5, 5, 5, 5, 5, 5, 5, 5, 5, 5, 5, 5, 5, 5, 5>>
lobjan_9 ==
    <<5, 5, 5, 5, 5, 5, 5, 5, 5, 5, 5, 5, 5, 5, 5, 5, 5, 5, 5, 5, 5, 5, 5, 5, 5, 5,
      5, 5, 5, 5, 5, 5, 5, 5, 5, 5, 5, 5, 5, 5, 5, 5, 5, 5, 5, 5, 5, 5, 5, 5, 5, 5,
      5, 5, 5, 5, 5, 5, 5, 5, 5, 5, 5, 5, 5, 5, 5, 5, 5, 5, 5, 5, 5, 5, 5, 5, 5, 5,
      5, 5, 5, 5, 5, 5, 5, 5, 5, 5, 5, 5, 5, 5, 5, 5, 5, 5, 5, 5, 5, 5, 5, 5, 5, 5,
      5, 5, 5, 5, 5, 5, 5, 5, 5, 5, 5, 5, 5, 5, 5, 5, 5, 5, 5, 5, 5, 5, 5, 5, 5, 5,
      5, 5, 5, 5, 5, 5, 5, 5, 5, 5, 5, 5, 5, 5, 5, 5, 5, 5, 5, 5>>
lobjan_10 ==
    <<5, 5, 5, 5, 5, 5, 5, 5, 5, 5, 5, 5, 5, 5, 5, 5, 5, 5, 5, 5, 5, 5, 5, 5, 5, 5,
      5, 5, 5, 5, 5, 5, 5, 5, 5, 5, 5, 5, 5, 5, 5, 5, 5, 5, 5, 5, 5, 5, 5, 5, 5, 5,
      5, 5, 5, 5, 5, 5, 5, 5, 5, 5, 5, 5, 5, 5, 5, 5, 5, 5, 5, 5, 5, 5, 5, 5, 5, 5,
      5, 5, 5, 5, 5, 5, 5, 5, 5, 5, 5, 5, 5, 5, 5, 5, 5, 5, 5, 5, 5, 5, 5, 5, 5, 5,
      5, 5, 5, 5, 5, 5, 5, 5, 5, 5, 5, 5, 5, 5, 5, 5, 5, 5, 5, 5, 5, 5, 5, 5, 5, 5,
      5, 5, 5, 5, 5, 5, 5, 5, 5, 5, 5, 5, 5, 5, 5, 5, 5, 5, 5, 5>>
lobjan_11 ==
    <<5, 5, 5, 5, 5, 5, 5, 5, 5, 5, 5, 5, 5, 5, 5, 5, 5, 5, 5, 5, 5, 5, 6, 6, 6, 6,
      6, 6, 6, 8, 12, 6, 6, 7, 13, 6, 6, 7, 7, 6, 6, 6, 6, 6, 6, 9, 7, 7, 8, 9, 6,
      6, 6, 6, 6, 6, 6, 7, 7, 6, 6, 7, 6, 6, 6, 9, 6, 6, 7, 7, 6, 6, 6, 7, 6, 6, 6,
      6, 7, 7, 7, 6, 6, 6, 7, 6, 6, 8, 7, 6, 9, 7, 9, 10, 6, 7, 6, 8, 6, 8, 6, 6, 6,
      7, 8, 6, 6, 6, 6, 6, 6, 6, 6, 6, 6, 7, 6, 9, 6, 6, 6, 7, 7, 10, 6, 7>>
lobjan ==
    [ english_language_name |-> "Lobjan", online |-> TRUE, prefix_length |-> 4,
      size |-> 1626, words |-> lobjan_1 \o lobjan_2 \o lobjan_3 \o lobjan_4 \o lobjan_5 \o lobjan_6 \o lobjan_7 \o
                lobjan_8 \o lobjan_9 \o lobjan_10 \o lobjan_11 ]
-----------------------------------------------------------------------------
(* portuguese.py *)
portuguese_1 ==
    <<7, 9, 5, 9, 6, 7, 7, 7, 10, 7, 6, 9, 11, 7, 12, 7, 4, 9, 9, 12, 8, 9, 5, 8, 7,
      9, 9, 7, 8, 9, 8, 7, 7, 8, 8, 8, 5, 6, 9, 8, 6, 8, 7, 5, 9, 7, 6, 4, 4, 6, 7,
      8, 8, 6, 6, 8, 7, 7, 9, 9, 6, 7, 6, 10, 10, 7, 10, 9, 6, 7, 6, 9, 11, 9, 8, 9,
      8, 7, 9, 7, 5, 6, 11, 4, 6, 7, 7, 7, 7, 5, 5, 9, 5, 9, 10, 9, 6, 4, 6, 6, 6,
      7, 5, 6, 5, 6, 10, 8, 10, 10, 6, 7, 7, 7, 9, 7, 7, 7, 9, 8, 9, 8, 6, 8, 5, 9,
      11, 10, 5, 7, 7, 7, 7, 4, 7, 6, 6, 6, 6, 9, 8, 6, 10, 11, 7, 5, 7, 15, 9, 8>>
portuguese_2 ==
    <<7, 7, 11, 8, 5, 5, 7, 7, 9, 6, 7, 6, 6, 12, 5, 7, 7, 12, 8, 7, 5, 7, 6, 6, 5,
      8, 6, 6, 7, 7, 6, 9, 12, 6, 8, 7, 9, 7, 8, 7, 13, 7, 8, 7, 6, 9, 7, 7, 8, 10,
      7, 8, 6, 7, 6, 6, 5, 8, 5, 6, 11, 10, 9, 7, 6, 8, 7, 9, 6, 6, 5, 9, 8, 8, 4,
      7, 6, 6, 5, 5, 10, 10, 5, 7, 6, 8, 7, 7, 6, 8, 7, 6, 10, 9, 6, 7, 10, 9, 6, 8,
      8, 6, 5, 5, 4, 5, 7, 8, 5, 7, 7, 7, 11, 6, 8, 10, 6, 7, 5, 4, 8, 5, 8, 9, 5,
      7, 8, 7, 9, 5, 8, 7, 7, 6, 6, 8, 9, 8, 5, 7, 9, 10, 13, 10, 12, 8, 7, 5, 10, 7>>
portuguese_3 ==
    <<5, 10, 7, 6, 5, 7, 6, 4, 6, 6, 6, 4, 8, 10, 6, 5, 7, 7, 8, 6, 6, 5, 13, 8, 10,
      7, 8, 7, 10, 6, 6, 4, 10, 7, 7, 7, 8, 6, 8, 7, 9, 8, 5, 7, 10, 8, 12, 6, 8, 7,
      8, 10, 8, 8, 6, 9, 7, 8, 8, 10, 7, 11, 5, 9, 9, 6, 8, 7, 4, 5, 6, 5, 4, 5, 6,
      4, 7, 6, 6, 6, 4, 6, 4, 9, 5, 6, 6, 5, 6, 5, 5, 6, 6, 7, 7, 5, 8, 5, 5, 5, 7,
      7, 6, 11, 10, 10, 6, 4, 9, 7, 9, 7, 6, 7, 10, 7, 4, 12, 4, 5, 5, 6, 10, 8, 6,
      4, 9, 11, 9, 7, 7, 4, 6, 7, 6, 7, 8, 8, 6, 7, 8, 7, 4, 9, 7, 10, 14, 8, 10, 7>>
portuguese_4 ==
    <<12, 8, 12, 6, 10, 6, 7, 5, 5, 8, 6, 5, 5, 7, 9, 4, 8, 5, 7, 7, 9, 7, 10, 6, 8,
      8, 10, 9, 8, 7, 14, 10, 8, 6, 6, 9, 8, 4, 7, 10, 8, 8, 6, 7, 9, 9, 7, 13, 8,
      7, 8, 13, 8, 9, 5, 7, 7, 7, 9, 6, 8, 11, 4, 7, 6, 6, 7, 6, 7, 6, 6, 7, 6, 9,
      6, 8, 9, 5, 8, 6, 7, 9, 7, 5, 10, 7, 6, 5, 8, 7, 7, 4, 5, 9, 7, 6, 5, 8, 10,
      5, 4, 8, 7, 6, 6, 6, 6, 6, 8, 8, 6, 4, 6, 6, 11, 8, 10, 5, 4, 6, 8, 4, 8, 7,
      5, 5, 5, 12, 8, 11, 5, 7, 6, 7, 4, 6, 8, 6, 5, 10, 4, 9, 9, 8, 10, 6, 5, 7, 4,
      7>>
portuguese_5 ==
    <<8, 7, 7, 4, 15, 4, 5, 8, 10, 6, 9, 6, 6, 9, 4, 6, 9, 8, 7, 13, 8, 7, 9, 4, 6,
      6, 7, 10, 7, 7, 5, 5, 5, 8, 8, 5, 4, 7, 8, 4, 5, 5, 6, 8, 7, 7, 4, 5, 8, 5, 8,
      5, 8, 4, 5, 5, 6, 4, 4, 9, 8, 7, 7, 8, 14, 10, 10, 9, 8, 7, 7, 6, 10, 9, 6, 6,
      8, 11, 8, 12, 9, 7, 13, 10, 8, 5, 7, 12, 10, 9, 10, 7, 5, 4, 6, 7, 14, 10, 9,
      4, 9, 5, 7, 6, 5, 10, 9, 9, 7, 4, 5, 4, 4, 8, 7, 5, 5, 4, 7, 7, 4, 4, 7, 9, 5,
      8, 8, 5, 8, 4, 7, 4, 7, 6, 7, 7, 7, 8, 7, 9, 8, 12, 7, 9, 6, 8, 6, 7, 8, 13>>
portuguese_6 ==
    <<7, 7, 12, 7, 5, 6, 6, 7, 6, 10, 13, 13, 14, 12, 12, 9, 4, 7, 4, 9, 6, 4, 7, 9,
      4, 8, 6, 7, 8, 4, 6, 8, 7, 8, 9, 4, 4, 7, 10, 5, 5, 9, 13, 9, 4, 7, 8, 6, 5,
      9, 7, 7, 5, 6, 4, 5, 5, 4, 5, 7, 5, 8, 5, 9, 6, 5, 5, 6, 5, 4, 6, 4, 6, 6, 7,
      4, 6, 5, 4, 5, 7, 8, 6, 7, 5, 6, 7, 7, 5, 6, 5, 4, 9, 7, 6, 5, 6, 11, 5, 7, 6,
      5, 6, 8, 5, 7, 5, 8, 4, 10, 7, 4, 6, 5, 8, 8, 6, 5, 5, 8, 9, 8, 10, 5, 6, 5,
      8, 9, 11, 8, 8, 12, 8, 7, 6, 9, 6, 4, 6, 7, 4, 5, 7, 8, 6, 4, 6, 6, 7, 5>>
portuguese_7 ==
    <<6, 4, 12, 6, 7, 4, 8, 6, 8, 4, 5, 10, 7, 6, 7, 7, 5, 9, 11, 8, 6, 10, 8, 10,
      7, 9, 6, 8, 7, 6, 7, 7, 5, 6, 13, 6, 8, 5, 9, 4, 10, 10, 7, 11, 8, 8, 4, 13,
      5, 10, 6, 6, 8, 7, 8, 7, 6, 8, 9, 6, 9, 6, 4, 4, 5, 5, 7, 9, 7, 10, 10, 6, 5,
      7, 8, 6, 9, 4, 5, 6, 7, 5, 4, 7, 6, 9, 6, 4, 9, 4, 5, 4, 6, 6, 7, 10, 7, 10,
      7, 6, 7, 8, 9, 9, 5, 6, 7, 9, 7, 5, 6, 7, 8, 10, 4, 10, 6, 9, 8, 5, 6, 8, 8,
      7, 5, 14, 6, 7, 6, 4, 8, 5, 4, 10, 7, 9, 10, 7, 7, 6, 6, 11, 7, 4, 11, 9, 7,
      9, 6, 5>>
portuguese_8 ==
    <<7, 5, 9, 7, 7, 7, 11, 8, 6, 4, 5, 5, 9, 11, 6, 8, 7, 4, 8, 8, 8, 9, 7, 5, 7,
      6, 11, 5, 4, 6, 6, 10, 7, 6, 6, 6, 5, 8, 4, 4, 9, 9, 10, 6, 8, 8, 7, 7, 12,
      10, 4, 4, 11, 8, 10, 4, 6, 8, 12, 8, 8, 7, 5, 5, 5, 4, 10, 8, 12, 7, 6, 8, 6,
      9, 6, 5, 4, 5, 7, 5, 6, 9, 7, 4, 11, 5, 5, 6, 6, 6, 8, 8, 7, 10, 5, 9, 6, 5,
      9, 6, 11, 6, 11, 7, 5, 5, 9, 8, 4, 5, 4, 10, 9, 6, 8, 10, 6, 7, 6, 7, 6, 9, 9,
      6, 6, 6, 7, 8, 7, 6, 7, 10, 8, 10, 10, 7, 6, 8, 10, 6, 13, 10, 4, 8, 7, 6, 4,
      9, 7, 9>>
portuguese_9 ==
    <<7, 8, 6, 6, 6, 5, 5, 6, 5, 6, 11, 7, 9, 10, 8, 12, 8, 10, 5, 6, 4, 9, 4, 7,
      10, 5, 4, 9, 7, 6, 4, 12, 7, 10, 10, 8, 7, 7, 5, 4, 6, 4, 8, 8, 6, 10, 4, 7,
      8, 7, 8, 8, 8, 9, 9, 11, 9, 10, 13, 16, 5, 11, 9, 10, 6, 9, 6, 7, 10, 9, 8, 6,
      9, 6, 8, 5, 8, 4, 5, 4, 4, 7, 8, 7, 12, 9, 4, 7, 6, 10, 4, 4, 5, 4, 10, 8, 8,
      7, 5, 7, 8, 4, 5, 4, 6, 10, 5, 4, 6, 5, 4, 8, 6, 7, 5, 7, 7, 8, 6, 7, 14, 5,
      5, 4, 7, 9, 4, 7, 9, 7, 5, 5, 7, 11, 7, 7, 6, 5, 9, 6, 7, 8, 6, 4, 6, 6, 7, 9,
      7, 9>>
portuguese_10 ==
    <<7, 4, 8, 9, 6, 6, 9, 7, 5, 10, 6, 5, 10, 8, 8, 5, 6, 6, 5, 5, 6, 4, 6, 9, 9,
      8, 8, 5, 4, 6, 7, 5, 5, 7, 10, 7, 7, 9, 8, 7, 8, 9, 8, 10, 8, 9, 5, 4, 6, 6,
      8, 4, 7, 6, 5, 7, 7, 8, 4, 8, 6, 10, 8, 6, 8, 10, 7, 6, 7, 6, 6, 6, 11, 6, 12,
      13, 10, 10, 7, 6, 9, 5, 7, 8, 5, 9, 6, 7, 10, 12, 7, 9, 4, 6, 5, 5, 5, 7, 7,
      6, 8, 7, 10, 7, 8, 6, 7, 4, 4, 6, 4, 7, 8, 7, 9, 7, 8, 6, 10, 6, 4, 5, 6, 6,
      9, 12, 7, 5, 8, 7, 6, 4, 4, 6, 6, 10, 8, 10, 5, 4, 9, 8, 8, 7, 9, 5, 4, 8, 5,
      12>>
portuguese_11 ==
    <<9, 5, 5, 6, 11, 6, 8, 7, 7, 7, 5, 6, 5, 6, 7, 6, 4, 7, 4, 8, 6, 5, 6, 7, 4, 8,
      7, 5, 8, 7, 6, 10, 5, 5, 7, 6, 7, 7, 9, 8, 8, 8, 5, 9, 10, 5, 5, 6, 8, 10, 4,
      4, 6, 9, 7, 5, 9, 7, 9, 5, 6, 10, 6, 7, 6, 10, 8, 11, 4, 6, 10, 9, 5, 10, 9,
      5, 4, 5, 4, 9, 4, 5, 5, 6, 6, 7, 7, 5, 4, 9, 7, 5, 5, 4, 7, 6, 4, 5, 5, 6, 5,
      7, 5, 7, 4, 5, 6, 8, 5, 11, 6, 7, 4, 4, 5, 5, 7, 8, 8, 6, 6, 4, 6, 6, 6, 5>>
portuguese ==
    [ english_language_name |-> "Portuguese", online |-> TRUE, prefix_length |-> 4,
      size |-> 1626, words |-> portuguese_1 \o portuguese_2 \o portuguese_3 \o portuguese_4 \o portuguese_5 \o
                portuguese_6 \o portuguese_7 \o portuguese_8 \o portuguese_9 \o
                portuguese_10 \o portuguese_11 ]

russian ==
    [ english_language_name |-> "Russian", online |-> FALSE, prefix_length |-> 4,
      size |-> 1626, words |-> <<>> ]

spanish ==
    [ english_language_name |-> "Spanish", online |-> FALSE, prefix_length |-> 4,
      size |-> 1626, words |-> <<>> ]
-----------------------------------------------------------------------------
\* languages.py, in the order of the tool's menu.
AllLanguages ==
    <<chinese_simplified, dutch, english, esperanto, french, italian, japanese,
      lobjan, portuguese, russian, spanish>>
=============================================================================
