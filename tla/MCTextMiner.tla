---------------------------- MODULE MCTextMiner ----------------------------
(***************************************************************************)
(* Instances of TextMiner for TLC.                                         *)
(***************************************************************************)
EXTENDS TextMiner

Setup(miners, articles, format, mode, old, dump, pretty) ==
    [miners |-> miners, articles |-> articles, format |-> format, mode |-> mode,
     old |-> old, dump |-> dump, pretty |-> pretty]

\* One miner with articles to find, several without; an XML file with a text
\* file or the pretty output beside it, new or in a file that exists, a protobuf
\* file that is appended to, a JSON file, a text file that is appended to, and
\* one that cannot be because it is not there.
MCSetups ==
    LET one == {CHOOSE m \in Miners : TRUE}
    IN  {Setup(one, TRUE, "xml", "append", <<0, 0>>, TRUE, TRUE),
         Setup(Miners, FALSE, "xml", "overwrite", <<0>>, FALSE, TRUE),
         Setup(one, FALSE, "proto", "append", <<0>>, FALSE, TRUE),
         Setup(one, FALSE, "json", "unset", <<0>>, FALSE, FALSE),
         Setup(Miners, FALSE, "text", "append", <<0>>, FALSE, FALSE),
         Setup(one, FALSE, "text", "append", <<>>, FALSE, FALSE)}

\* Articles to find and more than one thread.
MCArticles == {Setup(Miners, TRUE, "xml", "overwrite", <<>>, FALSE, FALSE)}

\* A new text file, and no mode.
MCTextFile == {Setup(Miners, FALSE, "text", "unset", <<>>, FALSE, FALSE)}
=============================================================================
